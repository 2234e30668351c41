------------------------------- MODULE SchemaInit -------------------------------
(***************************************************************************)
(* init_db on one tenant database, statement by statement, by processes    *)
(* that serve the database between times, repair its projections, import   *)
(* an artifact into it, or die.                                            *)
(*                                                                         *)
(* On sqlite the first INSERT, UPDATE or DELETE opens the transaction that *)
(* `with conn:` ends, and what came before it has committed already, as    *)
(* DDL does; on libsql every statement commits itself.  Another process    *)
(* reads what was committed and waits to write.                            *)
(***************************************************************************)
EXTENDS Naturals, FiniteSets, FiniteSetsExt

CONSTANTS
  Processes,  \* containers and operator commands on the database
  Nobody,
  Ids,        \* messages.id, in order
  Date,       \* Date[m]: the day message m was written, as its host tells
  Shapes,     \* the databases that are met at first
  Artifact,   \* the canonical rows of an artifact
  MaxStarts   \* bound: what each process starts to do

ASSUME SchemaAssumption ==
  /\ IsFiniteSet(Processes) /\ Nobody \notin Processes
  /\ Ids \subseteq Nat /\ Date \in [Ids -> Nat \ {0}]
  /\ MaxStarts \in Nat

VARIABLES
  backend,  \* "sqlite" or "libsql"
  disk,     \* the database as committed
  db,       \* the same as the writer of the open transaction sees it
  writer,   \* the process that has a transaction open
  proc      \* what each process does

schemaVars == <<backend, disk, db, writer, proc>>

Undated == 0

\* A candidate row, and the day of its earliest source.
Candidate(m, sources, mentioned) == [id |-> m, sources |-> sources, mentioned |-> mentioned]
Earliest(sources) == Min({Date[m] : m \in sources})
CandidateRows == [id : Ids, sources : (SUBSET Ids) \ {{}}, mentioned : Nat]

\* An artifact is what a database held; one of a release that had no days does
\* not have their column.
ASSUME ArtifactAssumption ==
  /\ Artifact.dated \in BOOLEAN
  /\ Artifact.cands \subseteq CandidateRows
  /\ \A c \in Artifact.cands :
       c.mentioned = Undated \/ (Artifact.dated /\ c.mentioned = Earliest(c.sources))
  /\ \A b, c \in Artifact.cands : b.id = c.id => b = c

\* What retrieval surfaces: candidates and facts, here one of each.  A fact
\* starts with the count its candidate had.
Surfaced == {"candidate", "fact"}

\* What is built out of other rows, the counters among it; `keyed` and `torn`
\* are history: the messages a source key was recorded for, and the parts
\* somebody left undone.
Parts == {"index", "ledger", "shadow"} \cup Surfaced
Zero == [r \in Surfaced |-> 0]
Current ==
  [messages |-> {}, index |-> "current", found |-> {},
   ledger |-> "current", keys |-> {}, old |-> {}, renamed |-> FALSE,
   dated |-> TRUE, cands |-> {}, shadow |-> TRUE, triggers |-> TRUE, shadowed |-> {},
   unique |-> TRUE, twins |-> FALSE, meta |-> TRUE,
   fact |-> FALSE, events |-> Zero, count |-> Zero, inherited |-> 0,
   keyed |-> {}, torn |-> {}]
Empty ==
  [Current EXCEPT !.index = "none", !.ledger = "none", !.dated = FALSE, !.shadow = FALSE,
                  !.triggers = FALSE, !.unique = FALSE, !.meta = FALSE]

\* A database of an earlier release, with one message and a candidate of it;
\* twins are live facts of one candidate, from the double-promotion race.
Old(m, index, twins) ==
  [Empty EXCEPT !.messages = {m}, !.index = index, !.found = {m},
                !.ledger = "legacy", !.keys = {m}, !.keyed = {m},
                !.cands = {Candidate(m, {m}, Undated)}, !.twins = twins]

ASSUME ShapesAssumption ==
  Shapes \subseteq {Empty} \cup {Old(m, index, twins) : m \in Ids, index \in {"old", "current"},
                                                    twins \in BOOLEAN}

Resting == [pc |-> "idle", job |-> "none", memo |-> {}, open |-> {},
            seen |-> {}, fresh |-> FALSE, starts |-> 0]

SchemaStart ==
  /\ backend \in {"sqlite", "libsql"}
  /\ db \in Shapes /\ disk = db /\ writer = Nobody
  /\ proc = [p \in Processes |-> Resting]

-----------------------------------------------------------------------------
(* Statements *)

At(p, jobs, pc) == proc[p].pc = pc /\ proc[p].job \in jobs
Do(p, r) == proc' = [proc EXCEPT ![p] = r]
Go(p, pc) == Do(p, [proc[p] EXCEPT !.pc = pc])

Sees(p) == IF writer = p THEN db ELSE disk
MayWrite(p) == writer \in {Nobody, p}

Read == UNCHANGED <<backend, disk, db, writer>>

Write(new, by) ==
  /\ db' = new /\ writer' = by
  /\ disk' = IF by = Nobody THEN new ELSE disk
  /\ UNCHANGED backend

\* CREATE, DROP and ALTER join a transaction and open none.
Ddl(p, new) == MayWrite(p) /\ Write(new, writer)

\* INSERT, UPDATE and DELETE open one on sqlite.
Dml(p, new) == MayWrite(p) /\ Write(new, IF backend = "sqlite" THEN p ELSE Nobody)

\* What commits by itself leaves a part open until the statement that makes
\* it whole commits as well.
Opening(p, part) == proc[p].open \cup (IF writer = p THEN {} ELSE {part})
Closing(p, part) == IF backend = "sqlite" THEN proc[p].open ELSE proc[p].open \ {part}
Mended(d, part) == [d EXCEPT !.torn = @ \ {part}]

-----------------------------------------------------------------------------
(* Starting and ending *)

MayStart(p) == proc[p].pc = "idle" /\ proc[p].starts < MaxStarts
Start(p, what, pc) ==
  Do(p, [proc[p] EXCEPT !.pc = pc, !.job = what, !.starts = @ + 1])

\* A process that has initialised the database does not do so again, and
\* whatever else it does comes after.
StartInit(p) == MayStart(p) /\ "base" \notin proc[p].memo /\ Start(p, "init", "base") /\ Read
StartVectors(p) ==
  /\ MayStart(p) /\ proc[p].memo = {"base"}
  /\ Start(p, "vectors", "look_meta") /\ Read
StartAppend(p) == MayStart(p) /\ "base" \in proc[p].memo /\ Start(p, "append", "row") /\ Read
StartRepair(p) ==
  MayStart(p) /\ "base" \in proc[p].memo /\ Start(p, "repair", "clear_index") /\ Read
StartImport(p) ==
  MayStart(p) /\ "vec" \in proc[p].memo /\ Start(p, "import", "insert") /\ Read

\* The end of `with conn:`, after which an init is remembered.
Commit(p) ==
  /\ proc[p].pc = "commit"
  /\ MayWrite(p) /\ Write(db, Nobody)
  /\ Do(p, [proc[p] EXCEPT !.pc = "idle", !.open = {},
                           !.memo = @ \cup {IF proc[p].job = "vectors" THEN "vec" ELSE "base"}])

\* A statement raises, or the process dies and forgets: a transaction rolls
\* back, what committed before it stays.
Left(d, p) == [d EXCEPT !.torn = @ \cup proc[p].open]
Break(p) ==
  /\ proc[p].pc # "idle"
  /\ disk' = Left(disk, p)
  /\ db' = Left(IF writer = p THEN disk ELSE db, p)
  /\ writer' = IF writer = p THEN Nobody ELSE writer
  /\ \E memo \in {proc[p].memo, {}} :
       Do(p, [Resting EXCEPT !.memo = memo, !.starts = proc[p].starts])
  /\ UNCHANGED backend

\* The host replaced the file and evicts the memo, or the container restarts.
Forget(p) ==
  /\ proc[p].pc = "idle" /\ proc[p].memo # {}
  /\ Do(p, [proc[p] EXCEPT !.memo = {}]) /\ Read

\* An operator retires the redundant facts an init complained of.
RetireTwins ==
  /\ db.twins /\ writer = Nobody
  /\ Write([db EXCEPT !.twins = FALSE], Nobody) /\ UNCHANGED proc

-----------------------------------------------------------------------------
(* The transcript index, out of the messages *)

\* The messages table, its columns and its indexes, if they are not there.
EnsureMessages(p) ==
  /\ At(p, {"init"}, "base") /\ Ddl(p, db) /\ Go(p, "look_index")

LookAtIndex(p) ==
  /\ At(p, {"init"}, "look_index")
  /\ Go(p, CASE Sees(p).index = "current" -> "ensure_ledger"
              [] Sees(p).index = "old" -> "drop_index"
              [] OTHER -> "create_index")
  /\ Read

DropIndex(p) ==
  /\ At(p, {"init"}, "drop_index")
  /\ Ddl(p, [db EXCEPT !.index = "none", !.found = {}])
  /\ Do(p, [proc[p] EXCEPT !.pc = "create_index", !.open = Opening(p, "index")])

\* Without IF NOT EXISTS: where another has created it, this raises.
CreateIndex(p) ==
  /\ At(p, {"init"}, "create_index") /\ db.index = "none"
  /\ Ddl(p, [db EXCEPT !.index = "current"])
  /\ Do(p, [proc[p] EXCEPT !.pc = "clear_index", !.open = Opening(p, "index")])

ClearIndex(p) ==
  /\ At(p, {"init", "repair", "import"}, "clear_index") /\ db.index # "none"
  /\ Dml(p, [db EXCEPT !.found = {}])
  /\ Do(p, [proc[p] EXCEPT !.pc = "read_messages",
                           !.open = IF backend = "sqlite" THEN @ ELSE @ \cup {"index"}])

ReadMessages(p) ==
  /\ At(p, {"init", "repair", "import"}, "read_messages")
  /\ MayWrite(p) /\ Write(Mended(db, "index"), writer)
  /\ Do(p, [proc[p] EXCEPT !.pc = "fill_index", !.seen = db.messages])

\* One INSERT for each message that was read.
FillIndex(p) ==
  /\ At(p, {"init", "repair", "import"}, "fill_index") /\ db.index # "none"
  /\ Dml(p, [db EXCEPT !.found = @ \cup proc[p].seen])
  /\ Do(p, [proc[p] EXCEPT !.open = Closing(p, "index"), !.seen = {},
                           !.pc = IF proc[p].job = "init" THEN "ensure_ledger"
                                  ELSE "rebuild_shadow"])

-----------------------------------------------------------------------------
(* The source ledger, out of the one whose keys had no agent *)

EnsureLedger(p) ==
  /\ At(p, {"init"}, "ensure_ledger")
  /\ Ddl(p, [db EXCEPT !.ledger = IF @ = "none" THEN "current" ELSE @])
  /\ Go(p, "look_ledger")

LookAtLedger(p) ==
  /\ At(p, {"init"}, "look_ledger")
  /\ Go(p, IF Sees(p).ledger = "legacy" THEN "rename_ledger" ELSE "columns")
  /\ Read

RenameLedger(p) ==
  /\ At(p, {"init"}, "rename_ledger") /\ db.ledger # "none" /\ ~db.renamed
  /\ Ddl(p, [db EXCEPT !.ledger = "none", !.keys = {}, !.old = db.keys, !.renamed = TRUE])
  /\ Do(p, [proc[p] EXCEPT !.pc = "create_ledger", !.open = Opening(p, "ledger")])

CreateLedger(p) ==
  /\ At(p, {"init"}, "create_ledger")
  /\ Ddl(p, [db EXCEPT !.ledger = IF @ = "none" THEN "current" ELSE @])
  /\ Go(p, "copy_ledger")

\* It raises if a row written meanwhile has the id of one that is copied.
CopyLedger(p) ==
  /\ At(p, {"init"}, "copy_ledger") /\ db.ledger # "none" /\ db.renamed
  /\ Dml(p, [db EXCEPT !.keys = @ \cup db.old])
  /\ Do(p, [proc[p] EXCEPT !.pc = "drop_ledger", !.open = Closing(p, "ledger")])

DropLedger(p) ==
  /\ At(p, {"init"}, "drop_ledger") /\ db.renamed
  /\ Ddl(p, [db EXCEPT !.old = {}, !.renamed = FALSE])
  /\ Go(p, "columns")

-----------------------------------------------------------------------------
(* Candidates: the days of their sources, and the shadow index *)

\* A column another has added is the column that is wanted.
EnsureColumns(p) ==
  /\ At(p, {"init"}, "columns")
  /\ Ddl(p, [db EXCEPT !.dated = TRUE])
  /\ Go(p, "touch")

\* last_seen_at of rows that have none, which nothing here tells apart.
FillLastSeen(p) ==
  /\ At(p, {"init"}, "touch") /\ Dml(p, db) /\ Go(p, "read_undated")

Lacking(cands) == {c \in cands : c.mentioned = Undated}
ReadUndated(p) ==
  /\ At(p, {"init"}, "read_undated")
  /\ Do(p, [proc[p] EXCEPT !.pc = "backfill", !.seen = Lacking(Sees(p).cands)])
  /\ Read

\* (Mutation: what was derived overwrites what is there.)
DatedByAny(cands, read) ==
  {IF \E r \in read : r.id = c.id
     THEN [c EXCEPT !.mentioned = Earliest((CHOOSE r \in read : r.id = c.id).sources)]
     ELSE c : c \in cands}

\* Rows that still have no day take the one derived from what was read.
DatedBy(cands, read) ==
  {IF c.mentioned = Undated /\ \E r \in read : r.id = c.id
     THEN [c EXCEPT !.mentioned = Earliest((CHOOSE r \in read : r.id = c.id).sources)]
     ELSE c : c \in cands}

Backfill(p) ==
  /\ At(p, {"init"}, "backfill")
  /\ Dml(p, [db EXCEPT !.cands = DatedBy(@, proc[p].seen)])
  /\ Do(p, [proc[p] EXCEPT !.pc = "look_shadow", !.seen = {}])

\* (Mutation: whether there is a shadow is asked after it was created.)
LookTooLate(p) ==
  /\ At(p, {"init"}, "look_shadow")
  /\ Do(p, [proc[p] EXCEPT !.pc = "create_shadow", !.fresh = FALSE])
  /\ Read

LookForShadow(p) ==
  /\ At(p, {"init"}, "look_shadow")
  /\ Do(p, [proc[p] EXCEPT !.pc = "create_shadow", !.fresh = ~Sees(p).shadow])
  /\ Read

CreateShadow(p) ==
  /\ At(p, {"init"}, "create_shadow")
  /\ Ddl(p, [db EXCEPT !.shadow = TRUE])
  /\ Do(p, [proc[p] EXCEPT !.pc = "triggers",
                           !.open = IF db.shadow THEN @ ELSE Opening(p, "shadow")])

CreateTriggers(p) ==
  /\ At(p, {"init"}, "triggers")
  /\ Ddl(p, [db EXCEPT !.triggers = TRUE])
  /\ Go(p, IF proc[p].fresh THEN "rebuild_shadow" ELSE "look_unique")

CandidateIds(d) == {c.id : c \in d.cands}
RebuildShadow(p) ==
  /\ At(p, {"init", "repair", "import"}, "rebuild_shadow") /\ db.shadow
  /\ Dml(p, Mended([db EXCEPT !.shadowed = CandidateIds(db)], "shadow"))
  /\ Do(p, [proc[p] EXCEPT !.open = Closing(p, "shadow"), !.fresh = FALSE,
                           !.pc = IF proc[p].job = "init" THEN "look_unique" ELSE "recount"])

\* A repair counts the events anew, of candidates and then of facts; a retrieval
\* between its two statements counts its event once more.
RecountStage == [candidate |-> "recount", fact |-> "recount_facts"]
Recount(p) ==
  \E r \in Surfaced :
    /\ At(p, {"repair", "import"}, RecountStage[r])
    /\ LET crossed == \E q \in Processes : r \in proc[q].open IN
       Dml(p, [Mended(db, r) EXCEPT !.count[r] = db.events[r],
                                    !.torn = @ \cup {x \in {r} : crossed}])
    /\ Go(p, IF r = "candidate" THEN "recount_facts" ELSE "commit")

-----------------------------------------------------------------------------
(* One live fact of a candidate *)

\* Twins make the init raise.
LookAtFacts(p) ==
  /\ At(p, {"init"}, "look_unique") /\ (Sees(p).unique \/ ~Sees(p).twins)
  /\ Go(p, IF Sees(p).unique THEN "rest" ELSE "create_unique")
  /\ Read

CreateUnique(p) ==
  /\ At(p, {"init"}, "create_unique") /\ ~db.unique /\ ~db.twins
  /\ Ddl(p, [db EXCEPT !.unique = TRUE])
  /\ Go(p, "rest")

\* Tables, columns and indexes that need nothing of what is there, and the
\* labels but the last of each candidate, which nothing here tells apart.
EnsureRest(p) ==
  /\ At(p, {"init"}, "rest") /\ Dml(p, db) /\ Go(p, "commit")

-----------------------------------------------------------------------------
(* init_vector_memory *)

\* Its tables, if they are not there, and the model their vectors are of.
LookAtMeta(p) ==
  /\ At(p, {"vectors"}, "look_meta")
  /\ Go(p, IF Sees(p).meta THEN "commit" ELSE "insert_meta")
  /\ Read

InsertMeta(p) ==
  /\ At(p, {"vectors"}, "insert_meta") /\ ~db.meta
  /\ Dml(p, [db EXCEPT !.meta = TRUE])
  /\ Go(p, "commit")

-----------------------------------------------------------------------------
(* A process that serves *)

\* save_messages inserts a message, then its entry in the index.
InsertMessage(p) ==
  /\ At(p, {"append"}, "row")
  /\ \E m \in Ids \ db.messages :
       /\ \A n \in Ids \ db.messages : m <= n
       /\ Dml(p, [db EXCEPT !.messages = @ \cup {m}])
       /\ Do(p, [proc[p] EXCEPT !.pc = "entry", !.seen = {m},
                                !.open = IF backend = "sqlite" THEN @ ELSE @ \cup {"index"}])

InsertEntry(p) ==
  /\ At(p, {"append"}, "entry") /\ db.index # "none"
  /\ Dml(p, [db EXCEPT !.found = @ \cup proc[p].seen])
  /\ Do(p, [proc[p] EXCEPT !.pc = "commit", !.seen = {}])

Serves(p, memo) == proc[p].pc = "idle" /\ memo \in proc[p].memo /\ writer = Nobody

\* ingest_source_messages: message, entry and key in one transaction.
IngestSource(p) ==
  /\ Serves(p, "base") /\ db.index # "none" /\ db.ledger # "none"
  /\ \E m \in Ids \ db.messages :
       /\ \A n \in Ids \ db.messages : m <= n
       /\ Write([db EXCEPT !.messages = @ \cup {m}, !.found = @ \cup {m},
                           !.keys = @ \cup {m}, !.keyed = @ \cup {m}], Nobody)
  /\ UNCHANGED proc

\* Light inserts a candidate, whose trigger adds it to the shadow, or merges
\* one into a candidate.
Insert(p, m) ==
  /\ Serves(p, "vec") /\ m \in db.messages /\ m \notin CandidateIds(db) /\ db.dated
  /\ Write([db EXCEPT !.cands = @ \cup {Candidate(m, {m}, Date[m])},
                      !.shadowed = IF db.triggers THEN @ \cup {m} ELSE @], Nobody)
  /\ UNCHANGED proc

Merge(p, c, m) ==
  /\ Serves(p, "vec") /\ c \in db.cands /\ m \in db.messages \ c.sources
  /\ LET sources == c.sources \cup {m} IN
     Write([db EXCEPT !.cands = (@ \ {c}) \cup {Candidate(c.id, sources, Earliest(sources))}],
           Nobody)
  /\ UNCHANGED proc

\* Deep promotes a candidate to a fact.
Promote(p) ==
  /\ Serves(p, "vec") /\ db.cands # {} /\ ~db.fact
  /\ Write([db EXCEPT !.fact = TRUE, !.count["fact"] = db.count["candidate"],
                      !.inherited = db.count["candidate"]], Nobody)
  /\ UNCHANGED proc

\* Hybrid retrieval surfaces facts, and candidates where there is no fact.
Found(r) == IF r = "fact" THEN disk.fact ELSE disk.cands # {}
Retrieve(p, r) ==
  /\ MayStart(p) /\ "vec" \in proc[p].memo /\ Found(r)
  /\ Do(p, [proc[p] EXCEPT !.pc = "event", !.job = "retrieve", !.seen = {r}, !.starts = @ + 1])
  /\ Read

\* It inserts an event of what it surfaced, then counts it.
LogEvent(p, r) ==
  /\ At(p, {"retrieve"}, "event") /\ r \in proc[p].seen
  /\ Dml(p, [db EXCEPT !.events[r] = @ + 1])
  /\ Do(p, [proc[p] EXCEPT !.pc = "count",
                           !.open = IF backend = "sqlite" THEN @ ELSE @ \cup {r}])

CountEvent(p, r) ==
  /\ At(p, {"retrieve"}, "count") /\ r \in proc[p].seen
  /\ Dml(p, [db EXCEPT !.count[r] = @ + 1])
  /\ Do(p, [proc[p] EXCEPT !.pc = "commit", !.seen = {}, !.open = Closing(p, r)])

\* A row that is there is one of the artifact's, as far as the artifact's columns
\* tell, and stays as it is.
SameRow(a, c) ==
  a.id = c.id /\ a.sources = c.sources /\ (Artifact.dated => a.mentioned = c.mentioned)
Joined(d) == d.cands \cup {a \in Artifact.cands : a.id \notin CandidateIds(d)}

\* import_canonical_migration: nothing but rows of the artifact may be there;
\* the others come in one transaction, days filled in, and the triggers fire.
Import(p) ==
  /\ At(p, {"import"}, "insert") /\ writer = Nobody
  /\ db.messages \subseteq Artifact.messages /\ db.keys \subseteq Artifact.keys
  /\ \A c \in db.cands : \E a \in Artifact.cands : SameRow(a, c)
  /\ ~db.fact /\ db.events = Zero
  /\ db.ledger # "none"
  /\ Write([db EXCEPT !.messages = Artifact.messages, !.keys = Artifact.keys,
                      !.keyed = @ \cup Artifact.keys,
                      !.cands = DatedBy(Joined(db), Lacking(Joined(db))),
                      !.shadowed = @ \cup (CandidateIds(Artifact) \ CandidateIds(db))], Nobody)
  /\ Do(p, [proc[p] EXCEPT !.pc = "clear_index", !.open = {"index"}])

-----------------------------------------------------------------------------
InitStep(p) ==
  \/ EnsureMessages(p) \/ LookAtIndex(p) \/ DropIndex(p) \/ CreateIndex(p)
  \/ ClearIndex(p) \/ ReadMessages(p) \/ FillIndex(p)
  \/ EnsureLedger(p) \/ LookAtLedger(p) \/ RenameLedger(p)
  \/ CreateLedger(p) \/ CopyLedger(p) \/ DropLedger(p)
  \/ EnsureColumns(p) \/ FillLastSeen(p) \/ ReadUndated(p) \/ Backfill(p)
  \/ LookForShadow(p) \/ CreateShadow(p) \/ CreateTriggers(p) \/ RebuildShadow(p)
  \/ LookAtFacts(p) \/ CreateUnique(p) \/ EnsureRest(p)
  \/ LookAtMeta(p) \/ InsertMeta(p) \/ Commit(p)

ServeStep(p) ==
  \/ StartAppend(p) \/ InsertMessage(p) \/ InsertEntry(p) \/ IngestSource(p)
  \/ \E m \in Ids : Insert(p, m) \/ \E c \in db.cands : Merge(p, c, m)
  \/ StartRepair(p) \/ StartImport(p) \/ Import(p) \/ Recount(p) \/ Promote(p)
  \/ \E r \in Surfaced : Retrieve(p, r) \/ LogEvent(p, r) \/ CountEvent(p, r)

SchemaNext ==
  \/ \E p \in Processes :
       \/ StartInit(p) \/ StartVectors(p) \/ InitStep(p) \/ ServeStep(p)
       \/ Break(p) \/ Forget(p)
  \/ RetireTwins

SchemaSpec == SchemaStart /\ [][SchemaNext]_schemaVars

-----------------------------------------------------------------------------
(* Properties *)

Whole(part, d) ==
  CASE part = "index" -> d.index = "current" /\ d.messages \subseteq d.found
    [] part = "ledger" -> d.ledger = "current" /\ d.keyed \subseteq d.keys
    [] part = "shadow" -> d.triggers /\ CandidateIds(d) \subseteq d.shadowed
    [] part = "candidate" -> d.count[part] = d.events[part]
    [] part = "fact" -> d.count[part] \in {d.events[part], d.events[part] + d.inherited}

\* Once some process holds the database initialised, every committed message
\* is found, every source key is known, every candidate is in the shadow, every
\* retrieval is counted and a candidate has one live fact, whoever else
\* initialises, repairs, imports, serves or fails: but for a part somebody is
\* at, or left at, in between statements that have committed and the one that
\* makes it whole again.
PartsWhole ==
  /\ (\E p \in Processes : proc[p].memo # {}) =>
    /\ \A part \in Parts \ disk.torn :
         (\A p \in Processes : part \notin proc[p].open) => Whole(part, disk)
    /\ disk.dated /\ disk.unique /\ ~disk.twins
  /\ (\E p \in Processes : "vec" \in proc[p].memo) => disk.meta

\* A candidate's day is the earliest of the sources it has, not of those it had
\* when an init looked.
MentionFresh ==
  \A c \in disk.cands : c.mentioned \in {Undated, Earliest(c.sources)}
================================================================================
