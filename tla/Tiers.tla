-------------------------------- MODULE Tiers ---------------------------------
(***************************************************************************)
(* Memory tiers of one scope under concurrent dream cycles: Light runs     *)
(* (pipeline.py, storage/candidates.py) that extract Tier 2 candidates     *)
(* from the transcript, and Deep runs (deep.py, storage/promotion.py,      *)
(* storage/longterm.py) that promote them to Tier 3 facts or retire them.  *)
(*                                                                         *)
(* Light's two writes are transactions opened with BEGIN, and are steps.   *)
(* Deep's writes stand under a bare `with conn:`.  On local SQLite their   *)
(* first UPDATE or INSERT opens the transaction; on managed libSQL every   *)
(* statement commits by itself.                                            *)
(*                                                                         *)
(* Similarity, scores, confidence and the judge are left open: any live    *)
(* neighbour may match and any selected candidate may win.  Row ids of the *)
(* scope are consecutive.  A fact has the id of the candidate it came from.*)
(***************************************************************************)
EXTENDS Naturals, FiniteSets

CONSTANTS LightRuns,      \* slots for Light cycles in progress
          DeepRuns,       \* slots for Deep cycles in progress
          MaxCycles,      \* bound on the cycles in progress at the same time
          Nobody,         \* no open transaction
          MaxMessages,    \* bound on the transcript rows
          MaxCandidates,  \* bound on the candidate rows
          BatchSize       \* rows in one Light window (LIGHT_PHASE_BATCH_SIZE)

ASSUME TiersAssumption ==
  /\ Nobody \notin DeepRuns
  /\ MaxCycles \in Nat
  /\ MaxMessages \in Nat
  /\ MaxCandidates \in Nat
  /\ BatchSize \in Nat \ {0}

VARIABLES
  autocommit,   \* managed libSQL: a statement outside BEGIN commits by itself
  lastMessage,  \* MAX(messages.id) of the scope
  watermark,    \* MAX(last_processed_message_id) of its ok and partial runs
  commits,      \* history: committed Light cycles over each row, up to 2
  missed,       \* history: per Deep run, what was merged into the candidate
                \* it promotes between its read and its claim
  db,           \* memory_candidates and long_term_memory, as committed
  txnOwner,     \* the Deep run whose SQLite transaction is open
  txnImage,     \* what that transaction sees and will commit
  light,        \* per Light run: its place and what it has read
  deep          \* per Deep run: its place, its decisions and what it has read

dbVars == <<db, txnOwner, txnImage>>
transcriptVars == <<autocommit, lastMessage>>
vars == <<transcriptVars, watermark, commits, missed, dbVars, light, deep>>

Rows == 1 .. MaxMessages
Ids == 1 .. MaxCandidates
None == 0

\* memory_candidates: a row exists when it has sources; marks are its flags,
\* by the fact that retired it.
Candidate == [sources : SUBSET Rows,
              marks : SUBSET {"promoted", "retired", "stale", "needs_review"},
              embedded : BOOLEAN,
              by : Ids \cup {None}]

\* long_term_memory: bare until its embedding is inserted, by its successor;
\* missed, history, from the run that inserted it.
Fact == [status : {"none", "bare", "live", "retired"},
         sources : SUBSET Rows,
         missed : SUBSET Rows,
         by : Ids \cup {None}]

Store == [cand : [Ids -> Candidate], fact : [Ids -> Fact]]

NoCandidate == [sources |-> {}, marks |-> {}, embedded |-> FALSE, by |-> None]
NoFact == [status |-> "none", sources |-> {}, missed |-> {}, by |-> None]
EmptyStore == [cand |-> [c \in Ids |-> NoCandidate], fact |-> [c \in Ids |-> NoFact]]

LightRun == [pc : {"idle", "extract", "load", "backfill", "commit"},
             observed : 0 .. MaxMessages,   \* the watermark it read
             upto : 0 .. MaxMessages,       \* the last row of its window
             found : SUBSET Rows,           \* sources of the candidate kept
             todo : SUBSET Ids]             \* candidates without embedding

NoLight == [pc |-> "idle", observed |-> 0, upto |-> 0, found |-> {}, todo |-> {}]

DeepRun == [pc : {"idle", "judge", "decide", "claim", "insert", "embed",
                  "link", "supersede", "raised"},
            selected : SUBSET Ids,              \* not yet judged
            blocked : [Ids -> Ids \cup {None}], \* candidate -> the fact it lost to
            wins : SUBSET Ids,                  \* promotions still to commit
            supersedes : [Ids -> SUBSET Ids],   \* retired_fact_ids
            beats : [Ids -> SUBSET Ids],        \* retired_candidate_ids
            current : Ids \cup {None},          \* the promotion in hand
            evidence : SUBSET Rows]             \* its source_message_ids, as read

NoDeep == [pc |-> "idle", selected |-> {}, blocked |-> [c \in Ids |-> None],
           wins |-> {}, supersedes |-> [c \in Ids |-> {}],
           beats |-> [c \in Ids |-> {}], current |-> None, evidence |-> {}]

TypeOK ==
  /\ autocommit \in BOOLEAN
  /\ lastMessage \in 0 .. MaxMessages
  /\ watermark \in 0 .. lastMessage
  /\ commits \in [Rows -> 0 .. 2]
  /\ missed \in [DeepRuns -> SUBSET Rows]
  /\ db \in Store
  /\ txnOwner \in DeepRuns \cup {Nobody}
  /\ txnImage \in Store
  /\ light \in [LightRuns -> LightRun]
  /\ deep \in [DeepRuns -> DeepRun]

\* A fresh database, or one a canonical migration has filled: candidates and
\* watermark are imported, embeddings are not.
Init ==
  /\ autocommit \in BOOLEAN
  /\ lastMessage \in 0 .. MaxMessages
  /\ watermark = lastMessage
  /\ commits = [m \in Rows |-> IF m <= watermark THEN 1 ELSE 0]
  /\ missed = [d \in DeepRuns |-> {}]
  /\ \E imported \in 0 .. MaxCandidates :
       /\ watermark = 0 => imported = 0
       /\ db = [EmptyStore EXCEPT !.cand = [c \in Ids |->
            IF c <= imported THEN [NoCandidate EXCEPT !.sources = {1}]
                             ELSE NoCandidate]]
  /\ txnOwner = Nobody /\ txnImage = EmptyStore
  /\ light = [l \in LightRuns |-> NoLight]
  /\ deep = [d \in DeepRuns |-> NoDeep]

Larger(m, n) == IF m >= n THEN m ELSE n
Smaller(m, n) == IF m <= n THEN m ELSE n

-------------------------------------------------------------------------------
\* Candidates.

\* promoted = retired = stale = needs_review = 0.
Live(k) == k.sources # {} /\ k.marks = {}

\* Mutant: the search for a duplicate does not ask promoted = 0.
MergeablePromoted(k) ==
  k.sources # {} /\ k.marks \subseteq {"promoted"} /\ k.embedded

\* A candidate a duplicate may be merged into, and one the backfill repairs.
Mergeable(k) == Live(k) /\ k.embedded

Missing(k) == Live(k) /\ ~k.embedded

CyclesInProgress == Cardinality({l \in LightRuns : light[l].pc # "idle"})
                      + Cardinality({d \in DeepRuns : deep[d].pc # "idle"})

AppendMessage ==
  /\ lastMessage < MaxMessages
  /\ lastMessage' = lastMessage + 1
  /\ UNCHANGED <<autocommit, watermark, commits, missed, dbVars, light, deep>>

-------------------------------------------------------------------------------
\* Light: read the watermark and the window after it, await the extraction
\* agent, repair missing embeddings, commit.  An empty window skips the agent.

WindowEnd == Smaller(watermark + BatchSize, lastMessage)

LightRead(l) ==
  /\ light[l].pc = "idle" /\ CyclesInProgress < MaxCycles
  /\ light' = [light EXCEPT ![l] =
       [NoLight EXCEPT !.pc = IF WindowEnd > watermark THEN "extract" ELSE "load",
                       !.observed = watermark, !.upto = WindowEnd]]
  /\ UNCHANGED <<transcriptVars, watermark, commits, missed, dbVars, deep>>

\* A candidate without sources, or with one outside the window, is dropped.
KeepValidSources(cited, window) == IF cited \subseteq window THEN cited ELSE {}

\* The agent's answer: at most one candidate (bound), or none for {}.
LightExtract(l) ==
  /\ light[l].pc = "extract"
  /\ \E cited \in SUBSET Rows :
       light' = [light EXCEPT
         ![l].pc = "load",
         ![l].found = KeepValidSources(cited, light[l].observed + 1 .. light[l].upto)]
  /\ UNCHANGED <<transcriptVars, watermark, commits, missed, dbVars, deep>>

LightLoad(l) ==
  LET todo == {c \in Ids : Missing(db.cand[c])} IN
  /\ light[l].pc = "load"
  /\ light' = [light EXCEPT ![l].todo = todo,
                            ![l].pc = IF todo = {} THEN "commit" ELSE "backfill"]
  /\ UNCHANGED <<transcriptVars, watermark, commits, missed, dbVars, deep>>

\* Mutant: the loaded rows are taken as they were.
TrustLoaded(cand, todo) == todo

\* Only the rows that are still live and without embedding are repaired.
StillMissing(cand, todo) == {c \in todo : Missing(cand[c])}

\* What row c may match when the due rows are repaired in id order.
Matches(cand, due, into, flagged, c) ==
  {m \in Ids : \/ Mergeable(cand[m])
               \/ m \in due /\ m < c /\ into[m] = None /\ m \notin flagged}

MergedSources(cand, due, into, c) ==
  cand[c].sources \cup UNION {cand[m].sources : m \in {n \in due : into[n] = c}}

\* A due row is merged into its match and goes stale, or gets its embedding,
\* flagged for review when its match is near but no duplicate.
Backfilled(cand, due, into, flagged) ==
  [c \in Ids |->
     IF c \in due /\ into[c] # None THEN [cand[c] EXCEPT !.marks = {"stale"}]
     ELSE [cand[c] EXCEPT
             !.sources = MergedSources(cand, due, into, c),
             !.embedded = @ \/ c \in due,
             !.marks = IF c \in due /\ c \in flagged THEN {"needs_review"} ELSE @]]

\* What is merged into a candidate is missed by the promotions that have read
\* it and not claimed it yet.
MissMerged ==
  missed' = [d \in DeepRuns |-> LET c == deep[d].current IN
    IF deep[d].pc # "claim" THEN missed[d]
    ELSE missed[d] \cup (db'.cand[c].sources \ db.cand[c].sources)]

LightBackfill(l) ==
  LET due == StillMissing(db.cand, light[l].todo) IN
  /\ light[l].pc = "backfill"
  /\ txnOwner = Nobody
  /\ \E into \in [due -> Ids \cup {None}], flagged \in SUBSET due :
       /\ \A c \in due : LET found == Matches(db.cand, due, into, flagged, c) IN
            /\ into[c] \in found \cup {None}
            /\ c \in flagged => into[c] = None /\ found # {}
       /\ db' = [db EXCEPT !.cand = Backfilled(@, due, into, flagged)]
  /\ MissMerged
  /\ light' = [light EXCEPT ![l].pc = "commit"]
  /\ UNCHANGED <<transcriptVars, watermark, commits, txnOwner, txnImage, deep>>

\* Dedup of one candidate: merged into a duplicate, or inserted with its
\* embedding, flagged for review when it has a near neighbour.
StoreCandidate(sources) ==
  LET matches == {m \in Ids : Mergeable(db.cand[m])}
      free == {c \in Ids : db.cand[c].sources = {}}
  IN  \/ \E m \in matches : db' = [db EXCEPT !.cand[m].sources = @ \cup sources]
      \/ \E c \in free, review \in BOOLEAN :
           /\ \A n \in free : c <= n
           /\ review => matches # {}
           /\ db' = [db EXCEPT !.cand[c] =
                [NoCandidate EXCEPT !.sources = sources, !.embedded = TRUE,
                                    !.marks = IF review THEN {"needs_review"} ELSE {}]]

\* Mutant: no compare-and-set on the watermark.
NeverSuperseded(l) == FALSE

Superseded(l) == watermark # light[l].observed

\* The candidates, the audit row and with it the watermark, in one
\* transaction.  A superseded cycle writes its audit row alone.
LightCommit(l) ==
  /\ light[l].pc = "commit"
  /\ txnOwner = Nobody
  /\ \/ /\ Superseded(l)
        /\ UNCHANGED <<db, watermark, commits>>
     \/ /\ ~Superseded(l)
        /\ IF light[l].found = {} THEN UNCHANGED db
                                  ELSE StoreCandidate(light[l].found)
        /\ watermark' = Larger(watermark, light[l].upto)
        /\ commits' = [m \in Rows |->
             IF m \in light[l].observed + 1 .. light[l].upto
             THEN Smaller(2, commits[m] + 1) ELSE commits[m]]
  /\ MissMerged
  /\ light' = [light EXCEPT ![l] = NoLight]
  /\ UNCHANGED <<transcriptVars, txnOwner, txnImage, deep>>

\* The run raises, loses its conflict with another writer, or dies: nothing is
\* written but an error row, which carries no watermark.
LightFails(l) ==
  /\ light[l].pc # "idle"
  /\ light' = [light EXCEPT ![l] = NoLight]
  /\ UNCHANGED <<transcriptVars, watermark, commits, missed, dbVars, deep>>
-------------------------------------------------------------------------------
\* Deep: read and select, judge one candidate after another, then commit the
\* decisions: candidates that lost to a fact first, promotions after them.

DeepRead(d) ==
  /\ deep[d].pc = "idle" /\ CyclesInProgress < MaxCycles
  /\ \E selected \in SUBSET {c \in Ids : Mergeable(db.cand[c])} :
       /\ selected # {}
       /\ deep' = [deep EXCEPT ![d] = [NoDeep EXCEPT !.pc = "judge",
                                                     !.selected = selected]]
  /\ UNCHANGED <<transcriptVars, watermark, commits, missed, dbVars, light>>

\* The facts a KNN query returns as neighbours.
Neighbours == {f \in Ids : db.fact[f].status = "live"}

\* A promotion that stands against the pending ones it contradicts takes over
\* what they had beaten.
Survives(run, c, old, beaten) ==
  [run EXCEPT !.wins = (@ \ beaten) \cup {c},
              !.supersedes[c] = old,
              !.beats[c] = beaten \cup UNION {run.beats[b] : b \in beaten}]

\* One candidate against fresh neighbours and the pending promotions.  Pending
\* ones it has beaten before it loses are promoted by nobody in this cycle.
DeepJudge(d) ==
  /\ deep[d].pc = "judge"
  /\ \E c \in deep[d].selected :
       LET left == deep[d].selected \ {c}
           run == [deep[d] EXCEPT !.selected = left,
                                  !.pc = IF left = {} THEN "decide" ELSE "judge"]
       IN  \/ \E f \in Neighbours :
                deep' = [deep EXCEPT ![d] = [run EXCEPT !.blocked[c] = f]]
           \/ \E old \in SUBSET Neighbours, beaten \in SUBSET run.wins :
                deep' = [deep EXCEPT ![d] = Survives(run, c, old, beaten)]
           \/ \E p \in run.wins, beaten \in SUBSET run.wins :
                /\ p \notin beaten
                /\ deep' = [deep EXCEPT ![d] =
                     [run EXCEPT !.wins = @ \ beaten, !.beats[p] = @ \cup {c}]]
  /\ UNCHANGED <<transcriptVars, watermark, commits, missed, dbVars, light>>

\* What the run's connection sees.
View(d) == IF txnOwner = d THEN txnImage ELSE db

\* Mutant: `with conn` opens no transaction on SQLite either.
WriteThrough(d, new) ==
  /\ db' = new
  /\ UNCHANGED <<txnOwner, txnImage>>

\* An UPDATE or INSERT under a bare `with conn:`, even one that matches no row.
Write(d, new) ==
  \/ autocommit /\ db' = new /\ UNCHANGED <<txnOwner, txnImage>>
  \/ /\ ~autocommit /\ txnOwner \in {d, Nobody}
     /\ txnOwner' = d /\ txnImage' = new /\ UNCHANGED db

\* A run goes on; with its promotion retired nothing, it takes the next.
Continue(run) ==
  [run EXCEPT !.pc = IF run.current = None THEN "decide"
                     ELSE IF run.supersedes[run.current] = {}
                             /\ run.beats[run.current] = {}
                     THEN "decide" ELSE "supersede"]

Step(d, run) == deep' = [deep EXCEPT ![d] = run]

Raise(d) == Step(d, [deep[d] EXCEPT !.pc = "raised"]) /\ UNCHANGED dbVars

\* promoted = retired = stale = 0: needs_review is not asked.
Retirable(k) == k.sources # {} /\ k.marks \subseteq {"needs_review"}

Retired(s, c, f) ==
  IF Retirable(s.cand[c])
  THEN [s EXCEPT !.cand[c].marks = @ \cup {"retired"}, !.cand[c].by = f]
  ELSE s

Corrupt(s, c) == "promoted" \in s.cand[c].marks /\ s.fact[c].status = "none"

\* _retire_candidate: a row that has left staging is skipped, a promoted one
\* without its fact raises.
RetireCandidate(d, c, f, run) ==
  \/ Corrupt(View(d), c) /\ Raise(d)
  \/ Write(d, Retired(View(d), c, f)) /\ Step(d, Continue(run))
  \/ ~Retirable(View(d).cand[c]) /\ UNCHANGED dbVars /\ Step(d, Continue(run))

DeepRetire(d) ==
  /\ deep[d].pc = "decide"
  /\ \E c \in {b \in Ids : deep[d].blocked[b] # None} :
       RetireCandidate(d, c, deep[d].blocked[c],
                       [deep[d] EXCEPT !.blocked[c] = None, !.current = None])
  /\ UNCHANGED <<transcriptVars, watermark, commits, missed, light>>

\* _promote_candidate reads the row: it skips one that has its fact, refuses
\* one that was retired or went stale, and remembers the sources.
DeepCheck(d) ==
  /\ deep[d].pc = "decide" /\ \A c \in Ids : deep[d].blocked[c] = None
  /\ \E c \in deep[d].wins :
       LET k == View(d).cand[c]
           run == [deep[d] EXCEPT !.wins = @ \ {c}]
       IN  \/ /\ \/ k.marks \cap {"retired", "stale"} # {} \/ k.sources = {}
                 \/ Corrupt(View(d), c)
              /\ Raise(d)
           \/ /\ "promoted" \in k.marks /\ ~Corrupt(View(d), c)
              /\ Step(d, run) /\ UNCHANGED dbVars
           \/ /\ k.marks \subseteq {"needs_review"} /\ k.sources # {}
              /\ Step(d, [run EXCEPT !.pc = "claim", !.current = c,
                                     !.evidence = k.sources])
              /\ UNCHANGED dbVars
  /\ UNCHANGED <<transcriptVars, watermark, commits, missed, light>>

\* Mutant: an UPDATE by id alone.
ClaimAny(k) == TRUE

Claimable(k) == Live(k)

\* Mutant: what the promotion had beaten is retired all the same.
RetireAnyway(run) == Continue(run)

LostClaim(run) == [run EXCEPT !.pc = "decide", !.current = None]

\* The conditional UPDATE, on what the row is by now.  A lost claim skips the
\* promotion and what it would have retired.
DeepClaim(d) ==
  LET c == deep[d].current
      s == View(d)
  IN  /\ deep[d].pc = "claim"
      /\ \/ /\ Claimable(s.cand[c])
            /\ Write(d, [s EXCEPT !.cand[c].marks = @ \cup {"promoted"}])
            /\ Step(d, [deep[d] EXCEPT !.pc = "insert"])
            /\ UNCHANGED missed
         \/ /\ ~Claimable(s.cand[c])
            /\ Write(d, s)
            /\ Step(d, LostClaim(deep[d]))
            /\ missed' = [missed EXCEPT ![d] = {}]
      /\ UNCHANGED <<transcriptVars, watermark, commits, light>>

\* One claim wins, so the UNIQUE index on the promoted candidate never trips.
DeepInsert(d) ==
  LET c == deep[d].current
      s == View(d)
  IN  /\ deep[d].pc = "insert"
      /\ s.fact[c].status = "none"
      /\ Write(d, [s EXCEPT !.fact[c] =
           [NoFact EXCEPT !.status = "bare", !.sources = deep[d].evidence,
                          !.missed = missed[d]]])
      /\ Step(d, [deep[d] EXCEPT !.pc = "embed"])
      /\ missed' = [missed EXCEPT ![d] = {}]
      /\ UNCHANGED <<transcriptVars, watermark, commits, light>>

\* The fact's embedding.
DeepEmbed(d) ==
  /\ deep[d].pc = "embed"
  /\ Write(d, [View(d) EXCEPT !.fact[deep[d].current].status = "live"])
  /\ Step(d, [deep[d] EXCEPT !.pc = "link"])
  /\ UNCHANGED <<transcriptVars, watermark, commits, missed, light>>

\* The candidate's link to its fact, which has the candidate's id here.
DeepLink(d) ==
  /\ deep[d].pc = "link"
  /\ Write(d, View(d))
  /\ Step(d, Continue(deep[d]))
  /\ UNCHANGED <<transcriptVars, watermark, commits, missed, light>>

\* retire_long_term_fact: the first to retire a fact is its successor.
DeepSupersede(d) ==
  LET c == deep[d].current
      s == View(d)
  IN  /\ deep[d].pc = "supersede"
      /\ \E f \in deep[d].supersedes[c] :
           /\ Write(d, IF s.fact[f].status = "retired" THEN s
                       ELSE [s EXCEPT !.fact[f].status = "retired", !.fact[f].by = c])
           /\ Step(d, Continue([deep[d] EXCEPT !.supersedes[c] = @ \ {f}]))
      /\ UNCHANGED <<transcriptVars, watermark, commits, missed, light>>

DeepBeat(d) ==
  LET c == deep[d].current IN
  /\ deep[d].pc = "supersede" /\ deep[d].supersedes[c] = {}
  /\ \E b \in deep[d].beats[c] :
       RetireCandidate(d, b, c, [deep[d] EXCEPT !.beats[c] = @ \ {b}])
  /\ UNCHANGED <<transcriptVars, watermark, commits, missed, light>>

\* The dream_runs row, and the commit.
DeepFinish(d) ==
  /\ deep[d].pc = "decide" /\ deep[d].wins = {}
  /\ \A c \in Ids : deep[d].blocked[c] = None
  /\ txnOwner \in {d, Nobody}
  /\ db' = View(d) /\ txnOwner' = Nobody /\ txnImage' = EmptyStore
  /\ Step(d, NoDeep)
  /\ UNCHANGED <<transcriptVars, watermark, commits, missed, light>>

\* A raise, a storage fault, a missed deadline or the end of the process: an
\* open transaction is rolled back, what has been committed stays.
DeepFails(d) ==
  /\ deep[d].pc # "idle"
  /\ Step(d, NoDeep)
  /\ IF txnOwner = d THEN txnOwner' = Nobody /\ txnImage' = EmptyStore
                     ELSE UNCHANGED <<txnOwner, txnImage>>
  /\ missed' = [missed EXCEPT ![d] = {}]
  /\ UNCHANGED <<transcriptVars, watermark, commits, db, light>>

LightStep(l) ==
  \/ LightRead(l) \/ LightExtract(l) \/ LightLoad(l) \/ LightBackfill(l)
  \/ LightCommit(l) \/ LightFails(l)

DeepStep(d) ==
  \/ DeepRead(d) \/ DeepJudge(d) \/ DeepRetire(d) \/ DeepCheck(d)
  \/ DeepClaim(d) \/ DeepInsert(d) \/ DeepEmbed(d) \/ DeepLink(d)
  \/ DeepSupersede(d) \/ DeepBeat(d) \/ DeepFinish(d) \/ DeepFails(d)

Next ==
  \/ AppendMessage
  \/ \E l \in LightRuns : LightStep(l)
  \/ \E d \in DeepRuns : DeepStep(d)

Spec == Init /\ [][Next]_vars

-------------------------------------------------------------------------------
\* Properties.

\* However many Light cycles read the same window, one commits it, and none is
\* skipped: a row is extracted by one cycle exactly when the watermark has
\* reached it (candidates.py 1116-1260).
ExtractedOnce ==
  \A m \in Rows : commits[m] = IF m <= watermark THEN 1 ELSE 0

\* A candidate leaves staging once: promoted, retired or stale, and neither
\* promoted nor stale while flagged for review, whatever selections, claims,
\* retirements and backfills cross (candidates.py 546-659, 1284-1335).
OneFate ==
  \A c \in Ids : LET marks == db.cand[c].marks IN
    \/ \E mark \in {"promoted", "retired", "stale"} : marks \subseteq {mark}
    \/ marks \subseteq {"retired", "needs_review"}

\* Deduplication drops rows, never evidence: what a stale candidate was drawn
\* from is among the sources of one that is not stale (candidates.py 298-355).
EvidenceKept ==
  \A c \in Ids : "stale" \in db.cand[c].marks =>
    \E m \in Ids : /\ "stale" \notin db.cand[m].marks
                   /\ db.cand[c].sources \subseteq db.cand[m].sources

\* Provenance: candidates cite committed windows, and a fact cites what its
\* promoted candidate does, however many merges came before its promotion: all
\* but what is merged between that promotion's read and its claim, and nothing
\* is merged later (pipeline.py 168-192, promotion.py 157-297).
Grounded ==
  \A c \in Ids :
    /\ db.cand[c].sources \subseteq 1 .. watermark
    /\ db.fact[c].status # "none" =>
         /\ db.fact[c].sources # {}
         /\ db.fact[c].sources \subseteq db.cand[c].sources
         /\ db.cand[c].sources \subseteq db.fact[c].sources \cup db.fact[c].missed
         /\ "promoted" \in db.cand[c].marks

\* What is retired was beaten by a fact that was written, on either backend,
\* although the decision was taken cycles ago (promotion.py 118-154, 318-365).
RetiredByFact ==
  \A c \in Ids :
    /\ "retired" \in db.cand[c].marks =>
         db.cand[c].by # None /\ db.fact[db.cand[c].by].status # "none"
    /\ db.fact[c].status = "retired" =>
         db.fact[c].by # None /\ db.fact[db.fact[c].by].status # "none"

\* On SQLite a promotion is all or nothing: a promoted candidate has its fact
\* and the fact its embedding, whatever fails (promotion.py 300-386).
PromotionAtomic ==
  ~autocommit => \A c \in Ids :
    "promoted" \in db.cand[c].marks <=> db.fact[c].status \in {"live", "retired"}
===============================================================================
