------------------------------ MODULE ScopePurge -------------------------------
(***************************************************************************)
(* Erasure of an agent's scopes (service.py, storage/purge.py, ADR 0022)   *)
(* beside the calls it must keep out: transcript writes, retrieval events  *)
(* and dream phases.                                                       *)
(*                                                                         *)
(* delete_scope writes a tombstone, purge_scope erases in one transaction. *)
(* The other calls ask for tombstones on one connection and write on       *)
(* another, so a deletion, and a purge, may come between.  A tombstone     *)
(* names one session or all of them; what it also says of project and user *)
(* is its label, which selects tombstones, and which the gate of a read    *)
(* asks for, the gate of a write does not.                                 *)
(*                                                                         *)
(* What a phase reads is any part of what is there: windows, dedup and     *)
(* scores are those of Tiers.  Ids are never reused (AUTOINCREMENT), and a *)
(* fact has the id of the candidate it was promoted from.                  *)
(***************************************************************************)
EXTENDS Naturals, FiniteSets

CONSTANTS Sessions,       \* session_id values
          All,            \* a NULL target session: every session of the agent
          Labels,         \* project and user of a target, or of a search
          Unlabelled,     \* neither: it matches any
          Writers,        \* slots for writes in progress
          Phases,         \* slots for dream phases in progress
          Purges,         \* slots for purges in progress
          MaxCalls,       \* bound on the calls in progress at the same time
          MaxMessages,    \* bound on the message ids
          MaxCandidates,  \* bound on the candidate ids
          MaxTombstones   \* bound on the tombstone ids

ASSUME ScopePurgeAssumption ==
  /\ All \notin Sessions
  /\ Writers \cap Phases = {}
  /\ MaxCalls \in Nat
  /\ MaxMessages \in Nat /\ MaxCandidates \in Nat /\ MaxTombstones \in Nat

VARIABLES
  autocommit,   \* managed libSQL: a statement outside BEGIN commits by itself
  issued,       \* the last message id
  session,      \* the session of every message that was ever stored
  present,      \* the rows of messages, with their FTS and ledger rows
  drafted,      \* the last candidate id
  cand,         \* memory_candidates: sources and whether promoted
  fact,         \* long_term_memory: the sources of each fact, {} for no row
  recap,        \* session_summaries: the messages they stand for
  events,       \* the sessions with (candidate_)retrieval_events
  tombs,        \* scope_tombstones
  writer, phase, purge,   \* per call: its place and what it has read
  raced         \* history: messages stored or erased while a call admitted
                \* before the deletion was in progress

rows == <<issued, session, present>>
derived == <<drafted, cand, fact, recap>>
calls == <<writer, phase, purge>>
vars == <<autocommit, rows, derived, events, tombs, calls, raced>>

Ids == 1 .. MaxMessages
Cands == 1 .. MaxCandidates
Tombs == 1 .. MaxTombstones
Targets == Sessions \cup {All}
Calls == Writers \cup Phases
None == 0

\* pending is physical_purge_deferred; open is history: the calls admitted to
\* the target before the deletion and still in progress.
Tombstone == [issued : BOOLEAN, target : Targets, label : Labels \cup {Unlabelled},
              pending : BOOLEAN, open : SUBSET Calls]

\* A search, or what it falls back to, writes too: the event of what it found.
WriteCall == [session : Targets,   \* All for a slot that is idle
              kind : {"write", "search", "event"},
              label : Labels \cup {Unlabelled}]

WriteOf(kind, s, l) == [session |-> s, kind |-> kind, label |-> l]
NoWrite == WriteOf("write", All, Unlabelled)

PhaseCall == [pc : {"idle", "admitted", "cleared", "light", "summarize",
                    "deep", "claim", "insert"},
              seen : SUBSET Ids,            \* the messages it holds
              current : Cands \cup {None}]  \* the candidate it promotes

At(place, held, c) == [pc |-> place, seen |-> held, current |-> c]
NoPhase == At("idle", {}, None)

PurgeCall == [pc : {"idle", "found"}, target : Targets, ids : SUBSET Tombs]

NoCandidate == [sources |-> {}, promoted |-> FALSE]
NoPurge == [pc |-> "idle", target |-> All, ids |-> {}]

\* The erase key of a target, and the tombstones that name a session.
Covers(target, s) == target \in {All, s}
Issued == {t \in Tombs : tombs[t].issued}

TypeOK ==
  /\ autocommit \in BOOLEAN
  /\ issued \in 0 .. MaxMessages
  /\ session \in [Ids -> Targets] /\ \A m \in Ids : session[m] = All <=> m > issued
  /\ present \subseteq 1 .. issued
  /\ drafted \in 0 .. MaxCandidates
  /\ cand \in [Cands -> [sources : SUBSET Ids, promoted : BOOLEAN]]
  /\ fact \in [Cands -> SUBSET Ids]
  /\ recap \subseteq Ids
  /\ events \subseteq Sessions
  /\ tombs \in [Tombs -> Tombstone]
  /\ writer \in [Writers -> WriteCall]
  /\ phase \in [Phases -> PhaseCall]
  /\ purge \in [Purges -> PurgeCall]
  /\ raced \subseteq Ids

Init ==
  /\ autocommit \in BOOLEAN
  /\ issued = 0 /\ session = [m \in Ids |-> All] /\ present = {}
  /\ drafted = 0 /\ cand = [c \in Cands |-> NoCandidate]
  /\ fact = [c \in Cands |-> {}] /\ recap = {} /\ events = {}
  /\ tombs = [t \in Tombs |->
       [issued |-> FALSE, target |-> All, label |-> Unlabelled, pending |-> FALSE,
        open |-> {}]]
  /\ writer = [w \in Writers |-> NoWrite]
  /\ phase = [p \in Phases |-> NoPhase]
  /\ purge = [g \in Purges |-> NoPurge]
  /\ raced = {}

CallsInProgress == Cardinality({w \in Writers : writer[w].session # All})
                     + Cardinality({p \in Phases : phase[p].pc # "idle"})
                     + Cardinality({g \in Purges : purge[g].pc # "idle"})

\* A call ends: no deletion waits for it any longer.
Close(x) == tombs' = [t \in Tombs |-> [tombs[t] EXCEPT !.open = @ \ {x}]]

-------------------------------------------------------------------------------
\* Writes: the gate on one connection, the row on another.

\* Mutant: the gate asks for the session by name.
BlocksByName(s) == \E t \in Issued : tombs[t].target = s

\* Any tombstone whose erase key holds the session, pending or not.
Blocks(s) == \E t \in Issued : Covers(tombs[t].target, s)

AdmitWrite(w) ==
  /\ writer[w].session = All /\ CallsInProgress < MaxCalls
  /\ \E s \in Sessions :
       /\ ~Blocks(s)
       /\ writer' = [writer EXCEPT ![w] = WriteOf("write", s, Unlabelled)]
  /\ UNCHANGED <<autocommit, rows, derived, events, tombs, phase, purge, raced>>

\* What both say of project and user agrees.
Agree(l, m) == l = m \/ Unlabelled \in {l, m}

Hides(s, l) == \E t \in Issued : Covers(tombs[t].target, s) /\ Agree(l, tombs[t].label)

\* search_long_term is a read to its gate.
AdmitSearch(w) ==
  /\ writer[w].session = All /\ CallsInProgress < MaxCalls
  /\ \E s \in Sessions, l \in Labels :
       /\ ~Hides(s, l)
       /\ writer' = [writer EXCEPT ![w] = WriteOf("search", s, l)]
  /\ UNCHANGED <<autocommit, rows, derived, events, tombs, phase, purge, raced>>

EndWrite(w) ==
  /\ writer[w].session # All
  /\ writer' = [writer EXCEPT ![w] = NoWrite]
  /\ Close(w)
  /\ UNCHANGED <<autocommit, derived, phase, purge>>

NextId == issued + 1

\* append_transcript and ingest_source_transcript: the next id.
StoreMessage(w) ==
  /\ EndWrite(w)
  /\ writer[w].kind = "write"
  /\ NextId \in Ids
  /\ issued' = NextId
  /\ session' = [session EXCEPT ![NextId] = writer[w].session]
  /\ present' = present \cup {NextId}
  /\ raced' = IF Blocks(writer[w].session) THEN raced \cup {NextId} ELSE raced
  /\ UNCHANGED events

\* The query, under a fact or a candidate that is still there: of a search that
\* found facts or fell back to candidates, or of record_retrieval_event.
StoreEvent(w) ==
  /\ EndWrite(w)
  /\ \E c \in Cands : IF writer[w].kind = "event" THEN cand[c].sources # {} ELSE fact[c] # {}
  /\ events' = events \cup {writer[w].session}
  /\ UNCHANGED <<rows, raced>>

\* A search that finds no fact falls back to candidates past the gate of a
\* write, and finds nothing where that is shut.
FallBack(w) ==
  /\ writer[w].kind = "search" /\ ~Blocks(writer[w].session)
  /\ writer' = [writer EXCEPT ![w] = WriteOf("event", writer[w].session, Unlabelled)]
  /\ UNCHANGED <<autocommit, rows, derived, events, tombs, phase, purge, raced>>

WriteFails(w) == EndWrite(w) /\ UNCHANGED <<rows, events, raced>>

-------------------------------------------------------------------------------
\* Dream phases.  The gate on the session of the request, then the one on the
\* agent; then sources are read, a model is awaited, the outcome is written.

MovePhase(p, new) == phase' = [phase EXCEPT ![p] = new]

AdmitPhase(p) ==
  /\ phase[p].pc = "idle" /\ CallsInProgress < MaxCalls
  /\ \E s \in Sessions : ~Blocks(s)
  /\ MovePhase(p, At("admitted", {}, None))
  /\ UNCHANGED <<autocommit, rows, derived, events, tombs, writer, purge, raced>>

\* Mutant: a phase is kept out by its own session alone.
NonePending == {}

Pending == {t \in Issued : tombs[t].pending}

ClearPhase(p) ==
  /\ phase[p].pc = "admitted"
  /\ MovePhase(p, IF Pending = {} THEN At("cleared", {}, None) ELSE NoPhase)
  /\ UNCHANGED <<autocommit, rows, derived, events, tombs, writer, purge, raced>>

\* Light reads a window across sessions, Summarize a span of one.
ReadSources(p) ==
  /\ phase[p].pc = "cleared"
  /\ \E held \in (SUBSET present) \ {{}} :
       \/ MovePhase(p, At("light", held, None))
       \/ /\ \E s \in Sessions : \A m \in held : session[m] = s
          /\ MovePhase(p, At("summarize", held, None))
  /\ UNCHANGED <<autocommit, rows, derived, events, tombs, writer, purge, raced>>

\* Deep selects a live candidate.
ReadCandidate(p) ==
  /\ phase[p].pc = "cleared"
  /\ \E c \in Cands :
       /\ cand[c].sources # {} /\ ~cand[c].promoted
       /\ MovePhase(p, At("deep", {}, c))
  /\ UNCHANGED <<autocommit, rows, derived, events, tombs, writer, purge, raced>>

EndPhase(p) ==
  /\ MovePhase(p, NoPhase)
  /\ Close(p)
  /\ UNCHANGED <<autocommit, rows, events, writer, purge, raced>>

\* One transaction.  It never asks whether the messages are still there.
CommitLight(p) ==
  /\ phase[p].pc = "light"
  /\ \E cited \in (SUBSET phase[p].seen) \ {{}} :
       \/ \E c \in Cands :
            /\ cand[c].sources # {} /\ ~cand[c].promoted
            /\ cand' = [cand EXCEPT ![c].sources = @ \cup cited]
            /\ UNCHANGED drafted
       \/ /\ drafted < MaxCandidates
          /\ drafted' = drafted + 1
          /\ cand' = [cand EXCEPT ![drafted + 1].sources = cited]
  /\ UNCHANGED <<fact, recap>>
  /\ EndPhase(p)

CommitSummary(p) ==
  /\ phase[p].pc = "summarize"
  /\ recap' = recap \cup phase[p].seen
  /\ UNCHANGED <<drafted, cand, fact>>
  /\ EndPhase(p)

\* _promote_candidate reads the row and its sources; one that is gone raises,
\* one that has been promoted is skipped.
CheckCandidate(p) ==
  LET k == cand[phase[p].current] IN
  /\ phase[p].pc = "deep"
  /\ \/ /\ k.sources = {} \/ k.promoted
        /\ UNCHANGED derived
        /\ EndPhase(p)
     \/ /\ k.sources # {} /\ ~k.promoted
        /\ MovePhase(p, At("claim", k.sources, phase[p].current))
        /\ UNCHANGED <<autocommit, rows, derived, events, tombs, writer, purge, raced>>

\* The conditional UPDATE.  On SQLite the fact is in the same transaction.
ClaimCandidate(p) ==
  LET c == phase[p].current
      live == cand[c].sources # {} /\ ~cand[c].promoted
  IN  /\ phase[p].pc = "claim"
      /\ UNCHANGED <<drafted, recap>>
      /\ \/ /\ ~live
            /\ UNCHANGED <<cand, fact>>
            /\ EndPhase(p)
         \/ /\ live /\ ~autocommit
            /\ cand' = [cand EXCEPT ![c].promoted = TRUE]
            /\ fact' = [fact EXCEPT ![c] = phase[p].seen]
            /\ EndPhase(p)
         \/ /\ live /\ autocommit
            /\ cand' = [cand EXCEPT ![c].promoted = TRUE]
            /\ MovePhase(p, At("insert", phase[p].seen, c))
            /\ UNCHANGED <<autocommit, fact, rows, events, tombs, writer, purge, raced>>

InsertFact(p) ==
  /\ phase[p].pc = "insert"
  /\ fact' = [fact EXCEPT ![phase[p].current] = phase[p].seen]
  /\ UNCHANGED <<drafted, cand, recap>>
  /\ EndPhase(p)

\* The phase raises, or its process dies.
PhaseFails(p) ==
  /\ phase[p].pc # "idle"
  /\ UNCHANGED derived
  /\ EndPhase(p)
-------------------------------------------------------------------------------
\* Erasure.

\* The calls past their gates: writes to a session of the key, phases that have
\* been cleared for the agent.
Admitted(target) ==
  {w \in Writers : writer[w].session # All /\ Covers(target, writer[w].session)}
    \cup {p \in Phases : phase[p].pc \notin {"idle", "admitted"}}

DeleteScope ==
  /\ \E t \in Tombs \ Issued, target \in Targets, label \in Labels :
       /\ \A u \in Tombs : u < t => u \in Issued
       /\ tombs' = [tombs EXCEPT ![t] =
            [issued |-> TRUE, target |-> target, label |-> label, pending |-> TRUE,
             open |-> Admitted(target)]]
  /\ UNCHANGED <<autocommit, rows, derived, events, calls, raced>>

\* The tombstones whose target equals the request's in every field; none is an
\* error.
LookUp(g) ==
  /\ purge[g].pc = "idle" /\ CallsInProgress < MaxCalls
  /\ \E target \in Targets, label \in Labels :
       LET ids == {t \in Issued : tombs[t].target = target /\ tombs[t].label = label} IN
       /\ ids # {}
       /\ purge' = [purge EXCEPT ![g] = [pc |-> "found", target |-> target, ids |-> ids]]
  /\ UNCHANGED <<autocommit, rows, derived, events, tombs, writer, phase, raced>>

Gone(target) == {m \in present : Covers(target, session[m])}

\* Mutant: what only partly rests on the erased messages is kept.
WhollyDerived(target) ==
  {c \in Cands : cand[c].sources # {} /\ cand[c].sources \subseteq Gone(target)}

\* The source-intersection rule; a whole scope asks for no sources.
GoneCandidates(target) ==
  {c \in Cands : target = All \/ cand[c].sources \cap Gone(target) # {}}

\* Mutant: the facts of an erased candidate are found by their sources.
FactsBySource(target) ==
  {c \in Cands : target = All \/ fact[c] \cap Gone(target) # {}}

\* And whatever was promoted from an erased candidate.
GoneFacts(target) ==
  {c \in Cands : target = All \/ fact[c] \cap Gone(target) # {}} \cup GoneCandidates(target)

\* Those a call of an overlapping deletion still holds, or may.
Racing(target) ==
  {m \in Gone(target) : \E t \in Issued, p \in Phases :
     Covers(tombs[t].target, session[m]) /\ p \in tombs[t].open}

\* purge_scope_rows: one transaction, up to the flag of the tombstones found.
PurgeCommit(g) ==
  LET target == purge[g].target IN
  /\ purge[g].pc = "found"
  /\ present' = present \ Gone(target)
  /\ cand' = [c \in Cands |-> IF c \in GoneCandidates(target) THEN NoCandidate ELSE cand[c]]
  /\ fact' = [c \in Cands |-> IF c \in GoneFacts(target) THEN {} ELSE fact[c]]
  /\ recap' = {m \in recap : ~Covers(target, session[m])}
  /\ events' = {s \in events : ~Covers(target, s)}
  /\ tombs' = [t \in Tombs |->
       [tombs[t] EXCEPT !.pending = @ /\ t \notin purge[g].ids]]
  /\ raced' = raced \cup Racing(target)
  /\ purge' = [purge EXCEPT ![g] = NoPurge]
  /\ UNCHANGED <<autocommit, issued, session, drafted, writer, phase>>

\* A dry run, a failure, the end of the process: the transaction is rolled back.
PurgeRollsBack(g) ==
  /\ purge[g].pc = "found"
  /\ purge' = [purge EXCEPT ![g] = NoPurge]
  /\ UNCHANGED <<autocommit, rows, derived, events, tombs, writer, phase, raced>>

WriteStep(w) ==
  \/ AdmitWrite(w) \/ AdmitSearch(w) \/ StoreMessage(w) \/ StoreEvent(w)
  \/ FallBack(w) \/ WriteFails(w)

PhaseStep(p) ==
  \/ AdmitPhase(p) \/ ClearPhase(p) \/ ReadSources(p) \/ ReadCandidate(p)
  \/ CommitLight(p) \/ CommitSummary(p) \/ CheckCandidate(p) \/ ClaimCandidate(p)
  \/ InsertFact(p) \/ PhaseFails(p)

PurgeStep(g) == LookUp(g) \/ PurgeCommit(g) \/ PurgeRollsBack(g)

Next ==
  \/ \E w \in Writers : WriteStep(w)
  \/ \E p \in Phases : PhaseStep(p)
  \/ DeleteScope
  \/ \E g \in Purges : PurgeStep(g)

Spec == Init /\ [][Next]_vars

-------------------------------------------------------------------------------
\* Properties.

\* An erased message is erased for good: no candidate, fact or summary cites
\* it, and no call holds it, unless a call admitted before the deletion was
\* still in progress (ADR 0022, storage/purge.py 121-266).
ErasedForGood ==
  \A m \in 1 .. issued : m \notin present /\ m \notin raced =>
    /\ m \notin recap
    /\ \A c \in Cands : m \notin cand[c].sources /\ m \notin fact[c]
    /\ \A p \in Phases : m \notin phase[p].seen

\* A search for another project or user than the tombstone names.
PassesBy(t, w) == writer[w].kind = "search" /\ ~Agree(writer[w].label, tombs[t].label)

\* A deleted scope takes no message and no event, before its purge and after
\* it, once the writes and searches admitted before the deletion have ended,
\* but for the event of a search that passes its gate by another label
\* (service.py 229-270: a purged scope cannot be re-populated).
DeletedStaysShut ==
  [][\A t \in Issued : tombs[t].open = {} =>
       /\ \A m \in present' \ present : ~Covers(tombs[t].target, session'[m])
       /\ \A s \in events' \ events :
            Covers(tombs[t].target, s) =>
              \E w \in Writers : writer[w].session = s /\ PassesBy(t, w)]_vars

\* While a purge is pending nothing is consolidated for the agent, from any
\* session, once the phases cleared before the deletion have ended: nothing the
\* survivors know is mixed into what the purge erases (service.py 271-304).
FrozenWhilePending ==
  [][\A t \in Issued : tombs[t].pending /\ tombs[t].open = {} =>
       /\ recap' \subseteq recap
       /\ \A c \in Cands : /\ cand'[c].sources \subseteq cand[c].sources
                           /\ fact'[c] \subseteq fact[c]]_vars

\* On SQLite a purge never parts a fact from its candidate, whatever it erases
\* and whenever: a promoted row without its fact would fail every later Deep
\* cycle that meets it (purge.py 147-163, promotion.py 135-141).
TiersStayLinked ==
  ~autocommit => \A c \in Cands :
    /\ cand[c].promoted <=> fact[c] # {}
    /\ fact[c] \subseteq cand[c].sources
===============================================================================
