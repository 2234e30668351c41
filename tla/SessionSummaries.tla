--------------------------- MODULE SessionSummaries ----------------------------
(***************************************************************************)
(* The summaries of one session (summarize.py,                             *)
(* storage/session_summaries.py): runs of the Summarize phase that write   *)
(* leaves over its transcript and condense them, and the readers that put  *)
(* a summary in place of the messages it covers.                           *)
(*                                                                         *)
(* A row stands for a range of message ids.  Ids are those of the whole    *)
(* database, so a session has gaps in them.  Rows are only ever added;     *)
(* what one replaces is left where it is and hidden by the frontier.       *)
(*                                                                         *)
(* Where a span ends (an idle gap, 3am, a token threshold), when the       *)
(* frontier has too many tokens and what a reader's budget cuts are open   *)
(* choices.                                                                *)
(***************************************************************************)
EXTENDS SummarySpans, FiniteSets

CONSTANTS Runs,          \* slots for Summarize runs
          Readers,       \* slots for requests for context
          MaxFrontier,   \* CONDENSE_MAX_FRONTIER_LEAVES
          Budget,        \* daily_span_budget
          MaxMessages,   \* bound on the message ids
          MaxSummaries,  \* bound on the summary ids
          MaxDay         \* bound on the days

ASSUME SummariesAssumption ==
  /\ IsFiniteSet(Runs)
  /\ MaxFrontier \in Nat /\ Budget \in Nat
  /\ MaxMessages \in Nat /\ MaxSummaries \in Nat /\ MaxDay \in Nat

VARIABLES
  issued,     \* the last message id of the database
  own,        \* the messages of the session
  recorded,   \* the last summary id
  rows,       \* session_summaries
  today,      \* the UTC day
  run,        \* per Summarize run: its place, day, span and what it read
  reader,     \* per request: its place and what it has read
  overlapped  \* history: two runs were once in progress at the same time

transcript == <<issued, own>>
summaries == <<recorded, rows>>
vars == <<transcript, summaries, today, run, reader, overlapped>>

Ids == 1 .. MaxMessages
Sums == 1 .. MaxSummaries

\* about is what the text tells of: the messages it was made from.
Row == [first : 0 .. MaxMessages + 1, last : 0 .. MaxMessages,
        about : SUBSET Ids, replaces : SUBSET Sums, day : 0 .. MaxDay]

NoRow == [first |-> 0, last |-> 0, about |-> {}, replaces |-> {}, day |-> 0]

RunCall == [pc : {"idle", "leaf", "span", "leafAsked", "condense", "found",
                  "condenseAsked"},
            row : Row]

NoRun == [pc |-> "idle", row |-> NoRow]

ReaderCall == [pc : {"idle", "fresh", "boundary", "covered", "recap", "done"},
               asked : SUBSET Ids,           \* history: the session when it began
               given : SUBSET Ids,           \* the raw messages
               recap : SUBSET Sums,          \* the summaries
               boundary : 0 .. MaxMessages,
               whole : BOOLEAN,              \* nothing cut by the budget or an error
               apart : BOOLEAN]              \* fresh context, no summary dropped

NoReader == [pc |-> "idle", asked |-> {}, given |-> {}, recap |-> {},
             boundary |-> 0, whole |-> TRUE, apart |-> FALSE]

TypeOK ==
  /\ issued \in 0 .. MaxMessages
  /\ own \subseteq 1 .. issued
  /\ recorded \in 0 .. MaxSummaries
  /\ rows \in [Sums -> Row]
  /\ \A i \in 1 .. recorded : rows[i].replaces \subseteq 1 .. (i - 1)
  /\ today \in 0 .. MaxDay
  /\ run \in [Runs -> RunCall]
  /\ reader \in [Readers -> ReaderCall]
  /\ overlapped \in BOOLEAN

Init ==
  /\ issued = 0 /\ own = {}
  /\ recorded = 0 /\ rows = [i \in Sums |-> NoRow]
  /\ today = 0
  /\ run = [r \in Runs |-> NoRun]
  /\ reader = [q \in Readers |-> NoReader]
  /\ overlapped = FALSE

-------------------------------------------------------------------------------
\* The frontier and what it covers.

Recorded == 1 .. recorded

\* fetch_session_summary_frontier
Frontier == {i \in Recorded : \A j \in Recorded : i \notin rows[j].replaces}

Covered == CoveredBy(rows, Frontier)

First == CHOOSE m \in own : \A n \in own : m <= n

UpTo(F) == CoveredPrefix(rows, F, First)

\* Mutant: the run goes on past a row that does not begin where the last ended.
WholeFrontier == Frontier

Chain == OldestRun(rows, Frontier)

-------------------------------------------------------------------------------
\* The transcript: of the session, and of others in the same database.

NextMessage == issued + 1

AppendMessage ==
  /\ issued < MaxMessages
  /\ issued' = issued + 1
  /\ own' \in {own, own \cup {NextMessage}}
  /\ UNCHANGED <<summaries, today, run, reader, overlapped>>

NewDay ==
  /\ today < MaxDay
  /\ today' = today + 1
  /\ UNCHANGED <<transcript, summaries, run, reader, overlapped>>

-------------------------------------------------------------------------------
\* A run, as far as this session: leaves until there is no span, one condense.

Turn(r, pc, row) == run' = [run EXCEPT ![r] = [pc |-> pc, row |-> row]]
Day(r) == [NoRow EXCEPT !.day = run[r].row.day]

\* list_compactable_session_ids; the day is that of the run's one clock reading.
Start(r) ==
  /\ run[r].pc = "idle" /\ own # {}
  /\ Turn(r, "leaf", [NoRow EXCEPT !.day = today])
  /\ overlapped' = (overlapped \/ \E s \in Runs : run[s].pc # "idle")
  /\ UNCHANGED <<transcript, summaries, today, reader>>

\* Mutant: a leaf begins with the last message of the one before.
LastCovered == UpTo(Frontier)

NextUncovered == UpTo(Frontier) + 1

\* find_session_compaction_span
FindSpan(r) ==
  /\ run[r].pc = "leaf"
  /\ \/ Turn(r, "condense", Day(r))
     \/ \E last \in own :
          /\ last >= NextUncovered
          /\ Turn(r, "span", [Day(r) EXCEPT !.first = NextUncovered, !.last = last])
  /\ UNCHANGED <<transcript, summaries, today, reader, overlapped>>

Spent(day) == Cardinality({i \in Recorded : rows[i].day >= day})

\* Mutant: one row too many.
BudgetPassed(r) == Spent(run[r].row.day) > Budget

\* count_session_summaries_since the start of the run's day
BudgetReached(r) == Spent(run[r].row.day) >= Budget

\* render_compaction_source, and the agent is asked.
AskLeaf(r) ==
  LET row == run[r].row IN
  /\ run[r].pc = "span"
  /\ \/ /\ BudgetReached(r)
        /\ Turn(r, "condense", Day(r))
     \/ /\ ~BudgetReached(r)
        /\ Turn(r, "leafAsked", [row EXCEPT !.about = own \cap Span(row)])
  /\ UNCHANGED <<transcript, summaries, today, reader, overlapped>>

\* record_session_summary: an INSERT, whatever was recorded in the meantime.
Record(row) ==
  /\ recorded < MaxSummaries
  /\ recorded' = recorded + 1
  /\ rows' = [rows EXCEPT ![recorded + 1] = row]

RecordLeaf(r) ==
  /\ run[r].pc = "leafAsked"
  /\ Record(run[r].row)
  /\ Turn(r, "leaf", Day(r))
  /\ UNCHANGED <<transcript, today, reader, overlapped>>

\* _run_condense_pass reads the frontier: small enough, or its oldest run.
ReadFrontier(r) ==
  /\ run[r].pc = "condense"
  /\ \/ /\ Cardinality(Frontier) <= MaxFrontier
        /\ Turn(r, "idle", NoRow)
     \/ /\ Frontier # {}
        /\ Turn(r, "found", [Day(r) EXCEPT !.first = rows[Oldest(rows, Chain)].first,
                                           !.last = rows[Newest(rows, Chain)].last,
                                           !.about = UNION {rows[i].about : i \in Chain},
                                           !.replaces = Chain])
  /\ UNCHANGED <<transcript, summaries, today, reader, overlapped>>

AskCondense(r) ==
  /\ run[r].pc = "found"
  /\ IF BudgetReached(r) THEN Turn(r, "idle", NoRow) ELSE Turn(r, "condenseAsked", run[r].row)
  /\ UNCHANGED <<transcript, summaries, today, reader, overlapped>>

RecordCondensed(r) ==
  /\ run[r].pc = "condenseAsked"
  /\ Record(run[r].row)
  /\ Turn(r, "idle", NoRow)
  /\ UNCHANGED <<transcript, today, reader, overlapped>>

\* The agent or the guard raises and the session is skipped, or the process dies.
RunFails(r) ==
  /\ run[r].pc # "idle"
  /\ Turn(r, "idle", NoRow)
  /\ UNCHANGED <<transcript, summaries, today, reader, overlapped>>

-------------------------------------------------------------------------------
\* Readers.

Answer(q, call) ==
  /\ reader' = [reader EXCEPT ![q] = call]
  /\ UNCHANGED <<transcript, summaries, today, run, overlapped>>

\* _load_active_context_rows_by_token_budget: the newest of them; with a budget
\* of 0 none, else at least one.
NewestOf(some) ==
  {tail \in SUBSET some : \A m \in tail, n \in some : n >= m => n \in tail}

\* load_fresh_context_rows: the frontier, on a connection of its own,
ReadFresh(q) ==
  /\ reader[q].pc = "idle"
  /\ Answer(q, [NoReader EXCEPT !.pc = "fresh", !.asked = own, !.recap = Frontier])

\* less its oldest rows, for the budget, and the messages after what is left.
FreshTail(q) ==
  LET call == reader[q] IN
  /\ call.pc = "fresh"
  /\ \/ /\ own = {}
        /\ Answer(q, [call EXCEPT !.pc = "done"])
     \/ /\ own # {}
        /\ \E kept \in SUBSET call.recap :
             LET after == IF kept = {} THEN 0 ELSE UpTo(kept)
                 rest == {m \in own : m > after}
             IN /\ \A i \in kept, j \in call.recap : Before(rows, i, j) => j \in kept
                /\ \E tail \in NewestOf(rest) :
                     Answer(q, [call EXCEPT !.pc = "done", !.given = tail, !.recap = kept,
                                            !.whole = (tail = rest),
                                            !.apart = (kept = call.recap)])

\* load_active_context_messages: the tail, and a boundary in it or none.
ReadTail(q) ==
  /\ reader[q].pc = "idle"
  /\ \E tail \in NewestOf(own), b \in {0} \cup own :
       /\ b \in {0} \cup tail
       /\ Answer(q, [NoReader EXCEPT
            !.pc = IF b = 0 THEN "recap" ELSE "boundary",
            !.asked = own, !.given = tail, !.boundary = b, !.whole = (tail = own)])

\* Mutant: whatever is before the boundary has been summarized.
Summarized(b) == TRUE

CoversUpTo(b) == Covers(rows, Frontier, First, b)

CheckBoundary(q) ==
  LET call == reader[q] IN
  /\ call.pc = "boundary"
  /\ Answer(q, [call EXCEPT !.pc = IF CoversUpTo(call.boundary) THEN "covered" ELSE "recap"])

ReadAfterBoundary(q) ==
  LET call == reader[q]
      rest == {m \in own : m > call.boundary}
  IN  /\ call.pc = "covered"
      /\ \E tail \in NewestOf(rest) :
           Answer(q, [call EXCEPT !.pc = "recap", !.given = tail, !.whole = (tail = rest)])

\* render_session_recap: an error of the database gives no recap.
ReadRecap(q) ==
  /\ reader[q].pc = "recap"
  /\ \/ Answer(q, [reader[q] EXCEPT !.pc = "done", !.recap = Frontier])
     \/ Answer(q, [reader[q] EXCEPT !.pc = "done", !.whole = FALSE])

\* Answered, or a read has raised.
EndRead(q) ==
  /\ reader[q].pc # "idle"
  /\ Answer(q, NoReader)

RunStep(r) ==
  \/ Start(r) \/ FindSpan(r) \/ AskLeaf(r) \/ RecordLeaf(r)
  \/ ReadFrontier(r) \/ AskCondense(r) \/ RecordCondensed(r) \/ RunFails(r)

ReadStep(q) ==
  \/ ReadFresh(q) \/ FreshTail(q) \/ ReadTail(q) \/ CheckBoundary(q)
  \/ ReadAfterBoundary(q) \/ ReadRecap(q) \/ EndRead(q)

Next ==
  \/ AppendMessage \/ NewDay
  \/ \E r \in Runs : RunStep(r)
  \/ \E q \in Readers : ReadStep(q)

Spec == Init /\ [][Next]_vars

-------------------------------------------------------------------------------
\* Properties.

\* A summary tells of exactly the messages of the session in its range, through
\* every condensation and whatever other runs recorded meanwhile (ADR 0024: a
\* gap would claim coverage over messages no summary summarized).
TellsItsRange ==
  \A i \in Recorded : rows[i].about = own \cap Span(rows[i])

\* What the frontier covers stays covered, and grows from the first message on
\* without a gap: a span once summarized is never left out of the context, and
\* every leaf moves the next one along (summarize.py 107-171).
CoverageGrows ==
  [][/\ Covered \subseteq Covered'
     /\ \A x \in Covered' : First' .. x \subseteq Covered']_vars

\* If one run at a time summarizes the session, the frontier is a chain that a
\* condense pass replaces by a single row; two leaves over one span would stop
\* every later pass at the first of them (summarize.py 75-87).
OneChain ==
  ~overlapped => Chain = Frontier

\* The day's summaries stay within the budget, which each run asks before it
\* awaits the agent: overlapping runs exceed it by one row each at most
\* (summarize.py 90-104).
BudgetKept ==
  \A day \in 0 .. MaxDay :
    Cardinality({i \in Recorded : rows[i].day = day})
      <= IF overlapped THEN Budget + Cardinality(Runs) - 1 ELSE Budget

\* A context tells of every message the session had when it was asked for, raw
\* or in a summary, unless the budget or a failed recap cut it, although frontier
\* and messages are read on several connections (session_summaries.py 585-641, 713-790).
NothingLost ==
  \A q \in Readers : LET call == reader[q] IN
    call.pc = "done" /\ call.whole =>
      call.asked \subseteq call.given \cup UNION {rows[i].about : i \in call.recap}

\* Fresh context repeats no message raw that its recap tells of, unless it had to
\* drop a summary.
NothingTwice ==
  \A q \in Readers : LET call == reader[q] IN
    call.pc = "done" /\ call.apart =>
      call.given \cap UNION {rows[i].about : i \in call.recap} = {}

\* The context that an agent is given is neither short of a message nor repeats
\* one, however runs and messages fall between its connections.
ContextWhole == NothingLost /\ NothingTwice
===============================================================================
