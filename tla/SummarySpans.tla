----------------------------- MODULE SummarySpans ------------------------------
(***************************************************************************)
(* What a set F of rows of session_summaries covers, and how its rows      *)
(* follow one another (session_summaries.py 312-342, summarize.py 75-87).  *)
(* A row stands for the message ids from its first to its last.  The code  *)
(* scans the rows in order; SummaryScans has the scans.                    *)
(***************************************************************************)
EXTENDS Naturals

Span(row) == row.first .. row.last

CoveredBy(table, F) == UNION {Span(table[i]) : i \in F}

\* _frontier_covers
Covers(table, F, first, last) == first .. last \subseteq CoveredBy(table, F)

\* _frontier_covered_prefix: covered without a gap from first on, no further.
CoveredPrefix(table, F, first) ==
  CHOOSE n \in {first - 1} \cup {table[i].last : i \in F} :
    /\ first <= n + 1
    /\ first .. n \subseteq CoveredBy(table, F)
    /\ n + 1 \notin CoveredBy(table, F)

\* ORDER BY first_message_id, last_message_id, id
Before(table, i, j) ==
  \/ table[i].first < table[j].first
  \/ table[i].first = table[j].first /\ table[i].last < table[j].last
  \/ table[i].first = table[j].first /\ table[i].last = table[j].last /\ i < j

Follows(table, F, i, j) ==
  Before(table, i, j) /\ ~\E k \in F : Before(table, i, k) /\ Before(table, k, j)

\* _oldest_contiguous_run: up to the first row that does not start one past the
\* end of the row before it.
OldestRun(table, F) ==
  {j \in F : \A k \in F, i \in F :
     (k = j \/ Before(table, k, j)) /\ Follows(table, F, i, k)
       => table[k].first = table[i].last + 1}

Oldest(table, F) == CHOOSE i \in F : \A j \in F \ {i} : Before(table, i, j)
Newest(table, F) == CHOOSE i \in F : \A j \in F \ {i} : Before(table, j, i)
===============================================================================
