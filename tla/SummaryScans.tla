----------------------------- MODULE SummaryScans ------------------------------
(***************************************************************************)
(* The scans with which session_summaries.py and summarize.py walk a       *)
(* frontier in the order of its query, and that they compute what          *)
(* SummarySpans says of it as a set: for every table of up to MaxRows rows *)
(* over MaxId ids, overlapping, nested or apart.                           *)
(***************************************************************************)
EXTENDS SummarySpans, SequencesExt

CONSTANTS MaxRows, MaxId

\* The rows in the order of the query.
InOrder(table) ==
  LET Earlier(i, j) == Before(table, i, j)
  IN  SetToSortSeq(DOMAIN table, Earlier)

\* _frontier_covered_prefix
CoveredUntil(table, first) ==
  LET Step(at, i) ==
        IF at.stopped \/ table[i].last <= at.until THEN at
        ELSE IF table[i].first > at.until + 1 THEN [at EXCEPT !.stopped = TRUE]
        ELSE [at EXCEPT !.until = table[i].last]
  IN  FoldLeft(Step, [until |-> first - 1, stopped |-> FALSE], InOrder(table)).until

\* _frontier_covers
ScanCovers(table, first, last) ==
  LET Step(at, i) ==
        IF at.answer # "open" \/ table[i].last < at.expected THEN at
        ELSE IF table[i].first > at.expected THEN [at EXCEPT !.answer = "no"]
        ELSE [expected |-> table[i].last + 1,
              answer |-> IF table[i].last + 1 > last THEN "yes" ELSE "open"]
      end == FoldLeft(Step, [expected |-> first, answer |-> "open"], InOrder(table))
  IN  end.answer = "yes" \/ (end.answer = "open" /\ end.expected > last)

\* _oldest_contiguous_run
ScanRun(table) ==
  LET Step(at, i) ==
        IF at.ended \/ table[i].first # table[at.run[Len(at.run)]].last + 1
        THEN [at EXCEPT !.ended = TRUE]
        ELSE [at EXCEPT !.run = Append(@, i)]
      order == InOrder(table)
  IN  FoldLeft(Step, [run |-> <<order[1]>>, ended |-> FALSE], Tail(order)).run

Tables ==
  {t \in UNION {[1 .. n -> [first : 1 .. MaxId, last : 1 .. MaxId]] : n \in 0 .. MaxRows} :
     \A i \in DOMAIN t : t[i].first <= t[i].last}

ASSUME PrefixIsScan ==
  \A t \in Tables, first \in 1 .. MaxId :
    CoveredUntil(t, first) = CoveredPrefix(t, DOMAIN t, first)

ASSUME CoversIsScan ==
  \A t \in Tables : \A first \in 1 .. MaxId : \A last \in first .. MaxId :
    ScanCovers(t, first, last) = Covers(t, DOMAIN t, first, last)

ASSUME RunIsScan ==
  \A t \in Tables \ {<<>>} :
    LET run == ScanRun(t)
        old == OldestRun(t, DOMAIN t)
    IN  /\ ToSet(run) = old
        /\ run[1] = Oldest(t, old) /\ run[Len(run)] = Newest(t, old)
===============================================================================
