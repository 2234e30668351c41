------------------------------ MODULE SourceLog -------------------------------
(***************************************************************************)
(* What the server promises of the messages it ingests: a log with one     *)
(* record for a source key, numbered in the order of arrival, without a    *)
(* gap where nothing else writes the table.  A transaction adds records at *)
(* the end, all of them fit to be stored; no record is ever changed or     *)
(* dropped.                                                                *)
(***************************************************************************)
EXTENDS Naturals

CONSTANTS
  KeyOf,   \* the source key of a line
  Fit      \* the lines that may be stored

VARIABLES
  log,     \* records: [id, line]
  keys,    \* the source keys that have one
  last     \* the last number given out

Init == log = {} /\ keys = {} /\ last = 0

\* One transaction: new is what it adds.
Add(new) ==
  /\ \A r \in new : r.line \in Fit /\ KeyOf[r.line] \notin keys
  /\ \A q, r \in new : q.id = r.id \/ KeyOf[q.line] = KeyOf[r.line] => q = r
  /\ last' >= last /\ {r.id : r \in new} = last + 1 .. last'
  /\ log \cap new = {} /\ log' = log \cup new
  /\ keys' = keys \cup {KeyOf[r.line] : r \in new}

Next == Add(log' \ log)

Spec == Init /\ [][Next]_<<log, keys, last>>
===============================================================================
