--------------------------- MODULE TranscriptIngest ---------------------------
(***************************************************************************)
(* The Stop-hook recorder and the hosted ingest behind it: one transcript  *)
(* file that a host appends to and may rewrite, overlapping hook runs that *)
(* scan it from a cursor file, post batches and advance the cursor, a      *)
(* network that loses replies and delivers requests late, and the server's *)
(* transaction with its source ledger.                                     *)
(*                                                                         *)
(* A line is a value; all lines have the same length, so the number of     *)
(* lines stands for a byte offset and every rewrite of a line is a         *)
(* same-length rewrite.  A digest is what it is the digest of.             *)
(***************************************************************************)
EXTENDS Integers, FiniteSets, Sequences

CONSTANTS
  Hooks,        \* recorder processes that may overlap
  Lines,        \* what a line of the transcript may be
  Keys,         \* source_message_ids
  KeyOf,        \* the id of a line that is a message, or NoKey
  NoKey,        \* the id of a row the recorder ignores
  Refused,      \* messages the server rejects (secrets, envelopes, pollution)
  Oversized,    \* messages above HOSTED_WRITE_MAX_CHARS
  Sessions,     \* session ids a hook payload may name
  NoSession,    \* no session id: a payload may lack it
  Payloads,     \* what hook payloads name, in Sessions or NoSession
  NoLine,       \* no unterminated last line
  NoCursor,     \* no cursor file, or one that cannot be read
  BatchSize,    \* HOSTED_WRITE_MAX_MESSAGES
  Attempts,     \* _TRANSPORT_RETRY_ATTEMPTS
  MaxLines,     \* bound: complete lines in the file
  MaxRewrites,  \* bound: times the host rewrites, truncates or replaces it
  MaxFaults     \* bound: kills, failed attempts and lost cursors

ASSUME SizesAssumption ==
  /\ BatchSize \in Nat \ {0} /\ Attempts \in Nat \ {0}
  /\ MaxLines \in Nat /\ MaxRewrites \in Nat /\ MaxFaults \in Nat
ASSUME LinesAssumption ==
  /\ KeyOf \in [Lines -> Keys \cup {NoKey}] /\ NoKey \notin Keys
  /\ Refused \subseteq Lines /\ Oversized \subseteq Lines
  /\ NoLine \notin Lines /\ NoSession \notin Sessions
  /\ Payloads \subseteq Sessions \cup {NoSession}
ASSUME CursorAssumption ==
  NoCursor \notin [session : Sessions \cup {NoSession}, prefix : Seq(Lines)]

VARIABLES
  file,      \* the newline-terminated lines
  tail,      \* the last row while it has no newline, or NoLine
  rewrites,  \* times the file was changed other than by appending
  cursor,    \* the cursor file
  pc,        \* where a hook run is
  session,   \* the session id of its payload
  scan,      \* the lines it consumed, the verified prefix included
  full,      \* how many of them end in a newline
  pos,       \* lines behind it: resumed over, ignored or acknowledged
  tries,     \* failed attempts of the batch it is posting
  seen,      \* the offset of the cursor it compares its own with
  late,      \* requests whose client gave up, still to reach the server
  messages,  \* rows of messages: [id, line]
  ledger,    \* keys of source_transcript_ledger
  lastId,    \* AUTOINCREMENT of messages
  faults     \* history: faults so far

fileVars == <<file, tail, rewrites>>
runVars == <<session, scan, full, pos, tries, seen>>
dbVars == <<messages, ledger, lastId>>
vars == <<fileVars, cursor, pc, runVars, late, dbVars, faults>>

-----------------------------------------------------------------------------
(* The transcript *)

\* What a reader of the file parses: the last row counts before its newline
\* does.  A row cut short does not parse and is left out.
View == IF tail = NoLine THEN file ELSE Append(file, tail)

Sendable(l) == KeyOf[l] # NoKey
Storable(l) == Sendable(l) /\ l \notin Refused

\* A host writes a row once; another row may carry the same message id.
AppendRow(l) ==
  /\ tail = NoLine /\ Len(file) < MaxLines
  /\ \A i \in DOMAIN file : file[i] # l
  /\ tail' = l
  /\ UNCHANGED <<file, rewrites>>

EndLine ==
  /\ tail # NoLine
  /\ file' = Append(file, tail)
  /\ tail' = NoLine
  /\ UNCHANGED rewrites

\* Any change of what was there: an earlier row replaced in place, the file
\* truncated, or rotated to another row.
Rewrite ==
  /\ rewrites < MaxRewrites
  /\ rewrites' = rewrites + 1
  /\ tail' = NoLine
  /\ \/ \E l \in Lines : \E i \in DOMAIN file :
          /\ \A j \in DOMAIN file : file[j] # l
          /\ file' = [file EXCEPT ![i] = l] \/ file' = <<l>>
     \/ \E n \in 0..Len(file) - 1 : file' = SubSeq(file, 1, n)

Host ==
  /\ \/ \E l \in Lines : AppendRow(l)
     \/ EndLine \/ Rewrite
  /\ UNCHANGED <<cursor, pc, runVars, late, dbVars, faults>>

-----------------------------------------------------------------------------
(* A hook run *)

\* Mutant: a file as long as before is taken to be the same file.
ResumeBySize(c, s) ==
  IF c # NoCursor /\ s # NoSession /\ c.session = s /\ Len(c.prefix) <= Len(View)
  THEN Len(c.prefix) ELSE 0

\* Where a run may resume: only with a session it can match, and only while
\* the file still begins with everything the cursor says was consumed.
ResumeOffset(c, s) ==
  IF /\ c # NoCursor /\ s # NoSession /\ c.session = s
     /\ Len(c.prefix) <= Len(View)
     /\ \A i \in DOMAIN c.prefix : c.prefix[i] = View[i]
  THEN Len(c.prefix) ELSE 0

Open(h, s) ==
  LET start == ResumeOffset(cursor, s) IN
  /\ pc[h] = "idle"
  /\ pc' = [pc EXCEPT ![h] = "scan"]
  /\ session' = [session EXCEPT ![h] = s]
  /\ scan' = [scan EXCEPT ![h] = SubSeq(View, 1, start)]
  /\ full' = [full EXCEPT ![h] = start]
  /\ pos' = [pos EXCEPT ![h] = start]
  /\ UNCHANGED <<fileVars, cursor, tries, seen, late, dbVars, faults>>

\* The verified prefix, then what the file holds behind it by now.
Spliced(prefix, lines) ==
  [i \in 1..(IF Len(prefix) < Len(lines) THEN Len(lines) ELSE Len(prefix)) |->
     IF i <= Len(prefix) THEN prefix[i] ELSE lines[i]]

\* A run that ends, in whatever way, forgets everything.
Ends(h) ==
  /\ pc' = [pc EXCEPT ![h] = "idle"]
  /\ session' = [session EXCEPT ![h] = NoSession]
  /\ scan' = [scan EXCEPT ![h] = <<>>]
  /\ full' = [full EXCEPT ![h] = 0]
  /\ pos' = [pos EXCEPT ![h] = 0]
  /\ tries' = [tries EXCEPT ![h] = 0]
  /\ seen' = [seen EXCEPT ![h] = 0]

TooLarge(h) ==
  \E i \in Len(scan[h]) + 1..Len(View) : View[i] \in Oversized /\ Sendable(View[i])

\* All batches are cut before the first is posted: one message above the cap
\* ends the run with nothing sent.
Scan(h) ==
  /\ pc[h] = "scan" /\ ~TooLarge(h)
  /\ pc' = [pc EXCEPT ![h] = "post"]
  /\ scan' = [scan EXCEPT ![h] = Spliced(scan[h], View)]
  /\ full' = [full EXCEPT ![h] = IF full[h] < Len(file) THEN Len(file) ELSE full[h]]
  /\ UNCHANGED <<fileVars, cursor, session, pos, tries, seen, late, dbVars, faults>>

ScanTooLarge(h) ==
  /\ pc[h] = "scan" /\ TooLarge(h)
  /\ Ends(h)
  /\ UNCHANGED <<fileVars, cursor, late, dbVars, faults>>

Batch(r) == {i \in r.from + 1..r.to : Sendable(r.scan[i])}

\* The batch a run posts next: at most BatchSize messages, with the ignored
\* rows behind them.  Without any message one empty batch is posted.
BatchEnd(h) ==
  CHOOSE e \in pos[h]..Len(scan[h]) :
    LET size(to) == Cardinality({i \in pos[h] + 1..to : Sendable(scan[h][i])}) IN
    /\ size(e) <= BatchSize
    /\ e = Len(scan[h]) \/ size(e + 1) > BatchSize

Request(h) == [scan |-> scan[h], from |-> pos[h], to |-> BatchEnd(h)]

(* The server: one explicit transaction per batch *)

\* Rejected and already recorded messages are answered without a row; of two
\* rows with one key in a batch the second finds the first in the ledger.
Fresh(r) ==
  {i \in Batch(r) :
     /\ Storable(r.scan[i]) /\ KeyOf[r.scan[i]] \notin ledger
     /\ \A j \in Batch(r) : j < i /\ Storable(r.scan[j]) => KeyOf[r.scan[j]] # KeyOf[r.scan[i]]}

Number(r, i) == lastId + Cardinality({j \in Fresh(r) : j <= i})

Ingest(r) ==
  /\ messages' = messages \cup {[id |-> Number(r, i), line |-> r.scan[i]] : i \in Fresh(r)}
  /\ ledger' = ledger \cup {KeyOf[r.scan[i]] : i \in Fresh(r)}
  /\ lastId' = lastId + Cardinality(Fresh(r))

\* A request and its reply are one step: the transaction is all that others
\* see of them.  A reply that names every submitted message authorizes the
\* next batch.
Post(h) ==
  /\ pc[h] = "post"
  /\ Ingest(Request(h))
  /\ pos' = [pos EXCEPT ![h] = BatchEnd(h)]
  /\ tries' = [tries EXCEPT ![h] = 0]
  /\ pc' = [pc EXCEPT ![h] = IF BatchEnd(h) = Len(scan[h]) THEN "cursor" ELSE "post"]
  /\ UNCHANGED <<fileVars, cursor, session, scan, full, seen, late, faults>>

\* A request whose client gave up still arrives, or never does.
ServeLate ==
  \E r \in late :
    /\ late' = late \ {r}
    /\ Ingest(r) \/ UNCHANGED dbVars
    /\ UNCHANGED <<fileVars, cursor, pc, runVars, faults>>

-----------------------------------------------------------------------------
(* What goes wrong *)

Fault == faults < MaxFaults /\ faults' = faults + 1

\* Mutant: a batch given up on is left behind.
LeaveBehind(h) ==
  /\ pos' = [pos EXCEPT ![h] = BatchEnd(h)]
  /\ pc' = [pc EXCEPT ![h] = IF BatchEnd(h) = Len(scan[h]) THEN "cursor" ELSE "post"]
  /\ UNCHANGED <<session, scan, full, tries, seen>>

\* Another attempt while there is one and the deadline allows it, or the run
\* ends with its cursor unwritten.
RetryOrEnd(h) ==
  \/ /\ tries[h] + 1 < Attempts
     /\ tries' = [tries EXCEPT ![h] = @ + 1]
     /\ UNCHANGED <<pc, session, scan, full, pos, seen>>
  \/ Ends(h)

\* 5xx, 429 or no connection: the transaction did not happen.
AttemptFails(h) ==
  /\ pc[h] = "post" /\ Fault
  /\ RetryOrEnd(h)
  /\ UNCHANGED <<fileVars, cursor, late, dbVars>>

\* The client gives up, or is killed, with the request on its way.
TimesOut(h) ==
  /\ pc[h] = "post" /\ Fault
  /\ late' = late \cup {Request(h)}
  /\ RetryOrEnd(h)
  /\ UNCHANGED <<fileVars, cursor, dbVars>>

\* The batch is stored and the reply is lost, garbled or not waited for.
ReplyLost(h) ==
  /\ pc[h] = "post" /\ Fault
  /\ Ingest(Request(h))
  /\ RetryOrEnd(h)
  /\ UNCHANGED <<fileVars, cursor, late>>

\* The hook's own deadline between two batches, the host's kill at any point.
Killed(h) ==
  /\ pc[h] # "idle" /\ Fault
  /\ Ends(h)
  /\ UNCHANGED <<fileVars, cursor, late, dbVars>>

LoseCursor ==
  /\ cursor # NoCursor /\ Fault
  /\ cursor' = NoCursor
  /\ UNCHANGED <<fileVars, pc, runVars, late, dbVars>>

-----------------------------------------------------------------------------
(* The cursor *)

\* Mutant: the cursor of the file as it is now.
CursorOfFile(h) ==
  IF file = <<>> THEN NoCursor ELSE [session |-> session[h], prefix |-> file]

\* Only newline-terminated lines are put behind the cursor.
NextCursor(h) ==
  IF full[h] = 0 THEN NoCursor
  ELSE [session |-> session[h], prefix |-> SubSeq(scan[h], 1, full[h])]

\* Nothing is behind a cursor that cannot be read.
Offset(c) == IF c = NoCursor THEN 0 ELSE Len(c.prefix)

\* write_cursor reads the file, and replaces it, in two steps.
ReadCursor(h) ==
  /\ pc[h] = "cursor"
  /\ \/ /\ NextCursor(h) = NoCursor
        /\ Ends(h)
     \/ /\ NextCursor(h) # NoCursor
        /\ pc' = [pc EXCEPT ![h] = "replace"]
        /\ seen' = [seen EXCEPT ![h] = Offset(cursor)]
        /\ UNCHANGED <<session, scan, full, pos, tries>>
  /\ UNCHANGED <<fileVars, cursor, late, dbVars, faults>>

ReplaceCursor(h) ==
  /\ pc[h] = "replace"
  /\ cursor' = IF seen[h] > Offset(NextCursor(h)) THEN cursor ELSE NextCursor(h)
  /\ Ends(h)
  /\ UNCHANGED <<fileVars, late, dbVars, faults>>

-----------------------------------------------------------------------------
Init ==
  /\ file = <<>> /\ tail = NoLine /\ rewrites = 0
  /\ cursor = NoCursor
  /\ pc = [h \in Hooks |-> "idle"]
  /\ session = [h \in Hooks |-> NoSession]
  /\ scan = [h \in Hooks |-> <<>>]
  /\ full = [h \in Hooks |-> 0]
  /\ pos = [h \in Hooks |-> 0]
  /\ tries = [h \in Hooks |-> 0]
  /\ seen = [h \in Hooks |-> 0]
  /\ late = {} /\ messages = {} /\ ledger = {} /\ lastId = 0
  /\ faults = 0

RunStep(h) ==
  \/ \E s \in Payloads : Open(h, s)
  \/ Scan(h) \/ ScanTooLarge(h)
  \/ Post(h)
  \/ ReadCursor(h) \/ ReplaceCursor(h)

FaultStep(h) == AttemptFails(h) \/ TimesOut(h) \/ ReplyLost(h) \/ Killed(h)

Next ==
  \/ Host
  \/ \E h \in Hooks : RunStep(h) \/ FaultStep(h)
  \/ ServeLate \/ LoseCursor

Spec == Init /\ [][Next]_vars

\* The host fires the hook again after every turn, and a run that nothing
\* stops goes on.
FairSpec == Spec /\ \A h \in Hooks : WF_vars(RunStep(h))

-----------------------------------------------------------------------------
(* Properties *)

Cursors == [session : Sessions \cup {NoSession}, prefix : Seq(Lines)] \cup {NoCursor}
Requests == [scan : Seq(Lines), from : Nat, to : Nat]

\* Every variable keeps its type: runs stay inside what they scanned, the
\* ledger has a row for each message (storage/transcript.py, recorders/cli.py).
TypeOK ==
  /\ file \in Seq(Lines) /\ tail \in Lines \cup {NoLine}
  /\ rewrites \in Nat /\ faults \in Nat /\ lastId \in Nat
  /\ cursor \in Cursors
  /\ pc \in [Hooks -> {"idle", "scan", "post", "cursor", "replace"}]
  /\ session \in [Hooks -> Sessions \cup {NoSession}]
  /\ scan \in [Hooks -> Seq(Lines)]
  /\ full \in [Hooks -> Nat] /\ pos \in [Hooks -> Nat]
  /\ \A h \in Hooks : full[h] <= Len(scan[h]) /\ pos[h] <= Len(scan[h])
  /\ tries \in [Hooks -> 0..Attempts - 1]
  /\ seen \in [Hooks -> Nat]
  /\ late \in SUBSET Requests
  /\ messages \in SUBSET [id : Nat, line : Lines]
  /\ ledger \in SUBSET Keys

Stored(l) == \E m \in messages : KeyOf[m.line] = KeyOf[l]
Covered(l) == Storable(l) => Stored(l)

\* Whatever session the next run names, the lines it would resume over are
\* stored or were rejected: the cursor never hides a message from ingest, even
\* across overlapping runs, kills, late requests and a rewritten file
\* (recorders/cli.py 508, recorders/claude_code.py 211).
NothingSkipped ==
  \A s \in Sessions \cup {NoSession} :
    \A i \in 1..ResumeOffset(cursor, s) : Covered(View[i])

\* The row of a key comes from the first row of the file that has the key.
IsFirst(j) ==
  \A k \in 1..j - 1 : Storable(View[k]) => KeyOf[View[k]] # KeyOf[View[j]]

\* One row for a source key, whatever is posted twice; and while the file only
\* grows, rows are in the order of the file and without a gap: a message is
\* stored after every message that stands before it
\* (storage/transcript.py 461, recorders/cli.py 488).
DeliveredInOrder ==
  /\ \A m, n \in messages : KeyOf[m.line] = KeyOf[n.line] => m = n
  /\ rewrites = 0 =>
       \A j \in DOMAIN View : \A i \in 1..j - 1 :
         Storable(View[i]) /\ Storable(View[j]) /\ IsFirst(j) =>
           \A n \in messages : KeyOf[n.line] = KeyOf[View[j]] =>
             \E m \in messages : KeyOf[m.line] = KeyOf[View[i]] /\ m.id < n.id

\* Once faults end, every finished line that stays in the file is stored,
\* unless an oversized message stands in the file: then every run ends before
\* its first post (recorders/cli.py 97).
EventuallyStored ==
  \A l \in Lines :
    Storable(l) /\ (\E i \in DOMAIN file : file[i] = l) ~>
      \/ Stored(l)
      \/ ~\E i \in DOMAIN file : file[i] = l
      \/ \E i \in DOMAIN View : View[i] \in Oversized
===============================================================================
