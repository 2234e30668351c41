------------------------------ MODULE RemoteCalls ------------------------------
(***************************************************************************)
(* Operations on a managed libSQL database through DeadlineConnection: an  *)
(* operation opens a connection, probes it, runs its statements and closes *)
(* it, each driver call on a worker thread that takes one of the process's *)
(* slots, while the caller waits for it no longer than the deadline.  The  *)
(* remote answers late, with a fault, after the effect, or never.          *)
(*                                                                         *)
(* Time is not counted: a wait may end at its deadline whenever it waits.  *)
(* A retryable error is answered by one more try on a fresh connection, as *)
(* retry_once_if_retryable, the phase prelude and HTTP clients do.         *)
(***************************************************************************)
EXTENDS Naturals, FiniteSets

CONSTANTS
  Callers,  \* threads that run one operation each
  Slots,    \* MAX_OUTSTANDING_REMOTE_CALLS
  SitesOf,  \* the shapes of operation each of them may run
  Updates,  \* statements of operations that write
  Queries,  \* statements of operations that read
  Retries   \* how often each of them tries again

(* The shapes of operation:                                                *)
(*   read     statements outside a transaction that change nothing         *)
(*   scoped   `with conn:`, where each statement commits itself            *)
(*   guarded  BEGIN, a try that rolls back, the commit after the try       *)
(*   inside   BEGIN, a try that rolls back, the commit inside the try      *)
Statements ==
  [keyword : {"SELECT", "INSERT", "PRAGMA", "WITH"},
   inner   : {"none", "foreign_keys", "journal_mode", "dml"}]

\* What changes the database: DML, at the start or after a CTE, and a journal
\* mode.
Writing == {s \in Statements : \/ s.keyword = "INSERT"
                               \/ s.keyword = "WITH" /\ s.inner = "dml"
                               \/ s.keyword = "PRAGMA" /\ s.inner = "journal_mode"}

ASSUME RemoteAssumption ==
  /\ Slots \in Nat /\ Retries \in [Callers -> Nat]
  /\ SitesOf \in [Callers -> SUBSET {"read", "scoped", "guarded", "inside"}]
  /\ Updates \subseteq Writing /\ Queries \subseteq Statements

VARIABLES
  free,     \* slots of the semaphore nobody holds
  op,       \* the operation of each caller
  calls,    \* driver calls on their worker threads
  landed,   \* history: how often an operation's write took effect
  lostAcks  \* history: effects the remote reported as a retryable fault

remoteVars == <<free, op, calls, landed, lostAcks>>

-----------------------------------------------------------------------------
(* What the connection knows of a statement *)

\* (Mutation: the leading keyword alone is looked at.)
KeywordMutates(s) ==
  \/ s.keyword = "INSERT"
  \/ s.keyword = "PRAGMA" /\ s.inner = "journal_mode"

\* Whether a statement that timed out may have changed the database.
SqlMayMutate(s) ==
  \/ s.keyword = "INSERT"
  \/ s.keyword = "PRAGMA" /\ s.inner = "journal_mode"
  \/ s.keyword = "WITH" /\ s.inner = "dml"

\* (Mutation: a commit may be repeated like a rollback.)
StatementsMutate(o) == o.step = "run" /\ SqlMayMutate(o.sql)

\* BEGIN, ROLLBACK, the probe and closing are not mutations; a commit is.
MayMutate(o) ==
  \/ o.step = "commit"
  \/ o.step = "run" /\ SqlMayMutate(o.sql)

\* A timed-out mutation must not be repeated, any other call may be.
DeadlineError(o) == IF MayMutate(o) THEN "unknown" ELSE "deadline"

Retryable(error) == error \in {"deadline", "fault"}

\* What the database does: a statement that writes commits itself unless a
\* transaction is open, and then the commit makes it durable.
Lands(o) ==
  \/ o.site = "scoped" /\ o.step = "run"
  \/ o.site \in {"guarded", "inside"} /\ o.step = "commit"

-----------------------------------------------------------------------------
(* The course of an operation *)

NoStatement == [keyword |-> "SELECT", inner |-> "none"]
Idle == [site |-> "read", sql |-> NoStatement, step |-> "idle", phase |-> "ready",
         conn |-> 0, ready |-> FALSE, poisoned |-> FALSE, rebuilt |-> FALSE,
         tries |-> 0, error |-> "none"]

RemoteInit ==
  /\ free = Slots /\ calls = {}
  /\ op = [p \in Callers |-> Idle]
  /\ landed = [p \in Callers |-> 0] /\ lostAcks = [p \in Callers |-> 0]

\* connect: a new handle, whose first round trip is the probe.
Connect(o) ==
  [o EXCEPT !.step = "probe", !.phase = "ready", !.conn = @ + 1, !.ready = FALSE,
            !.poisoned = FALSE, !.error = "none"]

GoTo(o, step) == [o EXCEPT !.step = step, !.phase = "ready",
                           !.ready = @ \/ (o.step = "probe" /\ step # "close")]

\* The step after one that succeeded.
Passed(o) ==
  GoTo(o, CASE o.step = "probe" -> IF o.site = "read" THEN "run" ELSE "begin"
            [] o.step = "begin" -> "run"
            [] o.step = "run" /\ o.site # "read" -> "commit"
            [] o.step = "close" -> "closed"
            [] OTHER -> "close")

\* The step after one that raised: a write rolls back, and so does a commit
\* inside the try.  What a rollback raises replaces what it was raised for;
\* a deadline while closing is swallowed.
RollsBack(o) == \/ o.step = "run" /\ o.site # "read"
                \/ o.step = "commit" /\ o.site = "inside"
Raised(o, error) ==
  IF o.step = "close"
    THEN GoTo([o EXCEPT !.error = IF error = "deadline" THEN @ ELSE error], "closed")
    ELSE GoTo([o EXCEPT !.error = error], IF RollsBack(o) THEN "abort" ELSE "close")

Proceed(p, o) == op' = [op EXCEPT ![p] = o]
Quiet == UNCHANGED <<free, calls, landed, lostAcks>>

\* A caller starts its operation.
Begin(p, site, sql) ==
  /\ op[p].step = "idle"
  /\ sql \in (IF site = "read" THEN Queries ELSE Updates)
  /\ Proceed(p, Connect([op[p] EXCEPT !.site = site, !.sql = sql]))
  /\ Quiet

\* One more handle after a fast fault of the first probe.
MayRebuild(o) == o.error = "fault" /\ ~o.ready /\ ~o.rebuilt
Rebuild(p) ==
  /\ op[p].step = "closed" /\ MayRebuild(op[p])
  /\ Proceed(p, Connect([op[p] EXCEPT !.rebuilt = TRUE]))
  /\ Quiet

\* The operation once more, from its first statement.
MayRetry(p, o) == Retryable(o.error) /\ ~MayRebuild(o) /\ o.tries < Retries[p]
Retry(p) ==
  /\ op[p].step = "closed" /\ MayRetry(p, op[p])
  /\ Proceed(p, Connect([op[p] EXCEPT !.tries = @ + 1, !.rebuilt = FALSE]))
  /\ Quiet

End(p) ==
  /\ op[p].step = "closed" /\ ~MayRebuild(op[p]) /\ ~MayRetry(p, op[p])
  /\ Proceed(p, [Idle EXCEPT !.step = "ended", !.site = op[p].site,
                             !.conn = op[p].conn, !.error = op[p].error])
  /\ Quiet

-----------------------------------------------------------------------------
(* One driver call *)

RoundTrips == {"probe", "begin", "run", "commit", "abort", "close"}
Calling(p, phase) == op[p].step \in RoundTrips /\ op[p].phase = phase

\* A poisoned connection takes no further call: closing it does nothing,
\* neither does leaving `with conn:`, and an explicit rollback raises.
Refuse(p) ==
  LET o == op[p] IN
  /\ Calling(p, "ready") /\ o.poisoned
  /\ Proceed(p, IF o.step = "close" \/ o.site = "scoped" THEN Passed(o)
                ELSE Raised(o, "deadline"))
  /\ Quiet

Acquire(p) ==
  /\ Calling(p, "ready") /\ ~op[p].poisoned /\ free > 0
  /\ free' = free - 1
  /\ Proceed(p, [op[p] EXCEPT !.phase = "held"])
  /\ UNCHANGED <<calls, landed, lostAcks>>

\* No slot within the deadline, or at once when closing.
NoCapacity(p) ==
  /\ Calling(p, "ready") /\ ~op[p].poisoned /\ free = 0
  /\ Proceed(p, Raised(op[p], "deadline"))
  /\ Quiet

\* A slot, but the deadline is over, or no thread starts.
NotStarted(p, error) ==
  /\ Calling(p, "held")
  /\ free' = free + 1
  /\ Proceed(p, Raised(op[p], error))
  /\ UNCHANGED <<calls, landed, lostAcks>>

Start(p) ==
  /\ Calling(p, "held")
  /\ calls' = calls \cup {[by |-> p, conn |-> op[p].conn, step |-> op[p].step,
                           lands |-> Lands(op[p])]}
  /\ Proceed(p, [op[p] EXCEPT !.phase = "waiting"])
  /\ UNCHANGED <<free, landed, lostAcks>>

\* The worker's call returns or raises, and its slot is free again; the
\* caller goes on if it still waits for this call.
Awaited(k) == op[k.by].conn = k.conn /\ op[k.by].phase = "waiting"
Answered(o, answer) == IF answer = "ok" THEN Passed(o) ELSE Raised(o, answer)
Answer(k, answer, lost) ==
  /\ k \in calls
  /\ k.step = "close" => answer = "ok"
  /\ lost => k.lands /\ answer = "fault"
  /\ calls' = calls \ {k}
  /\ free' = free + 1
  /\ landed' = [landed EXCEPT ![k.by] =
                  IF k.lands /\ (answer = "ok" \/ lost) THEN @ + 1 ELSE @]
  /\ lostAcks' = [lostAcks EXCEPT ![k.by] = IF lost THEN @ + 1 ELSE @]
  /\ op' = IF Awaited(k) THEN [op EXCEPT ![k.by] = Answered(@, answer)] ELSE op

\* (Mutation: closing waits without a deadline.)
EndlessClose(p) ==
  LET o == op[p] IN
  /\ Calling(p, "waiting") /\ o.step # "close"
  /\ Proceed(p, Raised([o EXCEPT !.poisoned = TRUE], DeadlineError(o)))
  /\ Quiet

\* The deadline of the call: the connection is poisoned, the worker abandoned.
TimeOut(p) ==
  LET o == op[p] IN
  /\ Calling(p, "waiting")
  /\ Proceed(p, Raised([o EXCEPT !.poisoned = TRUE], DeadlineError(o)))
  /\ Quiet

-----------------------------------------------------------------------------
CallStep(p) ==
  \/ Refuse(p) \/ Acquire(p) \/ NoCapacity(p)
  \/ NotStarted(p, "deadline") \/ NotStarted(p, "other") \/ Start(p)
  \/ TimeOut(p)
  \/ Rebuild(p) \/ Retry(p) \/ End(p)

Remote == \E k \in calls, answer \in {"ok", "fault", "other"}, lost \in BOOLEAN :
            Answer(k, answer, lost)

-----------------------------------------------------------------------------
(* Properties *)

Errors == {"none", "deadline", "unknown", "fault", "other"}
Operations ==
  [site : {"read", "scoped", "guarded", "inside"}, sql : Statements,
   step : RoundTrips \cup {"idle", "closed", "ended"},
   phase : {"ready", "held", "waiting"}, conn : Nat, ready : BOOLEAN,
   poisoned : BOOLEAN, rebuilt : BOOLEAN, tries : Nat,
   error : Errors]

\* Every variable keeps its type, the semaphore its bounds.
RemoteTypeOK ==
  /\ free \in 0..Slots
  /\ op \in [Callers -> Operations]
  /\ calls \subseteq [by : Callers, conn : Nat, step : RoundTrips, lands : BOOLEAN]
  /\ landed \in [Callers -> Nat] /\ lostAcks \in [Callers -> Nat]

Holders == {p \in Callers : op[p].phase = "held"}

PendingWrites(p) == {k \in calls : k.by = p /\ k.lands}

\* A guarded operation takes effect once however often it is tried, unless
\* the remote itself reported an effect as a fault; what a worker left behind
\* may still do counts.
WritesLandOnce ==
  \A p \in Callers : op[p].site = "guarded" =>
    landed[p] + Cardinality(PendingWrites(p)) <= 1 + lostAcks[p]

\* How a guarded operation ends is what happened: no error means it took
\* effect, and an error other than the unknown outcome that it did not and
\* will not, lost acknowledgements apart.  No operation is tried again while
\* a write of it is out, except where the commit is inside the try.
OutcomeHonest ==
  \A p \in Callers :
    /\ op[p].site = "guarded" /\ op[p].step = "ended" =>
         /\ op[p].error = "none" => landed[p] > 0
         /\ Retryable(op[p].error) =>
              landed[p] + Cardinality(PendingWrites(p)) <= lostAcks[p]
    /\ op[p].site # "inside" => \A k \in PendingWrites(p) : k.conn = op[p].conn
===============================================================================
