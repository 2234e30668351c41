----------------------------- MODULE HostedRequests -----------------------------
(***************************************************************************)
(* The hosted service's request path: the routes of the HTTP and MCP       *)
(* adapters, the call that authenticates, binds, meters and delegates, the *)
(* telemetry rows it leaves, the answer the caller gets, and the in-memory *)
(* rate limiter.                                                           *)
(*                                                                         *)
(* Handlers share one event loop: a handler runs alone from one await to   *)
(* the next, and the memory operation it delegates to is where it waits.   *)
(* The process may die at any point, and begins again with an empty        *)
(* limiter.                                                                *)
(***************************************************************************)
EXTENDS Naturals, FiniteSets, FiniteSetsExt

CONSTANTS
  Requests,     \* each comes once
  Keys,         \* API keys, each of its own tenant and principal
  Limit,        \* HostedRateLimitRule.limit of each operation
  Window,       \* and its window_seconds
  MaxBuckets,   \* max_buckets
  MaxTime,      \* bound on the clock
  MaxCrashes    \* bound on restarts

Routes == {"write", "read", "mcp", "trigger"}

\* The operation a route is metered as: a trigger counts as the phase it runs.
OperationOf == [write |-> "append_transcript", read |-> "search_long_term",
                mcp |-> "search_long_term", trigger |-> "run_dream_phase"]
Operations == {OperationOf[route] : route \in Routes}

ASSUME HostedAssumption ==
  /\ Limit \in [Operations -> Nat \ {0}] /\ Window \in [Operations -> Nat \ {0}]
  /\ MaxBuckets \in Nat \ {0} /\ MaxTime \in Nat /\ MaxCrashes \in Nat

VARIABLES
  now,        \* the monotonic clock, in whole seconds
  buckets,    \* the limiter's table: a function of the keys it holds
  nextPrune,  \* when the first of them runs out
  req,        \* each request
  effects,    \* history: effects of each request on the tenant's memory
  rows,       \* the audit and the usage row of each request
  crashes

serviceVars == <<now, buckets, nextPrune, req, effects, rows, crashes>>

Never == MaxTime + 1000
NoRows == [audit |-> "none", usage |-> "none"]

\* at: when the limiter admitted it, Never if it did not since the process
\* began; failure: the exception under way; told: seconds in Retry-After.
Unsent == [pc |-> "none", route |-> "none", key |-> "none", at |-> Never,
           failure |-> "none", told |-> 0, answer |-> "none"]

RequestsInit ==
  /\ now = 0 /\ crashes = 0
  /\ buckets = [b \in {} |-> Never] /\ nextPrune = Never
  /\ req = [r \in Requests |-> Unsent]
  /\ effects = [r \in Requests |-> 0]
  /\ rows = [r \in Requests |-> NoRows]

Becomes(r, q) == req' = [req EXCEPT ![r] = q]

\* Between two awaits no other handler runs.
Synchronous == {"failing", "audit", "usage"}
OnLoop(r, pc) ==
  /\ req[r].pc = pc
  /\ \A q \in Requests \ {r} : req[q].pc \notin Synchronous

Answers(r, answer) ==
  Becomes(r, [req[r] EXCEPT !.pc = "answered", !.answer = answer])

Fails(r, failure) ==
  Becomes(r, [req[r] EXCEPT !.pc = "failing", !.failure = failure])

Quiet == UNCHANGED <<now, buckets, nextPrune, effects, rows, crashes>>

--------------------------------------------------------------------------------
(* What an exception is told as *)

\* A storage fault that a retry may clear is the service's fault, and so is any
\* other storage fault, a write of unknown outcome among them.
StorageAnswer == [retryable |-> "503", operational |-> "500"]

HttpAnswer == [invalid_key |-> "401", forbidden |-> "403", domain |-> "400",
               host_port |-> "503", limited |-> "429"]

\* A tool call turns what the caller did wrong into the tool's own error.
McpAnswer == [invalid_key |-> "tool_error", forbidden |-> "tool_error",
              domain |-> "tool_error", host_port |-> "tool_error",
              limited |-> "429"]

AnswerOf(route, failure) ==
  IF failure \in DOMAIN StorageAnswer THEN StorageAnswer[failure]
  ELSE IF route = "mcp" THEN McpAnswer[failure] ELSE HttpAnswer[failure]

StorageFaults == DOMAIN StorageAnswer
FaultAnswers == {StorageAnswer[f] : f \in StorageFaults}

--------------------------------------------------------------------------------
(* The front door *)

\* The body is read and capped, and then the route's handler runs.
Receive(r) ==
  /\ OnLoop(r, "none")
  /\ \E route \in Routes, key \in Keys :
       Becomes(r, [req[r] EXCEPT !.pc = "front", !.route = route, !.key = key])
  /\ Quiet

CapBody == {"400", "413"}

\* What a handler refuses before it asks the service: a body out of shape or
\* bounds, no key, a key that is not valid, headers that name no scope.
WriteRefuses == {"400", "401", "422"}
SearchRefuses == {"400", "401", "403", "422"}
ContextRefuses == {"400", "401", "403", "422"}
McpRefuses == {"400", "401", "403"}
TriggerRefuses == {"400", "401", "403", "422"}

Refuses == [write |-> CapBody \cup WriteRefuses,
            read |-> CapBody \cup SearchRefuses \cup ContextRefuses,
            mcp |-> CapBody \cup McpRefuses,
            trigger |-> CapBody \cup TriggerRefuses]

TurnAway(r) ==
  /\ OnLoop(r, "front")
  /\ \E answer \in Refuses[req[r].route] \cup FaultAnswers : Answers(r, answer)
  /\ Quiet

\* A write that authenticates and builds its scope in the handler leaves a row
\* when that fails.
WriteRefused(r) ==
  /\ OnLoop(r, "front") /\ req[r].route = "write"
  /\ \E failure \in {"invalid_key", "forbidden", "domain"} \cup StorageFaults : Fails(r, failure)
  /\ Quiet

\* A notification, a ping or a list of tools asks nothing of the service.
AnswerLocally(r) ==
  /\ OnLoop(r, "front") /\ req[r].route = "mcp"
  /\ \E answer \in {"local", "tool_error"} : Answers(r, answer)
  /\ Quiet

--------------------------------------------------------------------------------
(* The rate limiter *)

Bucket(r) == <<req[r].key, OperationOf[req[r].route]>>
LimitOf(b) == Limit[b[2]]
WindowOf(b) == Window[b[2]]

EarliestEnd(table) == Min({table[b].expires : b \in DOMAIN table} \cup {Never})

\* What check finds: buckets that ran out are dropped, no sooner than the first
\* of them is due.
Due == now >= nextPrune
Live == {b \in DOMAIN buckets : buckets[b].expires > now}
Table == IF Due THEN [b \in Live |-> buckets[b]] ELSE buckets
TableDue == IF Due THEN EarliestEnd(Table) ELSE nextPrune

IsFull(b) == b \notin DOMAIN Table /\ Cardinality(DOMAIN Table) >= MaxBuckets
IsSpent(b) ==
  /\ b \in DOMAIN Table /\ Table[b].expires > now
  /\ Table[b].count >= LimitOf(b)

OpensWindow(b) == b \notin DOMAIN Table \/ Table[b].expires <= now

Counted(b) ==
  IF OpensWindow(b) THEN [count |-> 1, expires |-> now + WindowOf(b)]
  ELSE [Table[b] EXCEPT !.count = @ + 1]

\* (Mutation: a new window's end replaces the one that is awaited.)
AwaitLatest(b) == IF OpensWindow(b) THEN now + WindowOf(b) ELSE TableDue

\* The end that the next pruning waits for.
Await(b) == IF OpensWindow(b) THEN Min({TableDue, now + WindowOf(b)}) ELSE TableDue

RetryAfter(b) ==
  IF IsSpent(b) THEN Table[b].expires - now + 1
  ELSE Min({IF Table[c].expires > now THEN Table[c].expires - now + 1 ELSE 1 : c \in DOMAIN Table})

Admit(r) ==
  LET b == Bucket(r) IN
  /\ OnLoop(r, "front") /\ ~IsFull(b) /\ ~IsSpent(b)
  /\ buckets' = [c \in DOMAIN Table \cup {b} |-> IF c = b THEN Counted(b) ELSE Table[c]]
  /\ nextPrune' = Await(b)
  /\ Becomes(r, [req[r] EXCEPT !.pc = "delegate", !.at = now])
  /\ UNCHANGED <<now, effects, rows, crashes>>

Refuse(r) ==
  LET b == Bucket(r) IN
  /\ OnLoop(r, "front") /\ (IsFull(b) \/ IsSpent(b))
  /\ buckets' = Table /\ nextPrune' = TableDue
  /\ Becomes(r, [req[r] EXCEPT !.pc = "failing", !.failure = "limited", !.told = RetryAfter(b)])
  /\ UNCHANGED <<now, effects, rows, crashes>>

--------------------------------------------------------------------------------
(* The call *)

\* The key does not hold any more, it does not reach the scope, or the control
\* plane cannot say.
CallFails(r) ==
  /\ OnLoop(r, "front")
  /\ \E failure \in {"invalid_key", "forbidden"} \cup StorageFaults : Fails(r, failure)
  /\ Quiet

\* A trigger whose scope is already dreaming is skipped.
Effects == [write |-> {1}, read |-> {0}, mcp |-> {0}, trigger |-> {0, 1}]

Lands(r) ==
  /\ OnLoop(r, "delegate")
  /\ \E n \in Effects[req[r].route] : effects' = [effects EXCEPT ![r] = @ + n]
  /\ Becomes(r, [req[r] EXCEPT !.pc = "audit"])
  /\ UNCHANGED <<now, buckets, nextPrune, rows, crashes>>

\* The operation refuses, lacks a port, or meets a fault that undid it.
DelegateFails(r) ==
  /\ OnLoop(r, "delegate")
  /\ \E failure \in {"forbidden", "domain", "host_port"} \cup StorageFaults : Fails(r, failure)
  /\ Quiet

\* A write lands and its acknowledgement is lost.
LandsUnseen(r) ==
  /\ OnLoop(r, "delegate") /\ req[r].route = "write"
  /\ effects' = [effects EXCEPT ![r] = @ + 1]
  /\ \E failure \in StorageFaults : Fails(r, failure)
  /\ UNCHANGED <<now, buckets, nextPrune, rows, crashes>>

\* The two rows of a request are two commits; either fails, before or after it
\* landed.
Row(r, kind, landed) ==
  rows' = IF landed THEN [rows EXCEPT ![r][kind] = "ok"] ELSE rows

\* (Mutation: telemetry is best effort here as it is elsewhere.)
AuditAnyway(r) ==
  /\ OnLoop(r, "audit")
  /\ \E landed \in BOOLEAN : Row(r, "audit", landed)
  /\ Becomes(r, [req[r] EXCEPT !.pc = "usage"])
  /\ UNCHANGED <<now, buckets, nextPrune, effects, crashes>>

RecordAudit(r) ==
  /\ OnLoop(r, "audit")
  /\ \/ Row(r, "audit", TRUE) /\ Becomes(r, [req[r] EXCEPT !.pc = "usage"])
     \/ \E landed \in BOOLEAN, answer \in FaultAnswers :
          Row(r, "audit", landed) /\ Answers(r, answer)
  /\ UNCHANGED <<now, buckets, nextPrune, effects, crashes>>

\* What a read found may be more than the adapter hands out.
Given == [write |-> {"ok"}, trigger |-> {"ok"}, read |-> {"ok", "400"}, mcp |-> {"ok", "tool_error"}]

RecordUsage(r) ==
  /\ OnLoop(r, "usage")
  /\ \/ \E answer \in Given[req[r].route] : Row(r, "usage", TRUE) /\ Answers(r, answer)
     \/ \E landed \in BOOLEAN, answer \in FaultAnswers :
          Row(r, "usage", landed) /\ Answers(r, answer)
  /\ UNCHANGED <<now, buckets, nextPrune, effects, crashes>>

\* The rows of a failure are written as far as they can be, and the failure is
\* what the caller is told, whatever became of them.
RecordFailure(r) ==
  LET status == IF req[r].failure = "limited" THEN "rate_limited" ELSE "error" IN
  /\ OnLoop(r, "failing")
  /\ \E kinds \in {{}, {"audit"}, {"audit", "usage"}} :
       rows' = [rows EXCEPT ![r] = [k \in DOMAIN @ |-> IF k \in kinds THEN status ELSE @[k]]]
  /\ Answers(r, AnswerOf(req[r].route, req[r].failure))
  /\ UNCHANGED <<now, buckets, nextPrune, effects, crashes>>

--------------------------------------------------------------------------------
(* The process *)

\* Requests under way get no answer, and the limiter forgets.
Crash ==
  /\ crashes < MaxCrashes /\ crashes' = crashes + 1
  /\ req' = [r \in Requests |->
       [req[r] EXCEPT !.at = Never,
                      !.pc = IF @ \in {"none", "answered"} THEN @ ELSE "lost"]]
  /\ buckets' = [b \in {} |-> Never] /\ nextPrune' = Never
  /\ UNCHANGED <<now, effects, rows>>

SecondPasses ==
  /\ now < MaxTime /\ now' = now + 1
  /\ UNCHANGED <<buckets, nextPrune, req, effects, rows, crashes>>

RequestStep(r) ==
  \/ Receive(r) \/ TurnAway(r) \/ WriteRefused(r) \/ AnswerLocally(r)
  \/ Admit(r) \/ Refuse(r) \/ CallFails(r)
  \/ Lands(r) \/ DelegateFails(r) \/ LandsUnseen(r)
  \/ RecordAudit(r) \/ RecordUsage(r) \/ RecordFailure(r)

RequestsNext == (\E r \in Requests : RequestStep(r)) \/ Crash \/ SecondPasses

RequestsSpec == RequestsInit /\ [][RequestsNext]_serviceVars

--------------------------------------------------------------------------------
(* Properties *)

Refusals == {"400", "401", "403", "413", "422", "429", "tool_error"}

\* A caller that is told of success has its effect, once, and both rows; one
\* that is refused has none; and a row that says ok stands for an effect that
\* is there.  What lies between, an effect without its rows or rows without an
\* answer, is told as the service's fault or died with the process
\* (hosted.py _call, hosted_http.py _handle_payload).
AnswerHonest ==
  \A r \in Requests :
    LET q == req[r]
        mutates == q.route = "write"
    IN
    /\ q.answer = "ok" => /\ rows[r].audit = "ok" /\ rows[r].usage = "ok"
                          /\ effects[r] \in Effects[q.route]
    /\ q.answer \in Refusals => /\ effects[r] = 0
                                /\ mutates => rows[r].audit # "ok"
    /\ rows[r].audit = "ok" => effects[r] \in Effects[q.route]
    /\ rows[r].usage # "none" => rows[r].usage = rows[r].audit

\* Requests the running process admitted to a bucket within its window.
Recent(b) ==
  {r \in Requests : req[r].at # Never /\ Bucket(r) = b /\ now < req[r].at + WindowOf(b)}

Refused(r) == req[r].failure # "limited" /\ req'[r].failure = "limited"
Admitted(r) == req[r].pc = "front" /\ req'[r].pc = "delegate"

FairTo(r) ==
  LET b == Bucket(r)
      spent == Cardinality(Recent(b)) >= LimitOf(b)
      full == {c \in Keys \X Operations : c # b /\ Recent(c) # {}}
      asked == UNION {Recent(c) : c \in IF spent THEN {b} ELSE full}
  IN
  /\ Refused(r) =>
       /\ spent \/ Cardinality(full) >= MaxBuckets
       /\ \E q \in asked : req'[r].told = req[q].at + WindowOf(Bucket(q)) - now + 1
  /\ Admitted(r) => Cardinality(Recent(b)) <= 2 * (LimitOf(b) - 1)

\* A request is turned away only if its window's allowance was used, or the
\* table is filled by others whose windows still run; the wait it is told is
\* over just after one of those windows ends; and no window of time holds
\* twice the allowance (hosted.py HostedInMemoryRateLimiter).
LimiterFair == [][\A r \in Requests : FairTo(r)]_serviceVars
================================================================================
