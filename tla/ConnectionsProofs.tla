--------------------------- MODULE ConnectionsProofs ---------------------------
(***************************************************************************)
(* What operations on managed databases guarantee for any number of        *)
(* threads, slots and tries, however late the remote answers, and what     *)
(* tokens are served for any TTL, any bound on a mint and any databases.   *)
(***************************************************************************)
EXTENDS Connections, SequenceTheorems, FiniteSetTheorems, TLAPS

-------------------------------------------------------------------------------
(* Calls of an operation *)

RemoteTyped ==
  /\ op \in [Callers -> Operations]
  /\ calls \subseteq [by : Callers, conn : Nat, step : RoundTrips, lands : BOOLEAN]
  /\ landed \in [Callers -> Nat] /\ lostAcks \in [Callers -> Nat]

\* Statements fit their operation, and a rollback has a reason.
Shaped(o) ==
  /\ o.step \notin {"idle", "ended"} /\ o.site # "read" => o.sql \in Updates
  /\ o.step \in {"probe", "begin", "run", "commit"} => o.error = "none"
  /\ o.step = "abort" => o.error # "none"
  /\ o.phase # "ready" => o.step \in RoundTrips /\ ~o.poisoned
  /\ o.poisoned => o.step \in {"abort", "close", "closed"}
  /\ o.step = "idle" => o.site = "read"

\* The calls of p on the connection it now has: while it waits the one it
\* waits for, none while it calls nothing, and at most the one that poisoned it.
Current(p) == {k \in calls : k.by = p /\ k.conn = op[p].conn}
Exact(p) ==
  /\ \A k \in calls : k.by = p => k.conn <= op[p].conn
  /\ op[p].step = "idle" => \A k \in calls : k.by # p
  /\ op[p].phase = "waiting" =>
       \E k \in Current(p) : Current(p) = {k} /\ k.step = op[p].step /\ k.lands = Lands(op[p])
  /\ op[p].phase # "waiting" /\ ~op[p].poisoned /\ op[p].step # "ended" => Current(p) = {}
  /\ \A j, k \in Current(p) : j = k

\* A write that is out is on the connection of this try: it is waited for, or
\* its outcome is unknown and the operation only ends.
OutWaits(p) ==
  op[p].site # "inside" =>
    \A k \in PendingWrites(p) :
      /\ k.conn = op[p].conn
      /\ \/ op[p].phase = "waiting"
         \/ /\ op[p].error = "unknown"
            /\ \/ op[p].step \in {"close", "closed", "ended"}
               \/ op[p].step = "abort" /\ op[p].site = "scoped"

\* How often a guarded operation took or may take effect.
Out(p) == IF PendingWrites(p) = {} THEN 0 ELSE 1
Committed(o) ==
  \/ o.step = "commit" /\ o.phase = "waiting"
  \/ o.step \in {"close", "closed", "ended"} /\ ~Retryable(o.error)
Counted(p) ==
  /\ op[p].step = "idle" => landed[p] = 0
  /\ op[p].site = "guarded" =>
       /\ landed[p] + Out(p) <= lostAcks[p] + 1
       /\ ~Committed(op[p]) => landed[p] + Out(p) <= lostAcks[p]
       /\ op[p].step \in {"close", "closed", "ended"} /\ op[p].error = "none" => landed[p] > 0

CallerInv(p) == Shaped(op[p]) /\ Exact(p) /\ OutWaits(p) /\ Counted(p)
RemoteInv == RemoteTyped /\ \A p \in Callers : CallerInv(p)

-------------------------------------------------------------------------------
(* Tokens *)

Entry == [db : Databases, token : Nat, at : Nat]
ThreadType ==
  [pc : {"idle", "look", "wait", "mint", "publish", "served", "failed"},
   db : Databases \cup {"none"}, token : Nat, at : Nat, armed : BOOLEAN]

TokenTyped ==
  /\ now \in Nat /\ issued \in Seq(Nat) /\ cache \in Seq(Entry)
  /\ minting \subseteq Databases /\ tainted \subseteq Databases
  /\ thread \in [Threads -> ThreadType]
  /\ dropped \in [Databases -> [upto : Nat, times : Nat]]
  /\ \A t \in Threads : thread[t].pc # "idle" => thread[t].db \in Databases
  /\ \A d \in Databases : dropped[d].upto <= Len(issued)

\* A token asked for after the last invalidation of its database, that arrived
\* within the bound of a mint.
Live(d, token, at) ==
  /\ token \in 1 .. Len(issued) /\ token > dropped[d].upto
  /\ at <= issued[token] + Latency

CacheLive ==
  /\ \A i \in DOMAIN cache : Live(cache[i].db, cache[i].token, cache[i].at)
  /\ \A i, j \in DOMAIN cache : cache[i].db = cache[j].db => i = j

\* One thread mints for a database; what it will publish is live unless it was
\* invalidated on its way.
Minter(t) == thread[t].pc \in {"mint", "publish"}
MintsLive ==
  /\ \A t, u \in Threads : Minter(t) /\ Minter(u) /\ thread[t].db = thread[u].db => t = u
  /\ \A t \in Threads : Minter(t) =>
       /\ thread[t].db \in minting
       /\ thread[t].token \in 1 .. Len(issued)
       /\ now <= issued[thread[t].token] + Latency
       /\ thread[t].pc = "publish" => thread[t].at = now
       /\ thread[t].db \notin tainted => thread[t].token > dropped[thread[t].db].upto

TokenInv == TokenTyped /\ CacheLive /\ MintsLive

-------------------------------------------------------------------------------
(* The course of one operation *)

LEMMA OpFields ==
  ASSUME NEW o \in Operations
  PROVE  /\ o.site \in {"read", "scoped", "guarded", "inside"} /\ o.sql \in Statements
         /\ o.step \in RoundTrips \cup {"idle", "closed", "ended"}
         /\ o.phase \in {"ready", "held", "waiting"} /\ o.conn \in Nat
         /\ o.ready \in BOOLEAN /\ o.poisoned \in BOOLEAN /\ o.rebuilt \in BOOLEAN
         /\ o.tries \in Nat /\ o.error \in Errors
  BY DEF Operations

\* Two states of one try: the same statement on the same connection.
SameTry(o, u) ==
  o.site = u.site /\ o.sql = u.sql /\ o.conn = u.conn /\ o.poisoned = u.poisoned

LEMMA GoToEffect ==
  ASSUME NEW o \in Operations, NEW step \in RoundTrips \cup {"idle", "closed", "ended"}
  PROVE  /\ GoTo(o, step) \in Operations
         /\ GoTo(o, step).step = step /\ GoTo(o, step).phase = "ready"
         /\ SameTry(GoTo(o, step), o) /\ GoTo(o, step).error = o.error
<1> DEFINE b == o.ready \/ (o.step = "probe" /\ step # "close")
<1>1. b \in BOOLEAN
  BY OpFields
<1>2. GoTo(o, step) = [o EXCEPT !.step = step, !.phase = "ready", !.ready = b]
  BY DEF GoTo
<1> HIDE DEF b
<1>3. /\ [o EXCEPT !.step = step, !.phase = "ready", !.ready = b] \in Operations
  BY <1>1 DEF Operations
<1>4. /\ [o EXCEPT !.step = step, !.phase = "ready", !.ready = b].step = step
      /\ [o EXCEPT !.step = step, !.phase = "ready", !.ready = b].phase = "ready"
      /\ SameTry([o EXCEPT !.step = step, !.phase = "ready", !.ready = b], o)
      /\ [o EXCEPT !.step = step, !.phase = "ready", !.ready = b].error = o.error
  BY <1>1 DEF Operations, SameTry
<1> QED
  BY <1>2, <1>3, <1>4

\* The step after success: forward, then to close, then closed.
LEMMA PassedEffect ==
  ASSUME NEW o \in Operations, o.step \in RoundTrips
  PROVE  /\ Passed(o) \in Operations /\ Passed(o).phase = "ready"
         /\ SameTry(Passed(o), o) /\ Passed(o).error = o.error
         /\ Passed(o).step = IF o.step = "probe" THEN IF o.site = "read" THEN "run" ELSE "begin"
                             ELSE IF o.step = "begin" THEN "run"
                             ELSE IF o.step = "run" /\ o.site # "read" THEN "commit"
                             ELSE IF o.step = "close" THEN "closed"
                             ELSE "close"
<1>1. PICK step \in RoundTrips \cup {"idle", "closed", "ended"} :
        /\ Passed(o) = GoTo(o, step)
        /\ step = IF o.step = "probe" THEN IF o.site = "read" THEN "run" ELSE "begin"
                  ELSE IF o.step = "begin" THEN "run"
                  ELSE IF o.step = "run" /\ o.site # "read" THEN "commit"
                  ELSE IF o.step = "close" THEN "closed"
                  ELSE "close"
  BY DEF Passed, RoundTrips
<1> QED
  BY <1>1, GoToEffect

\* The step after an error.
LEMMA RaisedEffect ==
  ASSUME NEW o \in Operations, o.step \in RoundTrips, NEW error \in Errors
  PROVE  /\ Raised(o, error) \in Operations /\ Raised(o, error).phase = "ready"
         /\ SameTry(Raised(o, error), o)
         /\ Raised(o, error).step =
              IF o.step = "close" THEN "closed" ELSE IF RollsBack(o) THEN "abort" ELSE "close"
         /\ Raised(o, error).error =
              IF o.step = "close" /\ error = "deadline" THEN o.error ELSE error
<1> DEFINE e == IF o.step = "close" /\ error = "deadline" THEN o.error ELSE error
           u == [o EXCEPT !.error = e]
           step == IF o.step = "close" THEN "closed" ELSE IF RollsBack(o) THEN "abort" ELSE "close"
<1>1. e \in Errors
  BY OpFields
<1>2. step \in RoundTrips \cup {"idle", "closed", "ended"}
  BY DEF RoundTrips
<1>3. Raised(o, error) = GoTo(u, step)
  BY DEF Raised
<1>4. u \in Operations /\ u.error = e /\ SameTry(u, o)
  <2> HIDE DEF e
  <2> QED
    BY <1>1 DEF Operations, SameTry
<1> HIDE DEF u, step
<1>5. /\ GoTo(u, step) \in Operations /\ GoTo(u, step).step = step
      /\ GoTo(u, step).phase = "ready" /\ GoTo(u, step).error = u.error
      /\ SameTry(GoTo(u, step), u)
  BY <1>2, <1>4, GoToEffect
<1> QED
  BY <1>3, <1>4, <1>5 DEF step, SameTry

LEMMA ConnectEffect ==
  ASSUME NEW o \in Operations
  PROVE  LET u == Connect(o) IN
         /\ u \in Operations /\ u.step = "probe" /\ u.phase = "ready" /\ u.conn = o.conn + 1
         /\ ~u.poisoned /\ u.error = "none" /\ u.site = o.site /\ u.sql = o.sql
<1> DEFINE c == o.conn + 1
<1>1. c \in Nat
  BY OpFields
<1>2. Connect(o) = [o EXCEPT !.step = "probe", !.phase = "ready", !.conn = c, !.ready = FALSE,
                            !.poisoned = FALSE, !.error = "none"]
  BY DEF Connect
<1> HIDE DEF c
<1>3. "probe" \in RoundTrips /\ "none" \in Errors
  BY DEF RoundTrips, Errors
<1>4. /\ Connect(o).step = "probe" /\ Connect(o).phase = "ready"
      /\ Connect(o).conn = c /\ ~Connect(o).poisoned /\ Connect(o).error = "none"
      /\ Connect(o).site = o.site /\ Connect(o).sql = o.sql
  BY <1>2 DEF Operations
<1>5. Connect(o) \in Operations
  BY <1>1, <1>2, <1>3 DEF Operations
<1> QED
  BY <1>4, <1>5 DEF c

-------------------------------------------------------------------------------
(* One caller moves *)

\* A caller whose operation, calls and counts are as they were.
LEMMA Unmoved ==
  ASSUME NEW q \in Callers, CallerInv(q), op'[q] = op[q],
         \A k : k \in calls' /\ k.by = q <=> k \in calls /\ k.by = q,
         landed'[q] = landed[q], lostAcks'[q] = lostAcks[q]
  PROVE  CallerInv(q)'
<1>1. Current(q)' = Current(q)
  BY DEF Current
<1>2. PendingWrites(q)' = PendingWrites(q)
  BY DEF PendingWrites
<1>3. Exact(q)'
  BY <1>1 DEF Exact, CallerInv
<1>4. OutWaits(q)'
  BY <1>2 DEF OutWaits, CallerInv
<1>5. Out(q)' = Out(q)
  BY <1>2 DEF Out
<1>6. Counted(q)'
  BY <1>5 DEF Counted, CallerInv
<1> QED
  BY <1>3, <1>4, <1>6 DEF CallerInv

LEMMA ProceedEffect ==
  ASSUME RemoteTyped, NEW p \in Callers, NEW o \in Operations, Proceed(p, o)
  PROVE  /\ op' \in [Callers -> Operations] /\ op'[p] = o
         /\ \A q \in Callers \ {p} : op'[q] = op[q]
  BY DEF RemoteTyped, Proceed

\* A write that is out and not waited for is on a poisoned connection, or the
\* operation has ended.
LEMMA OutIsCurrent ==
  ASSUME NEW p \in Callers, CallerInv(p), op[p].site # "inside"
  PROVE  /\ PendingWrites(p) \subseteq Current(p)
         /\ op[p].phase # "waiting" /\ PendingWrites(p) # {} =>
              /\ op[p].poisoned \/ op[p].step = "ended"
              /\ op[p].error = "unknown"
              /\ \/ op[p].step \in {"close", "closed", "ended"}
                 \/ op[p].step = "abort" /\ op[p].site = "scoped"
<1>1. PendingWrites(p) \subseteq Current(p)
  BY DEF CallerInv, OutWaits, PendingWrites, Current
<1> QED
  BY <1>1 DEF CallerInv, OutWaits, Exact

\* A step that only moves the operation.
Moved(p, o) ==
  /\ Shaped(o) /\ o.phase # "waiting" /\ o.step # "idle"
  /\ o.site = op[p].site \/ op[p].step = "idle"
  /\ \/ o.conn = op[p].conn /\ (o.poisoned \/ o.step = "ended" \/ Current(p) = {})
     \/ o.conn = op[p].conn + 1 /\ (o.site # "inside" => PendingWrites(p) = {})
  /\ PendingWrites(p) # {} /\ o.site # "inside" =>
       /\ o.error = "unknown"
       /\ \/ o.step \in {"close", "closed", "ended"}
          \/ o.step = "abort" /\ o.site = "scoped"
  /\ o.site = "guarded" /\ op[p].step # "idle" => Committed(o) \/ ~Committed(op[p])
  /\ o.site = "guarded" /\ o.step \in {"close", "closed", "ended"} /\ o.error = "none" =>
       landed[p] > 0

LEMMA MovedKeeps ==
  ASSUME RemoteInv, NEW p \in Callers, NEW o \in Operations, Proceed(p, o),
         UNCHANGED <<calls, landed, lostAcks>>, Moved(p, o)
  PROVE  RemoteInv'
<1> USE DEF RemoteInv
<1>1. /\ op' \in [Callers -> Operations] /\ op'[p] = o
      /\ \A q \in Callers \ {p} : op'[q] = op[q]
  BY ProceedEffect
<1>2. RemoteTyped'
  BY <1>1 DEF RemoteTyped
<1>3. \A q \in Callers \ {p} : CallerInv(q)'
  BY <1>1, Unmoved
<1>4. CallerInv(p)'
  <2>1. PendingWrites(p)' = PendingWrites(p) /\ Out(p)' = Out(p)
    BY DEF PendingWrites, Out
  <2>2. /\ CallerInv(p) /\ op[p] \in Operations /\ op[p].conn \in Nat /\ o.conn \in Nat
        /\ landed[p] \in Nat /\ lostAcks[p] \in Nat
    BY OpFields DEF RemoteTyped
  <2>3. /\ \A k \in calls : k.by = p => k.conn <= op[p].conn /\ k.conn \in Nat
        /\ \A j, k \in Current(p) : j = k
    BY <2>2 DEF CallerInv, Exact, RemoteTyped
  <2>4. Exact(p)'
    <3>1. CASE o.conn = op[p].conn
      <4>1. Current(p)' = Current(p)
        BY <1>1, <3>1 DEF Current
      <4>2. o.poisoned \/ o.step = "ended" \/ Current(p) = {}
        BY <3>1, <2>2 DEF Moved
      <4> QED
        BY <4>1, <4>2, <1>1, <2>2, <2>3, <3>1 DEF Exact, Moved
    <3>2. CASE o.conn = op[p].conn + 1
      <4>1. Current(p)' = {}
        BY <1>1, <2>2, <2>3, <3>2 DEF Current
      <4>2. \A k \in calls : k.by = p => k.conn <= o.conn
        BY <2>2, <2>3, <3>2
      <4> QED
        BY <4>1, <4>2, <1>1 DEF Exact, Moved
    <3> QED
      BY <3>1, <3>2 DEF Moved
  <2>5. OutWaits(p)'
    <3> SUFFICES ASSUME o.site # "inside", NEW k \in PendingWrites(p)
                 PROVE  /\ k.conn = o.conn /\ o.error = "unknown"
                        /\ \/ o.step \in {"close", "closed", "ended"}
                           \/ o.step = "abort" /\ o.site = "scoped"
      BY <1>1, <2>1 DEF OutWaits
    <3>1. k \in calls /\ k.by = p
      BY DEF PendingWrites
    <3>2. op[p].step # "idle" /\ op[p].site = o.site
      BY <3>1, <2>2 DEF CallerInv, Exact, Moved
    <3>3. k.conn = op[p].conn
      BY <3>2, <2>2 DEF CallerInv, OutWaits
    <3> QED
      BY <3>3, <2>2 DEF Moved
  <2>6. Counted(p)'
    <3>1. CASE op[p].step = "idle"
      <4>1. landed[p] = 0 /\ PendingWrites(p) = {} /\ Out(p) = 0
        BY <3>1, <2>2 DEF CallerInv, Counted, Exact, PendingWrites, Out
      <4> QED
        BY <4>1, <1>1, <2>1, <2>2 DEF Counted, Moved
    <3>2. CASE op[p].step # "idle"
      <4>1. o.site = op[p].site
        BY <3>2 DEF Moved
      <4> QED
        BY <4>1, <3>2, <1>1, <2>1, <2>2 DEF Counted, Moved, CallerInv
    <3> QED
      BY <3>1, <3>2
  <2>7. Shaped(o)
    BY DEF Moved
  <2> QED
    BY <1>1, <2>4, <2>5, <2>6, <2>7 DEF CallerInv
<1> QED
  BY <1>2, <1>3, <1>4

LEMMA Known ==
  ASSUME RemoteInv, NEW p \in Callers
  PROVE  /\ CallerInv(p) /\ Shaped(op[p]) /\ op[p] \in Operations
         /\ op[p].phase # "waiting" /\ ~op[p].poisoned /\ op[p].step # "ended" =>
              Current(p) = {}
         /\ op[p].site # "inside" => PendingWrites(p) \subseteq Current(p)
         /\ op[p].site # "inside" /\ op[p].phase # "waiting" /\ PendingWrites(p) # {} =>
              /\ op[p].poisoned \/ op[p].step = "ended"
              /\ op[p].error = "unknown"
              /\ \/ op[p].step \in {"close", "closed", "ended"}
                 \/ op[p].step = "abort" /\ op[p].site = "scoped"
<1>1. CallerInv(p) /\ op[p] \in Operations
  BY DEF RemoteInv, RemoteTyped
<1> QED
  BY <1>1, OutIsCurrent DEF CallerInv, Exact

\* On a new connection the operation starts once more, with no write out.
LEMMA ConnectKeeps ==
  ASSUME RemoteInv, NEW p \in Callers, NEW u \in Operations, Proceed(p, Connect(u)), Quiet,
         u.conn = op[p].conn,
         op[p].step # "idle" => u.site = op[p].site /\ u.sql = op[p].sql,
         u.site # "read" => u.sql \in Updates,
         \/ op[p].step = "idle"
         \/ op[p].step = "closed" /\ Retryable(op[p].error)
  PROVE  RemoteInv'
<1> DEFINE o == Connect(u)
<1>1. /\ o \in Operations /\ o.step = "probe" /\ o.phase = "ready" /\ o.conn = u.conn + 1
      /\ ~o.poisoned /\ o.error = "none" /\ o.site = u.site /\ o.sql = u.sql
  BY ConnectEffect
<1>2. Proceed(p, o)
  OBVIOUS
<1> HIDE DEF o
<1>3. Shaped(o)
  BY <1>1 DEF Shaped
<1>4. u.site # "inside" => PendingWrites(p) = {}
  <2>1. CASE op[p].step = "idle"
    BY <2>1, Known DEF CallerInv, Exact, PendingWrites
  <2>2. CASE op[p].step = "closed" /\ Retryable(op[p].error)
    <3>1. op[p].phase # "waiting"
      BY <2>2, Known DEF Shaped, RoundTrips
    <3> QED
      BY <2>2, <3>1, Known DEF Retryable
  <2> QED
    BY <2>1, <2>2
<1>5. op[p].step # "idle" => ~Committed(op[p])
  BY DEF Committed
<1>6. Moved(p, o)
  BY <1>1, <1>3, <1>4, <1>5 DEF Moved
<1> QED
  BY <1>1, <1>2, <1>6, MovedKeeps DEF Quiet

LEMMA BeginKeeps ==
  ASSUME RemoteInv, NEW p \in Callers, NEW site \in SitesOf[p], NEW sql \in Statements,
         Begin(p, site, sql)
  PROVE  RemoteInv'
<1>1. site \in {"read", "scoped", "guarded", "inside"}
  BY RemoteAssumption DEF RemoteAssumption
<1> DEFINE u == [op[p] EXCEPT !.site = site, !.sql = sql]
<1>2. op[p] \in Operations
  BY Known
<1>3. u \in Operations /\ u.conn = op[p].conn /\ u.site = site /\ u.sql = sql
  BY <1>1, <1>2 DEF Operations
<1>4. Proceed(p, Connect(u)) /\ Quiet /\ op[p].step = "idle"
        /\ (site # "read" => sql \in Updates)
  BY DEF Begin
<1> HIDE DEF u
<1>5. /\ op[p].step # "idle" => u.site = op[p].site /\ u.sql = op[p].sql
      /\ u.site # "read" => u.sql \in Updates
  BY <1>3, <1>4
<1> QED
  BY <1>3, <1>4, <1>5, ConnectKeeps

LEMMA RebuildKeeps ==
  ASSUME RemoteInv, NEW p \in Callers, Rebuild(p)
  PROVE  RemoteInv'
<1> DEFINE u == [op[p] EXCEPT !.rebuilt = TRUE]
<1>1. op[p] \in Operations /\ Shaped(op[p])
  BY Known
<1>2. u \in Operations /\ u.conn = op[p].conn /\ u.site = op[p].site /\ u.sql = op[p].sql
  BY <1>1 DEF Operations
<1>3. Proceed(p, Connect(u)) /\ Quiet /\ op[p].step = "closed" /\ op[p].error = "fault"
  BY DEF Rebuild, MayRebuild
<1> HIDE DEF u
<1> QED
  BY <1>1, <1>2, <1>3, ConnectKeeps DEF Retryable, Shaped

LEMMA RetryKeeps ==
  ASSUME RemoteInv, NEW p \in Callers, Retry(p)
  PROVE  RemoteInv'
<1> DEFINE tried == op[p].tries + 1
           u == [op[p] EXCEPT !.tries = tried, !.rebuilt = FALSE]
<1>1. op[p] \in Operations /\ Shaped(op[p])
  BY Known
<1>2. tried \in Nat
  BY <1>1, OpFields
<1>3. Proceed(p, Connect(u)) /\ Quiet /\ op[p].step = "closed" /\ Retryable(op[p].error)
  BY DEF Retry, MayRetry
<1> HIDE DEF tried
<1>4. u \in Operations /\ u.conn = op[p].conn /\ u.site = op[p].site /\ u.sql = op[p].sql
  BY <1>1, <1>2 DEF Operations
<1> HIDE DEF u
<1> QED
  BY <1>1, <1>3, <1>4, ConnectKeeps DEF Shaped

LEMMA EndKeeps ==
  ASSUME RemoteInv, NEW p \in Callers, End(p)
  PROVE  RemoteInv'
<1> DEFINE o == [Idle EXCEPT !.step = "ended", !.site = op[p].site,
                             !.conn = op[p].conn, !.error = op[p].error]
<1>1. op[p] \in Operations /\ Shaped(op[p]) /\ CallerInv(p)
  BY Known
<1>2. /\ op[p].site \in {"read", "scoped", "guarded", "inside"} /\ op[p].conn \in Nat
      /\ op[p].error \in Errors
  BY <1>1, OpFields
<1>3. Idle \in Operations
  BY DEF Idle, Operations, NoStatement, Statements, Errors
<1>4. /\ o \in Operations /\ o.step = "ended" /\ o.site = op[p].site /\ o.conn = op[p].conn
      /\ o.error = op[p].error
  BY <1>2, <1>3 DEF Operations
<1>5. o.phase = "ready" /\ ~o.poisoned
  BY DEF Idle
<1>6. Proceed(p, o) /\ Quiet /\ op[p].step = "closed"
  BY DEF End
<1> HIDE DEF o
<1>7. op[p].phase # "waiting"
  BY <1>1, <1>6 DEF Shaped, RoundTrips
<1>8. Shaped(o)
  BY <1>4, <1>5 DEF Shaped, RoundTrips
<1>9. Committed(o) \/ ~Committed(op[p])
  BY <1>4, <1>6 DEF Committed
<1>10. o.site = "guarded" /\ o.error = "none" => landed[p] > 0
  BY <1>1, <1>4, <1>6 DEF CallerInv, Counted
<1>11. Moved(p, o)
  BY <1>4, <1>5, <1>6, <1>7, <1>8, <1>9, <1>10, Known DEF Moved
<1> QED
  BY <1>4, <1>6, <1>11, MovedKeeps DEF Quiet

-------------------------------------------------------------------------------
(* One driver call *)

\* A call that was not made raises, or a poisoned connection passes it by.
LEMMA RaisedUnmade ==
  ASSUME RemoteInv, NEW p \in Callers, op[p].step \in RoundTrips, op[p].phase # "waiting",
         ~op[p].poisoned \/ op[p].step \in {"close", "abort"},
         NEW error \in {"deadline", "other"}, Proceed(p, Raised(op[p], error)),
         op[p].poisoned => op[p].step = "abort" /\ op[p].site # "scoped",
         UNCHANGED <<calls, landed, lostAcks>>
  PROVE  RemoteInv'
<1> DEFINE o == Raised(op[p], error)
<1>1. op[p] \in Operations /\ Shaped(op[p]) /\ CallerInv(p)
  BY Known
<1>2. error \in Errors
  BY DEF Errors
<1>3. /\ o \in Operations /\ o.phase = "ready" /\ SameTry(o, op[p])
      /\ o.step = IF op[p].step = "close" THEN "closed"
                  ELSE IF RollsBack(op[p]) THEN "abort" ELSE "close"
      /\ o.error = IF op[p].step = "close" /\ error = "deadline" THEN op[p].error ELSE error
  BY <1>1, <1>2, RaisedEffect
<1>4. Proceed(p, o)
  OBVIOUS
<1> HIDE DEF o
<1>5. Shaped(o)
  BY <1>1, <1>3 DEF Shaped, SameTry, RollsBack, RoundTrips
<1>6. o.site # "inside" => PendingWrites(p) = {}
  BY <1>3, Known DEF SameTry, RoundTrips
<1>7. op[p].site = "guarded" => Committed(o) \/ ~Committed(op[p])
  BY <1>3, <1>1 DEF Committed, Retryable, RoundTrips
<1>8. o.step \in {"close", "closed", "ended"} /\ o.error = "none" /\ o.site = "guarded" =>
        landed[p] > 0
  BY <1>1, <1>3 DEF CallerInv, Counted, SameTry
<1>9. o.conn = op[p].conn /\ (o.poisoned \/ Current(p) = {})
  BY <1>3, Known DEF SameTry, RoundTrips
<1>10. Moved(p, o)
  BY <1>3, <1>5, <1>6, <1>7, <1>8, <1>9 DEF Moved, SameTry
<1> QED
  BY <1>3, <1>4, <1>10, MovedKeeps

LEMMA RefuseKeeps ==
  ASSUME RemoteInv, NEW p \in Callers, Refuse(p)
  PROVE  RemoteInv'
<1>1. /\ op[p].step \in RoundTrips /\ op[p].phase = "ready" /\ op[p].poisoned
      /\ UNCHANGED <<calls, landed, lostAcks>>
  BY DEF Refuse, Calling, Quiet
<1>2. op[p] \in Operations /\ Shaped(op[p]) /\ CallerInv(p)
  BY Known
<1>3. op[p].step \in {"abort", "close"}
  BY <1>1, <1>2 DEF Shaped, RoundTrips
<1>4. CASE op[p].step = "close" \/ op[p].site = "scoped"
  <2> DEFINE o == Passed(op[p])
  <2>1. Proceed(p, o)
    BY <1>4 DEF Refuse
  <2>2. /\ o \in Operations /\ o.phase = "ready" /\ SameTry(o, op[p])
        /\ o.error = op[p].error
        /\ o.step = IF op[p].step = "close" THEN "closed" ELSE "close"
    BY <1>1, <1>2, <1>3, PassedEffect
  <2> HIDE DEF o
  <2>3. Shaped(o)
    BY <1>2, <1>3, <2>2 DEF Shaped, SameTry
  <2>4. op[p].site = "guarded" => Committed(o) \/ ~Committed(op[p])
    BY <1>1, <1>3, <2>2 DEF Committed
  <2>5. o.step \in {"close", "closed", "ended"} /\ o.error = "none" /\ o.site = "guarded" =>
          landed[p] > 0
    BY <1>2, <1>3, <1>4, <2>2 DEF CallerInv, Counted, SameTry
  <2>6. PendingWrites(p) # {} /\ o.site # "inside" =>
          o.error = "unknown" /\ o.step \in {"close", "closed"}
    BY <1>1, <1>3, <2>2, Known DEF SameTry
  <2>7. Moved(p, o)
    BY <1>1, <2>2, <2>3, <2>4, <2>5, <2>6 DEF Moved, SameTry
  <2> QED
    BY <1>1, <2>1, <2>2, <2>7, MovedKeeps
<1>5. CASE ~(op[p].step = "close" \/ op[p].site = "scoped")
  <2>1. PICK error \in {"deadline", "other"} : Proceed(p, Raised(op[p], error))
    BY <1>5 DEF Refuse
  <2> QED
    BY <1>1, <1>3, <1>5, <2>1, RaisedUnmade
<1> QED
  BY <1>4, <1>5

LEMMA NoCapacityKeeps ==
  ASSUME RemoteInv, NEW p \in Callers, NoCapacity(p)
  PROVE  RemoteInv'
<1>1. PICK error \in {"deadline", "other"} : Proceed(p, Raised(op[p], error))
  BY DEF NoCapacity
<1> QED
  BY <1>1, RaisedUnmade DEF NoCapacity, Calling, Quiet

LEMMA NotStartedKeeps ==
  ASSUME RemoteInv, NEW p \in Callers, NEW error \in {"deadline", "other"}, NotStarted(p, error)
  PROVE  RemoteInv'
<1>1. ~op[p].poisoned
  BY Known DEF NotStarted, Calling, Shaped
<1> QED
  BY <1>1, RaisedUnmade DEF NotStarted, Calling

LEMMA AcquireKeeps ==
  ASSUME RemoteInv, NEW p \in Callers, Acquire(p)
  PROVE  RemoteInv'
<1> DEFINE o == [op[p] EXCEPT !.phase = "held"]
<1>1. op[p] \in Operations /\ Shaped(op[p]) /\ CallerInv(p)
  BY Known
<1>2. /\ o \in Operations /\ o.phase = "held" /\ SameTry(o, op[p]) /\ o.error = op[p].error
      /\ o.step = op[p].step
  BY <1>1 DEF Operations, SameTry
<1>3. /\ Proceed(p, o) /\ op[p].step \in RoundTrips /\ op[p].phase = "ready"
      /\ ~op[p].poisoned /\ UNCHANGED <<calls, landed, lostAcks>>
  BY DEF Acquire, Calling
<1> HIDE DEF o
<1>4. Shaped(o)
  BY <1>1, <1>2, <1>3 DEF Shaped, SameTry
<1>5. Current(p) = {} /\ (o.site # "inside" => PendingWrites(p) = {})
  BY <1>2, <1>3, Known DEF SameTry, RoundTrips
<1>6. Committed(o) \/ ~Committed(op[p])
  BY <1>2, <1>3 DEF Committed
<1>7. o.step \in {"close", "closed", "ended"} /\ o.error = "none" /\ o.site = "guarded" =>
        landed[p] > 0
  BY <1>1, <1>2 DEF CallerInv, Counted, SameTry
<1>8. Moved(p, o)
  BY <1>2, <1>3, <1>4, <1>5, <1>6, <1>7 DEF Moved, SameTry, RoundTrips
<1> QED
  BY <1>2, <1>3, <1>8, MovedKeeps

\* While a caller waits for a call whose effect is a write, that is the write
\* that is out, and no other.
LEMMA Waiting ==
  ASSUME RemoteInv, NEW p \in Callers, op[p].phase = "waiting"
  PROVE  /\ op[p].step \in RoundTrips /\ ~op[p].poisoned
         /\ \E k \in Current(p) :
              Current(p) = {k} /\ k.step = op[p].step /\ k.lands = Lands(op[p])
         /\ op[p].site # "inside" /\ ~Lands(op[p]) => PendingWrites(p) = {}
<1>1. Shaped(op[p]) /\ CallerInv(p)
  BY Known
<1>2. PICK k \in Current(p) :
        Current(p) = {k} /\ k.step = op[p].step /\ k.lands = Lands(op[p])
  BY <1>1 DEF CallerInv, Exact
<1>3. op[p].site # "inside" /\ ~Lands(op[p]) => PendingWrites(p) = {}
  <2> SUFFICES ASSUME op[p].site # "inside", ~Lands(op[p]), NEW j \in PendingWrites(p)
               PROVE  FALSE
    OBVIOUS
  <2>1. j \in Current(p) /\ j.lands
    BY Known DEF PendingWrites
  <2> QED
    BY <2>1, <1>2
<1> QED
  BY <1>1, <1>2, <1>3 DEF Shaped

LEMMA TimeOutKeeps ==
  ASSUME RemoteInv, NEW p \in Callers, TimeOut(p)
  PROVE  RemoteInv'
<1> DEFINE u == [op[p] EXCEPT !.poisoned = TRUE]
           error == DeadlineError(op[p])
           o == Raised(u, error)
<1>1. op[p] \in Operations /\ Shaped(op[p]) /\ CallerInv(p)
  BY Known
<1>2. /\ op[p].step \in RoundTrips /\ op[p].phase = "waiting"
      /\ Proceed(p, o) /\ UNCHANGED <<calls, landed, lostAcks>>
  BY DEF TimeOut, Calling, Quiet
<1>3. /\ u \in Operations /\ u.poisoned /\ u.step = op[p].step /\ u.site = op[p].site
      /\ u.conn = op[p].conn /\ u.sql = op[p].sql /\ u.error = op[p].error
  BY <1>1 DEF Operations
<1>4. error \in {"unknown", "deadline"} /\ error \in Errors
  BY DEF DeadlineError, Errors
<1>5. RollsBack(u) = RollsBack(op[p])
  BY <1>3 DEF RollsBack
<1>6. op[p].step = "commit" => error = "unknown"
  BY DEF DeadlineError, MayMutate
<1>7. op[p].step = "run" /\ op[p].site # "read" => error = "unknown"
  <2>1. op[p].step = "run" /\ op[p].site # "read" => op[p].sql \in Writing
    BY <1>1, RemoteAssumption DEF Shaped, RemoteAssumption
  <2> QED
    BY <2>1 DEF Writing, DeadlineError, MayMutate, SqlMayMutate
<1>8. op[p].step \notin {"commit", "run"} => error = "deadline"
  BY DEF DeadlineError, MayMutate
<1> HIDE DEF u, error
<1>9. /\ o \in Operations /\ o.phase = "ready" /\ SameTry(o, u)
      /\ o.step = IF u.step = "close" THEN "closed" ELSE IF RollsBack(u) THEN "abort" ELSE "close"
      /\ o.error = IF u.step = "close" /\ error = "deadline" THEN u.error ELSE error
  BY <1>2, <1>3, <1>4, RaisedEffect
<1> HIDE DEF o
<1>10. Shaped(o)
  BY <1>1, <1>2, <1>3, <1>4, <1>5, <1>9 DEF Shaped, SameTry, RollsBack, RoundTrips
<1>11. ASSUME PendingWrites(p) # {}, o.site # "inside"
       PROVE  /\ o.error = "unknown"
              /\ \/ o.step \in {"close", "closed", "ended"}
                 \/ o.step = "abort" /\ o.site = "scoped"
  <2>1. Lands(op[p]) /\ o.site = op[p].site
    BY <1>2, <1>3, <1>9, <1>11, Waiting DEF SameTry
  <2>2. CASE op[p].site = "scoped" /\ op[p].step = "run"
    BY <2>1, <2>2, <1>3, <1>5, <1>7, <1>9 DEF RollsBack
  <2>3. CASE op[p].site = "guarded" /\ op[p].step = "commit"
    BY <2>1, <2>3, <1>3, <1>5, <1>6, <1>9 DEF RollsBack
  <2> QED
    BY <2>1, <2>2, <2>3, <1>11 DEF Lands
<1>12. op[p].site = "guarded" => Committed(o) \/ ~Committed(op[p])
  <2>1. CASE op[p].step = "commit"
    BY <2>1, <1>3, <1>5, <1>6, <1>9 DEF Committed, RollsBack, Retryable
  <2>2. CASE op[p].step = "close"
    <3>1. o.step = "closed" /\ o.error = op[p].error
      BY <2>2, <1>3, <1>8, <1>9
    <3> QED
      BY <3>1, <2>2 DEF Committed
  <2>3. CASE op[p].step \notin {"commit", "close"}
    BY <2>3, <1>2 DEF Committed, RoundTrips
  <2> QED
    BY <2>1, <2>2, <2>3
<1>13. o.step \in {"close", "closed", "ended"} /\ o.error = "none" /\ o.site = "guarded" =>
         landed[p] > 0
  BY <1>1, <1>3, <1>4, <1>9 DEF CallerInv, Counted, SameTry
<1>14. Moved(p, o)
  BY <1>3, <1>9, <1>10, <1>11, <1>12, <1>13 DEF Moved, SameTry
<1> QED
  BY <1>2, <1>9, <1>14, MovedKeeps

LEMMA StartKeeps ==
  ASSUME RemoteInv, NEW p \in Callers, Start(p)
  PROVE  RemoteInv'
<1> DEFINE o == [op[p] EXCEPT !.phase = "waiting"]
           k == [by |-> p, conn |-> op[p].conn, step |-> op[p].step, lands |-> Lands(op[p])]
<1>1. op[p] \in Operations /\ Shaped(op[p]) /\ CallerInv(p)
  BY Known
<1>2. /\ o \in Operations /\ o.phase = "waiting" /\ SameTry(o, op[p]) /\ o.error = op[p].error
      /\ o.step = op[p].step
  BY <1>1 DEF Operations, SameTry
<1>3. /\ Proceed(p, o) /\ op[p].step \in RoundTrips /\ op[p].phase = "held"
      /\ calls' = calls \cup {k} /\ UNCHANGED <<landed, lostAcks>>
  BY DEF Start, Calling
<1>4. /\ k \in [by : Callers, conn : Nat, step : RoundTrips, lands : BOOLEAN]
      /\ k.by = p /\ k.conn = op[p].conn /\ k.step = op[p].step /\ k.lands = Lands(op[p])
  BY <1>1, <1>3, OpFields DEF Lands
<1> HIDE DEF o, k
<1>5. ~op[p].poisoned
  BY <1>1, <1>3 DEF Shaped
<1>6. Current(p) = {}
  BY <1>1, <1>3, <1>5, Known DEF RoundTrips
<1>7. op[p].site # "inside" => PendingWrites(p) = {}
  BY <1>6, Known
<1>8. /\ op' \in [Callers -> Operations] /\ op'[p] = o
      /\ \A q \in Callers \ {p} : op'[q] = op[q]
  BY <1>2, <1>3, ProceedEffect DEF RemoteInv
<1>9. RemoteTyped'
  BY <1>3, <1>4, <1>8 DEF RemoteInv, RemoteTyped
<1>10. \A q \in Callers \ {p} : CallerInv(q)'
  BY <1>3, <1>4, <1>8, Unmoved DEF RemoteInv
<1>11. CallerInv(p)'
  <2>1. Lands(o) = Lands(op[p])
    BY <1>2 DEF Lands, SameTry
  <2>2. Current(p)' = {k}
    BY <1>2, <1>3, <1>4, <1>6, <1>8 DEF Current, SameTry
  <2>3. Exact(p)'
    <3>1. \A j \in calls' : j.by = p => j.conn <= o.conn
      BY <1>1, <1>2, <1>3, <1>4, OpFields DEF CallerInv, Exact, SameTry
    <3>2. o.step # "idle"
      BY <1>2, <1>3 DEF RoundTrips
    <3> QED
      BY <3>1, <3>2, <2>1, <2>2, <1>2, <1>4, <1>8 DEF Exact
  <2>4. OutWaits(p)'
    BY <1>2, <1>3, <1>4, <1>7, <1>8 DEF OutWaits, PendingWrites, SameTry
  <2>5. Counted(p)'
    <3> SUFFICES ASSUME o.site = "guarded"
                 PROVE  /\ landed[p] + Out(p)' <= lostAcks[p] + 1
                        /\ ~Committed(o) => landed[p] + Out(p)' <= lostAcks[p]
                        /\ o.step \in {"close", "closed", "ended"} /\ o.error = "none" =>
                             landed[p] > 0
      BY <1>2, <1>3, <1>8 DEF Counted, RoundTrips
    <3>1. op[p].site = "guarded" /\ landed[p] \in Nat /\ lostAcks[p] \in Nat
      BY <1>2 DEF SameTry, RemoteInv, RemoteTyped
    <3>2. Out(p) = 0
      BY <3>1, <1>7 DEF Out
    <3>3. Out(p)' = IF op[p].step = "commit" THEN 1 ELSE 0
      BY <3>1, <1>3, <1>4, <1>7 DEF Out, PendingWrites, Lands
    <3>4. CASE op[p].step = "commit"
      <4>1. ~Committed(op[p]) /\ Committed(o)
        BY <3>4, <1>2, <1>3 DEF Committed
      <4> QED
        BY <4>1, <3>1, <3>2, <3>3, <3>4, <1>1, <1>2 DEF CallerInv, Counted
    <3>5. CASE op[p].step # "commit"
      <4>1. Committed(o) = Committed(op[p])
        BY <3>5, <1>2, <1>3 DEF Committed
      <4> QED
        BY <4>1, <3>1, <3>2, <3>3, <3>5, <1>1, <1>2 DEF CallerInv, Counted
    <3> QED
      BY <3>4, <3>5
  <2>6. Shaped(o)
    BY <1>1, <1>2, <1>3, <1>5 DEF Shaped, SameTry
  <2> QED
    BY <2>3, <2>4, <2>5, <2>6, <1>8 DEF CallerInv
<1> QED
  BY <1>9, <1>10, <1>11 DEF RemoteInv

\* The call that poisoned a connection, or one of an older try, ends late.
LEMMA LateKeeps ==
  ASSUME RemoteInv, NEW k \in calls, NEW answer \in {"ok", "fault", "other"},
         NEW lost \in BOOLEAN, Answer(k, answer, lost), ~Awaited(k)
  PROVE  RemoteInv'
<1> DEFINE p == k.by
           lands == k.lands /\ (answer = "ok" \/ lost)
<1>1. p \in Callers /\ k.lands \in BOOLEAN
  BY DEF RemoteInv, RemoteTyped
<1>2. /\ op' = op /\ calls' = calls \ {k} /\ (lost => k.lands)
      /\ landed' = [landed EXCEPT ![p] = IF lands THEN @ + 1 ELSE @]
      /\ lostAcks' = [lostAcks EXCEPT ![p] = IF lost THEN @ + 1 ELSE @]
  BY DEF Answer
<1>3. /\ landed \in [Callers -> Nat] /\ lostAcks \in [Callers -> Nat]
  BY DEF RemoteInv, RemoteTyped
<1>4. /\ landed' \in [Callers -> Nat] /\ lostAcks' \in [Callers -> Nat]
      /\ landed'[p] = IF lands THEN landed[p] + 1 ELSE landed[p]
      /\ lostAcks'[p] = IF lost THEN lostAcks[p] + 1 ELSE lostAcks[p]
      /\ \A q \in Callers \ {p} : landed'[q] = landed[q] /\ lostAcks'[q] = lostAcks[q]
  BY <1>1, <1>2, <1>3
<1>5. RemoteTyped'
  BY <1>2, <1>4 DEF RemoteInv, RemoteTyped
<1>6. \A q \in Callers \ {p} : CallerInv(q)'
  BY <1>2, <1>4, Unmoved DEF RemoteInv
<1>7. CallerInv(p) /\ Shaped(op[p])
  BY <1>1, Known
<1>8. CallerInv(p)'
  <2>1. Current(p)' = Current(p) \ {k}
    BY <1>2 DEF Current
  <2>2. op[p].phase = "waiting" => k \notin Current(p)
    BY DEF Awaited, Current
  <2>3. Exact(p)'
    <3>1. op[p].phase = "waiting" => Current(p)' = Current(p)
      BY <2>1, <2>2
    <3> QED
      BY <3>1, <2>1, <1>2, <1>7 DEF CallerInv, Exact
  <2>4. PendingWrites(p)' = PendingWrites(p) \ {k}
    BY <1>2 DEF PendingWrites
  <2>5. OutWaits(p)'
    BY <2>4, <1>2, <1>7 DEF CallerInv, OutWaits
  <2>6. Counted(p)'
    <3>1. op[p].step = "idle" => landed'[p] = 0
      BY <1>7 DEF CallerInv, Exact
    <3>2. ASSUME op[p].site = "guarded"
          PROVE  landed'[p] + Out(p)' <= landed[p] + Out(p) + (lostAcks'[p] - lostAcks[p])
                   /\ landed'[p] >= landed[p]
      <4>1. CASE k.lands
        <5>1. k \in PendingWrites(p)
          BY <4>1 DEF PendingWrites
        <5>2. PendingWrites(p) = {k}
          BY <5>1, <3>2, <1>1, <1>7, Known DEF CallerInv, Exact
        <5>3. Out(p) = 1 /\ Out(p)' = 0
          BY <5>2, <2>4 DEF Out
        <5> QED
          BY <5>3, <1>1, <1>3, <1>4
      <4>2. CASE ~k.lands
        <5>1. PendingWrites(p)' = PendingWrites(p)
          BY <4>2, <2>4 DEF PendingWrites
        <5>2. Out(p)' = Out(p) /\ landed'[p] = landed[p] /\ lostAcks'[p] = lostAcks[p]
          BY <5>1, <4>2, <1>2, <1>4 DEF Out
        <5>3. Out(p) \in Nat
          BY DEF Out
        <5> QED
          BY <5>2, <5>3, <1>1, <1>3
      <4> QED
        BY <4>1, <4>2, <1>1
    <3>3. Out(p) \in Nat /\ Out(p)' \in Nat /\ landed[p] \in Nat /\ landed'[p] \in Nat
            /\ lostAcks[p] \in Nat /\ lostAcks'[p] \in Nat
      BY <1>1, <1>3, <1>4 DEF Out
    <3> QED
      BY <3>1, <3>2, <3>3, <1>2, <1>7 DEF CallerInv, Counted
  <2> QED
    BY <2>3, <2>5, <2>6, <1>2, <1>7 DEF CallerInv
<1> QED
  BY <1>5, <1>6, <1>8 DEF RemoteInv

\* How the step after an answer looks, whatever was answered.
LEMMA AnsweredEffect ==
  ASSUME RemoteInv, NEW p \in Callers, op[p].phase = "waiting",
         NEW answer \in {"ok", "fault", "other"}, op[p].step = "close" => answer = "ok"
  PROVE  LET o == Answered(op[p], answer) IN
         /\ o \in Operations /\ Shaped(o) /\ SameTry(o, op[p]) /\ o.phase = "ready"
         /\ o.step # "idle" /\ o.step # "ended"
         /\ op[p].step = "commit" /\ op[p].site = "guarded" =>
              /\ o.step = "close"
              /\ o.error = IF answer = "ok" THEN "none" ELSE answer
         /\ op[p].step = "close" => o.step = "closed" /\ o.error = op[p].error
         /\ op[p].step \in {"probe", "begin", "run", "abort"} /\ op[p].site = "guarded"
            /\ o.step \in {"close", "closed", "ended"} => o.error # "none"
<1> DEFINE o == Answered(op[p], answer)
<1>1. op[p] \in Operations /\ Shaped(op[p]) /\ op[p].step \in RoundTrips
  BY Known, Waiting
<1>2. CASE answer = "ok"
  <2>1. o = Passed(op[p])
    BY <1>2 DEF Answered
  <2>2. /\ Passed(op[p]) \in Operations /\ Passed(op[p]).phase = "ready"
        /\ SameTry(Passed(op[p]), op[p]) /\ Passed(op[p]).error = op[p].error
        /\ Passed(op[p]).step =
             IF op[p].step = "probe" THEN IF op[p].site = "read" THEN "run" ELSE "begin"
             ELSE IF op[p].step = "begin" THEN "run"
             ELSE IF op[p].step = "run" /\ op[p].site # "read" THEN "commit"
             ELSE IF op[p].step = "close" THEN "closed"
             ELSE "close"
    BY <1>1, PassedEffect
  <2> HIDE DEF o
  <2>3. Shaped(o)
    BY <1>1, <2>1, <2>2 DEF Shaped, SameTry, RoundTrips
  <2> QED
    BY <1>1, <1>2, <2>1, <2>2, <2>3 DEF Shaped, RoundTrips, o
<1>3. CASE answer \in {"fault", "other"}
  <2>1. o = Raised(op[p], answer) /\ answer \in Errors /\ op[p].step # "close"
    BY <1>3 DEF Answered, Errors
  <2>2. /\ Raised(op[p], answer) \in Operations /\ Raised(op[p], answer).phase = "ready"
        /\ SameTry(Raised(op[p], answer), op[p])
        /\ Raised(op[p], answer).step = IF RollsBack(op[p]) THEN "abort" ELSE "close"
        /\ Raised(op[p], answer).error = answer
    BY <1>1, <2>1, RaisedEffect
  <2>3. op[p].step = "commit" /\ op[p].site = "guarded" => ~RollsBack(op[p])
    BY DEF RollsBack
  <2> HIDE DEF o
  <2>4. Shaped(o)
    BY <1>1, <1>3, <2>1, <2>2 DEF Shaped, SameTry, RoundTrips
  <2> QED
    BY <1>1, <1>3, <2>1, <2>2, <2>3, <2>4 DEF o
<1> QED
  BY <1>2, <1>3

\* The call a caller waits for returns, raises, or raises after its effect.
LEMMA AwaitedKeeps ==
  ASSUME RemoteInv, NEW k \in calls, NEW answer \in {"ok", "fault", "other"},
         NEW lost \in BOOLEAN, Answer(k, answer, lost), Awaited(k)
  PROVE  RemoteInv'
<1> DEFINE p == k.by
           o == Answered(op[p], answer)
           lands == k.lands /\ (answer = "ok" \/ lost)
<1>1. p \in Callers /\ k.lands \in BOOLEAN /\ k.step \in RoundTrips /\ k.conn \in Nat
  BY DEF RemoteInv, RemoteTyped
<1>2. /\ calls' = calls \ {k} /\ (lost => k.lands /\ answer = "fault")
      /\ landed' = [landed EXCEPT ![p] = IF lands THEN @ + 1 ELSE @]
      /\ lostAcks' = [lostAcks EXCEPT ![p] = IF lost THEN @ + 1 ELSE @]
      /\ Proceed(p, o) /\ (k.step = "close" => answer = "ok")
  BY DEF Answer, Proceed
<1>3. landed \in [Callers -> Nat] /\ lostAcks \in [Callers -> Nat]
  BY DEF RemoteInv, RemoteTyped
<1>4. /\ landed' \in [Callers -> Nat] /\ lostAcks' \in [Callers -> Nat]
      /\ landed'[p] = IF lands THEN landed[p] + 1 ELSE landed[p]
      /\ lostAcks'[p] = IF lost THEN lostAcks[p] + 1 ELSE lostAcks[p]
      /\ \A q \in Callers \ {p} : landed'[q] = landed[q] /\ lostAcks'[q] = lostAcks[q]
  BY <1>1, <1>2, <1>3
<1>5. op[p].phase = "waiting" /\ k.conn = op[p].conn
  BY DEF Awaited
<1>6. /\ op[p] \in Operations /\ CallerInv(p) /\ Shaped(op[p])
      /\ op[p].step \in RoundTrips /\ ~op[p].poisoned
  BY <1>1, <1>5, Known, Waiting
<1>7. Current(p) = {k} /\ k.step = op[p].step /\ k.lands = Lands(op[p])
  <2>1. k \in Current(p)
    BY <1>5 DEF Current
  <2> QED
    BY <2>1, <1>1, <1>5, Waiting
<1>8. /\ o \in Operations /\ Shaped(o) /\ SameTry(o, op[p]) /\ o.phase = "ready"
      /\ o.step # "idle" /\ o.step # "ended"
      /\ op[p].step = "commit" /\ op[p].site = "guarded" =>
           /\ o.step = "close"
           /\ o.error = IF answer = "ok" THEN "none" ELSE answer
      /\ op[p].step = "close" => o.step = "closed" /\ o.error = op[p].error
      /\ op[p].step \in {"probe", "begin", "run", "abort"} /\ op[p].site = "guarded"
         /\ o.step \in {"close", "closed", "ended"} => o.error # "none"
  BY <1>1, <1>2, <1>5, <1>7, AnsweredEffect
<1> HIDE DEF o, lands
<1>9. /\ op' \in [Callers -> Operations] /\ op'[p] = o
      /\ \A q \in Callers \ {p} : op'[q] = op[q]
  BY <1>1, <1>2, <1>8, ProceedEffect DEF RemoteInv
<1>10. RemoteTyped'
  BY <1>2, <1>4, <1>9 DEF RemoteInv, RemoteTyped
<1>11. \A q \in Callers \ {p} : CallerInv(q)'
  BY <1>2, <1>4, <1>9, Unmoved DEF RemoteInv
<1>12. Current(p)' = {}
  BY <1>2, <1>7, <1>8, <1>9 DEF Current, SameTry
<1>13. o.site # "inside" => PendingWrites(p) \subseteq {k} /\ PendingWrites(p)' = {}
  <2>1. op[p].site # "inside" => PendingWrites(p) \subseteq {k}
    BY <1>1, <1>7, Known
  <2> QED
    BY <2>1, <1>2, <1>8 DEF SameTry, PendingWrites
<1>14. Exact(p)'
  BY <1>2, <1>6, <1>8, <1>9, <1>12 DEF CallerInv, Exact, SameTry
<1>15. OutWaits(p)'
  BY <1>9, <1>13 DEF OutWaits
<1>16. Counted(p)'
  <2> SUFFICES ASSUME o.site = "guarded"
               PROVE  /\ landed'[p] <= lostAcks'[p] + 1
                      /\ ~Committed(o) => landed'[p] <= lostAcks'[p]
                      /\ o.step \in {"close", "closed", "ended"} /\ o.error = "none" =>
                           landed'[p] > 0
    <3>1. o.site = "guarded" => Out(p)' = 0
      BY <1>13 DEF Out
    <3>2. landed'[p] \in Nat
      BY <1>1, <1>4
    <3> QED
      BY <3>1, <3>2, <1>8, <1>9 DEF Counted
  <2>1. op[p].site = "guarded" /\ landed[p] \in Nat /\ lostAcks[p] \in Nat
    BY <1>1, <1>3, <1>8 DEF SameTry
  <2>2. Out(p) = IF k.lands THEN 1 ELSE 0
    BY <1>7, <1>8, <2>1, <1>13 DEF Out, PendingWrites, SameTry
  <2>3. CASE op[p].step = "commit"
    <3>1. k.lands
      BY <2>1, <2>3, <1>7 DEF Lands
    <3>2. landed[p] <= lostAcks[p]
      BY <3>1, <2>1, <2>2, <1>6 DEF CallerInv, Counted
    <3>3. CASE answer = "ok"
      <4>1. ~lost /\ lands
        BY <3>1, <3>3, <1>2 DEF lands
      <4>2. landed'[p] = landed[p] + 1 /\ lostAcks'[p] = lostAcks[p]
        BY <4>1, <1>4
      <4>3. Committed(o)
        BY <3>3, <2>1, <2>3, <1>8 DEF Committed, Retryable
      <4> QED
        BY <4>2, <4>3, <3>2, <2>1
    <3>4. CASE answer # "ok"
      <4>1. lands = lost /\ o.error # "none"
        BY <3>1, <3>4, <2>1, <2>3, <1>8 DEF lands
      <4>2. landed'[p] <= lostAcks'[p]
        BY <4>1, <3>2, <2>1, <1>4
      <4> QED
        BY <4>1, <4>2, <2>1, <1>1, <1>4
    <3> QED
      BY <3>3, <3>4
  <2>4. CASE op[p].step # "commit"
    <3>1. ~k.lands
      BY <2>1, <2>4, <1>7 DEF Lands
    <3>2. landed'[p] = landed[p] /\ lostAcks'[p] = lostAcks[p] /\ Out(p) = 0
      BY <3>1, <2>2, <1>2, <1>4 DEF lands
    <3>3. CASE op[p].step = "close"
      <4>1. Committed(o) = Committed(op[p])
        BY <3>3, <1>8 DEF Committed
      <4> QED
        BY <4>1, <3>2, <3>3, <2>1, <1>6, <1>8 DEF CallerInv, Counted
    <3>4. CASE op[p].step # "close"
      <4>1. op[p].step \in {"probe", "begin", "run", "abort"}
        BY <3>4, <2>4, <1>6 DEF RoundTrips
      <4>2. ~Committed(op[p])
        BY <4>1 DEF Committed
      <4>3. landed[p] <= lostAcks[p]
        BY <4>2, <3>2, <2>1, <1>6 DEF CallerInv, Counted
      <4> QED
        BY <4>1, <4>3, <3>2, <2>1, <1>8
    <3> QED
      BY <3>3, <3>4
  <2> QED
    BY <2>3, <2>4
<1> QED
  BY <1>8, <1>9, <1>10, <1>11, <1>14, <1>15, <1>16 DEF RemoteInv, CallerInv

-------------------------------------------------------------------------------
(* Every step *)

LEMMA RemoteStarts ==
  ASSUME RemoteInit
  PROVE  RemoteInv
<1>1. Idle \in Operations
  BY DEF Idle, Operations, NoStatement, Statements, Errors
<1>2. /\ Idle.site = "read" /\ Idle.step = "idle" /\ Idle.phase = "ready" /\ ~Idle.poisoned
      /\ Idle.error = "none"
  BY DEF Idle
<1>3. RemoteTyped
  BY <1>1 DEF RemoteInit, RemoteTyped
<1>4. \A p \in Callers : CallerInv(p)
  <2> TAKE p \in Callers
  <2>1. op[p] = Idle /\ calls = {} /\ landed[p] = 0
    BY DEF RemoteInit
  <2>2. Shaped(op[p])
    BY <2>1, <1>2 DEF Shaped
  <2>3. Exact(p)
    BY <2>1, <1>2 DEF Exact, Current
  <2>4. OutWaits(p)
    BY <2>1 DEF OutWaits, PendingWrites
  <2>5. Counted(p)
    BY <2>1, <1>2 DEF Counted
  <2> QED
    BY <2>2, <2>3, <2>4, <2>5 DEF CallerInv
<1> QED
  BY <1>3, <1>4 DEF RemoteInv

LEMMA CallStepKeeps ==
  ASSUME RemoteInv, NEW p \in Callers, CallStep(p)
  PROVE  RemoteInv'
<1>1. CASE NotStarted(p, "deadline")
  <2>1. PICK error \in {"deadline", "other"} : NotStarted(p, error)
    BY <1>1
  <2> QED
    BY <2>1, NotStartedKeeps
<1>2. CASE NotStarted(p, "other")
  <2>1. PICK error \in {"deadline", "other"} : NotStarted(p, error)
    BY <1>2
  <2> QED
    BY <2>1, NotStartedKeeps
<1> QED
  BY <1>1, <1>2, RefuseKeeps, AcquireKeeps, NoCapacityKeeps, StartKeeps, TimeOutKeeps,
     RebuildKeeps, RetryKeeps, EndKeeps DEF CallStep

LEMMA RemoteKeeps ==
  ASSUME RemoteInv, Remote
  PROVE  RemoteInv'
<1>1. PICK k \in calls, answer \in {"ok", "fault", "other"}, lost \in BOOLEAN :
        Answer(k, answer, lost)
  BY DEF Remote
<1> QED
  BY <1>1, AwaitedKeeps, LateKeeps

LEMMA RemoteStutters ==
  ASSUME RemoteInv, UNCHANGED remoteVars
  PROVE  RemoteInv'
<1>1. op' = op /\ calls' = calls /\ landed' = landed /\ lostAcks' = lostAcks
  BY DEF remoteVars
<1>2. RemoteTyped'
  BY <1>1 DEF RemoteInv, RemoteTyped
<1>3. \A q \in Callers : CallerInv(q)'
  BY <1>1, Unmoved DEF RemoteInv
<1> QED
  BY <1>2, <1>3 DEF RemoteInv

-------------------------------------------------------------------------------
(* What it means for a guarded operation *)

LEMMA PendingCounts ==
  ASSUME RemoteInv, NEW p \in Callers, op[p].site = "guarded"
  PROVE  Cardinality(PendingWrites(p)) = Out(p)
<1>1. PendingWrites(p) \subseteq Current(p) /\ (\A j, k \in Current(p) : j = k)
  BY Known DEF CallerInv, Exact
<1>2. CASE PendingWrites(p) = {}
  BY <1>2, FS_EmptySet DEF Out
<1>3. CASE PendingWrites(p) # {}
  <2>1. PICK k \in PendingWrites(p) : TRUE
    BY <1>3
  <2>2. PendingWrites(p) = {k}
    BY <2>1, <1>1
  <2>3. Cardinality({k}) = 1
    BY FS_Singleton
  <2> QED
    BY <2>2, <2>3, <1>3 DEF Out
<1> QED
  BY <1>2, <1>3

LEMMA RemoteMeans ==
  ASSUME RemoteInv
  PROVE  WritesLandOnce /\ OutcomeHonest
<1>1. WritesLandOnce
  <2> SUFFICES ASSUME NEW p \in Callers, op[p].site = "guarded"
               PROVE  landed[p] + Cardinality(PendingWrites(p)) <= 1 + lostAcks[p]
    BY DEF WritesLandOnce
  <2>1. landed[p] + Out(p) <= lostAcks[p] + 1
    BY Known DEF CallerInv, Counted
  <2>2. landed[p] \in Nat /\ lostAcks[p] \in Nat /\ Out(p) \in Nat
    BY DEF RemoteInv, RemoteTyped, Out
  <2>3. Cardinality(PendingWrites(p)) = Out(p)
    BY PendingCounts
  <2> QED
    BY <2>1, <2>2, <2>3
<1>2. OutcomeHonest
  <2> SUFFICES ASSUME NEW p \in Callers
               PROVE  /\ op[p].site = "guarded" /\ op[p].step = "ended" =>
                           /\ op[p].error = "none" => landed[p] > 0
                           /\ Retryable(op[p].error) =>
                                landed[p] + Cardinality(PendingWrites(p)) <= lostAcks[p]
                      /\ op[p].site # "inside" =>
                           \A k \in PendingWrites(p) : k.conn = op[p].conn
    BY DEF OutcomeHonest
  <2>1. CallerInv(p)
    BY Known
  <2>2. op[p].site # "inside" => \A k \in PendingWrites(p) : k.conn = op[p].conn
    BY <2>1 DEF CallerInv, OutWaits
  <2>3. ASSUME op[p].site = "guarded", op[p].step = "ended", Retryable(op[p].error)
        PROVE  landed[p] + Cardinality(PendingWrites(p)) <= lostAcks[p]
    <3>1. ~Committed(op[p])
      BY <2>3 DEF Committed
    <3> QED
      BY <3>1, <2>1, <2>3, PendingCounts DEF CallerInv, Counted
  <2>4. op[p].site = "guarded" /\ op[p].step = "ended" /\ op[p].error = "none" =>
          landed[p] > 0
    BY <2>1 DEF CallerInv, Counted
  <2> QED
    BY <2>2, <2>3, <2>4
<1> QED
  BY <1>1, <1>2

-------------------------------------------------------------------------------
(* Entries of the cache *)

\* A cache each of whose entries is live, one for a database.
Good(c) ==
  /\ c \in Seq(Entry)
  /\ \A i \in 1 .. Len(c) : Live(c[i].db, c[i].token, c[i].at)
  /\ \A i, j \in 1 .. Len(c) : c[i].db = c[j].db => i = j

LEMMA CacheIsGood ==
  ASSUME TokenInv
  PROVE  Good(cache) /\ DOMAIN cache = 1 .. Len(cache)
  BY DEF TokenInv, TokenTyped, CacheLive, Good

LEMMA WithoutIsGood ==
  ASSUME TokenInv, NEW d
  PROVE  /\ Good(Without(d))
         /\ \A i \in 1 .. Len(Without(d)) : Without(d)[i].db # d
         /\ \A i \in 1 .. Len(Without(d)) : \E j \in 1 .. Len(cache) : Without(d)[i] = cache[j]
<1>1. Good(cache) /\ DOMAIN cache = 1 .. Len(cache)
  BY CacheIsGood
<1>2. Entries(d) = {i \in 1 .. Len(cache) : cache[i].db = d}
  BY <1>1 DEF Entries
<1>3. CASE Entries(d) = {}
  BY <1>1, <1>2, <1>3 DEF Without
<1>4. CASE Entries(d) # {}
  <2> DEFINE i == CHOOSE i \in Entries(d) : TRUE
             n == Len(cache) - 1
             c == [j \in 1 .. n |-> IF j < i THEN cache[j] ELSE cache[j + 1]]
             from(j) == IF j < i THEN j ELSE j + 1
  <2>1. i \in Entries(d)
    BY <1>4
  <2>2. i \in 1 .. Len(cache) /\ cache[i].db = d /\ Len(cache) \in Nat /\ n \in Nat
    BY <2>1, <1>1, <1>2 DEF Good
  <2>3. Without(d) = c
    BY <1>4 DEF Without
  <2> HIDE DEF i
  <2>4. \A j \in 1 .. n : from(j) \in 1 .. Len(cache) /\ from(j) # i /\ c[j] = cache[from(j)]
    BY <2>2
  <2>5. \A j, k \in 1 .. n : from(j) = from(k) => j = k
    BY <2>2
  <2>6. \A j \in 1 .. n : c[j] \in Entry
    BY <2>4, <1>1 DEF Good
  <2> HIDE DEF n
  <2>7. c \in Seq(Entry) /\ Len(c) = n
    BY <2>2, <2>6
  <2> HIDE DEF c, from
  <2>8. \A j \in 1 .. n : c[j].db # d
    BY <2>2, <2>4, <1>1 DEF Good
  <2>9. \A j, k \in 1 .. n : c[j].db = c[k].db => j = k
    BY <2>4, <2>5, <1>1 DEF Good
  <2>10. \A j \in 1 .. n : Live(c[j].db, c[j].token, c[j].at)
    BY <2>4, <1>1 DEF Good
  <2> QED
    BY <2>3, <2>4, <2>7, <2>8, <2>9, <2>10 DEF Good
<1> QED
  BY <1>3, <1>4

LEMMA AppendIsGood ==
  ASSUME NEW c, Good(c), NEW e \in Entry, Live(e.db, e.token, e.at),
         \A i \in 1 .. Len(c) : c[i].db # e.db
  PROVE  Good(Append(c, e))
<1>1. c \in Seq(Entry) /\ Len(c) \in Nat
  BY DEF Good
<1>2. /\ Append(c, e) \in Seq(Entry) /\ Len(Append(c, e)) = Len(c) + 1
      /\ \A i \in 1 .. Len(c) : Append(c, e)[i] = c[i]
      /\ Append(c, e)[Len(c) + 1] = e
  BY <1>1, AppendProperties
<1> DEFINE a == Append(c, e)
<1> HIDE DEF a
<1>3. \A i \in 1 .. Len(a) : \/ i \in 1 .. Len(c) /\ a[i] = c[i]
                             \/ i = Len(c) + 1 /\ a[i] = e
  BY <1>1, <1>2 DEF a
<1>4. \A i \in 1 .. Len(a) : Live(a[i].db, a[i].token, a[i].at)
  BY <1>3 DEF Good
<1>5. \A i, j \in 1 .. Len(a) : a[i].db = a[j].db => i = j
  BY <1>3 DEF Good
<1> QED
  BY <1>2, <1>4, <1>5 DEF Good, a

LEMMA TailIsGood ==
  ASSUME NEW c, Good(c), c # <<>>
  PROVE  Good(Tail(c))
<1>1. c \in Seq(Entry) /\ Len(c) \in Nat
  BY DEF Good
<1>2. /\ Tail(c) \in Seq(Entry) /\ Len(Tail(c)) = Len(c) - 1
      /\ \A i \in 1 .. Len(Tail(c)) : Tail(c)[i] = c[i + 1]
  BY <1>1, HeadTailProperties
<1> DEFINE a == Tail(c)
<1> HIDE DEF a
<1>3. \A i \in 1 .. Len(a) : i + 1 \in 1 .. Len(c) /\ a[i] = c[i + 1]
  BY <1>1, <1>2 DEF a
<1>4. \A i \in 1 .. Len(a) : Live(a[i].db, a[i].token, a[i].at)
  BY <1>3 DEF Good
<1>5. \A i, j \in 1 .. Len(a) : a[i].db = a[j].db => i = j
  BY <1>3 DEF Good
<1> QED
  BY <1>2, <1>4, <1>5 DEF Good, a

LEMMA InsertIsGood ==
  ASSUME TokenInv, NEW e \in Entry, Live(e.db, e.token, e.at)
  PROVE  Good(Insert(e))
<1> DEFINE c == Append(Without(e.db), e)
<1>1. Good(c)
  BY WithoutIsGood, AppendIsGood
<1>2. c # <<>> => Good(Tail(c))
  BY <1>1, TailIsGood
<1>3. Len(c) > MaxEntries => c # <<>>
  BY TokenAssumption DEF TokenAssumption
<1> HIDE DEF c
<1>4. Insert(e) = IF Len(c) > MaxEntries THEN Tail(c) ELSE c
  BY DEF Insert, c
<1> QED
  BY <1>1, <1>2, <1>3, <1>4

\* An entry stays live while tokens are asked for and its database is not
\* invalidated.
LEMMA GoodStays ==
  ASSUME NEW c, Good(c), issued \in Seq(Nat), issued' \in Seq(Nat),
         Len(issued) <= Len(issued'), \A i \in 1 .. Len(issued) : issued'[i] = issued[i],
         \A i \in 1 .. Len(c) : dropped'[c[i].db].upto = dropped[c[i].db].upto,
         cache' = c
  PROVE  CacheLive'
<1>1. Len(issued) \in Nat /\ Len(issued') \in Nat
  OBVIOUS
<1>2. ASSUME NEW i \in 1 .. Len(c)
      PROVE  /\ c[i].token \in 1 .. Len(issued') /\ c[i].token > dropped'[c[i].db].upto
             /\ c[i].at <= issued'[c[i].token] + Latency
  <2>1. /\ c[i].token \in 1 .. Len(issued) /\ c[i].token > dropped[c[i].db].upto
        /\ c[i].at <= issued[c[i].token] + Latency
    BY DEF Good, Live
  <2>2. issued'[c[i].token] = issued[c[i].token] /\ c[i].token \in 1 .. Len(issued')
    <3>1. \A k \in 1 .. Len(issued) : k \in 1 .. Len(issued') /\ issued'[k] = issued[k]
      BY <1>1
    <3> QED
      BY <2>1, <3>1
  <2> QED
    BY <2>1, <2>2
<1>3. DOMAIN c = 1 .. Len(c)
  BY DEF Good
<1> QED
  <2>1. \A i, j \in DOMAIN cache' : cache'[i].db = cache'[j].db => i = j
    <3>1. \A i, j \in 1 .. Len(c) : c[i].db = c[j].db => i = j
      BY DEF Good
    <3> QED
      BY <1>3, <3>1
  <2>2. \A i \in DOMAIN c : /\ c[i].token \in 1 .. Len(issued')
                            /\ c[i].token > dropped'[c[i].db].upto
                            /\ c[i].at <= issued'[c[i].token] + Latency
    BY <1>2, <1>3
  <2>3. (\A i \in DOMAIN cache : Live(cache[i].db, cache[i].token, cache[i].at))'
    BY <2>2 DEF Live
  <2> QED
    BY <2>1, <2>3 DEF CacheLive

-------------------------------------------------------------------------------
(* What one thread does *)

LEMMA ThreadFields ==
  ASSUME NEW r \in ThreadType
  PROVE  /\ r.pc \in {"idle", "look", "wait", "mint", "publish", "served", "failed"}
         /\ r.db \in Databases \cup {"none"} /\ r.token \in Nat /\ r.at \in Nat
         /\ r.armed \in BOOLEAN
  BY DEF ThreadType

\* Other threads stay where they are, or a waiting one looks again.
Stay(t) ==
  \A u \in Threads \ {t} :
    \/ thread'[u] = thread[u]
    \/ /\ thread[u].pc = "wait" /\ thread'[u].pc = "look" /\ thread'[u].db = thread[u].db

ThreadsTyped ==
  /\ thread \in [Threads -> ThreadType]
  /\ \A t \in Threads : thread[t].pc # "idle" => thread[t].db \in Databases

LEMMA GoEffect ==
  ASSUME TokenTyped, NEW t \in Threads, NEW r \in ThreadType,
         r.pc # "idle" => r.db \in Databases, Go(t, r)
  PROVE  ThreadsTyped' /\ thread'[t] = r /\ Stay(t)
<1>1. thread' \in [Threads -> ThreadType] /\ thread'[t] = r
        /\ \A u \in Threads \ {t} : thread'[u] = thread[u]
  BY DEF TokenTyped, Go
<1> QED
  BY <1>1 DEF TokenTyped, ThreadsTyped, Stay

LEMMA NotifyEffect ==
  ASSUME TokenTyped, NEW t \in Threads, NEW r \in ThreadType,
         r.pc # "idle" => r.db \in Databases, Notify(t, r)
  PROVE  ThreadsTyped' /\ thread'[t] = r /\ Stay(t)
<1>1. \A u \in Threads : thread[u] \in ThreadType
  BY DEF TokenTyped
<1>2. \A u \in Threads : [thread[u] EXCEPT !.pc = "look"] \in ThreadType
                           /\ [thread[u] EXCEPT !.pc = "look"].pc = "look"
                           /\ [thread[u] EXCEPT !.pc = "look"].db = thread[u].db
  BY <1>1 DEF ThreadType
<1>3. /\ DOMAIN thread' = Threads /\ thread' = [u \in Threads |-> thread'[u]]
      /\ thread'[t] = r
      /\ \A u \in Threads \ {t} :
           thread'[u] = IF thread[u].pc = "wait" THEN [thread[u] EXCEPT !.pc = "look"]
                        ELSE thread[u]
  BY DEF Notify
<1>4. \A u \in Threads : thread'[u] \in ThreadType
  BY <1>1, <1>2, <1>3
<1>5. thread' \in [Threads -> ThreadType]
  BY <1>3, <1>4
<1>6. Stay(t)
  <2>1. ASSUME NEW u \in Threads \ {t}, thread[u].pc = "wait"
        PROVE  thread'[u].pc = "look" /\ thread'[u].db = thread[u].db
    <3>1. thread'[u] = [thread[u] EXCEPT !.pc = "look"]
      BY <1>3, <2>1
    <3> QED
      BY <1>2, <3>1
  <2>2. \A u \in Threads \ {t} : thread[u].pc # "wait" => thread'[u] = thread[u]
    BY <1>3
  <2> QED
    BY <2>1, <2>2 DEF Stay
<1>7. ASSUME NEW u \in Threads, thread'[u].pc # "idle"
      PROVE  thread'[u].db \in Databases
  <2>1. thread[u].pc # "idle" => thread[u].db \in Databases
    BY DEF TokenTyped
  <2>2. CASE u = t
    BY <2>2, <1>3, <1>7
  <2>3. CASE u # t /\ thread[u].pc = "wait"
    <3>1. thread'[u] = [thread[u] EXCEPT !.pc = "look"]
      BY <2>3, <1>3
    <3>2. thread'[u].db = thread[u].db
      BY <3>1, <1>2
    <3> QED
      BY <2>1, <2>3, <3>2
  <2>4. CASE u # t /\ thread[u].pc # "wait"
    <3>1. thread'[u] = thread[u]
      BY <2>4, <1>3
    <3> QED
      BY <2>1, <3>1, <1>7
  <2> QED
    BY <2>2, <2>3, <2>4
<1> QED
  BY <1>3, <1>5, <1>6, <1>7 DEF ThreadsTyped

\* The other minters go on undisturbed.
LEMMA MintersStay ==
  ASSUME TokenTyped, MintsLive, NEW t \in Threads, Stay(t), ThreadsTyped',
         UNCHANGED <<now, dropped>>,
         issued' \in Seq(Nat), Len(issued) <= Len(issued'),
         \A i \in 1 .. Len(issued) : issued'[i] = issued[i],
         \A d \in Databases : d \in minting /\ d # thread[t].db => d \in minting',
         \A d \in Databases : d \in tainted /\ d # thread[t].db => d \in tainted',
         Minter(t)' => thread'[t].db = thread[t].db,
         \/ thread[t].db \in minting => Minter(t)
         \/ ~Minter(t)' /\ ~Minter(t) /\ UNCHANGED <<minting, tainted>>,
         Minter(t)' =>
           /\ thread[t].db \in minting'
           /\ thread'[t].token \in 1 .. Len(issued')
           /\ now <= issued'[thread'[t].token] + Latency
           /\ thread'[t].pc = "publish" => thread'[t].at = now
           /\ thread[t].db \notin tainted' => thread'[t].token > dropped[thread[t].db].upto
  PROVE  MintsLive'
<1>1. Len(issued) \in Nat /\ Len(issued') \in Nat
  BY DEF TokenTyped
<1>2. \A u \in Threads \ {t} : Minter(u)' => Minter(u) /\ thread'[u] = thread[u]
  BY DEF Stay, Minter
<1>3. \A u \in Threads \ {t} : Minter(u) => thread[u].db \in minting /\ thread[u].db \in Databases
  BY DEF MintsLive, TokenTyped, Minter
<1>4. ASSUME NEW u \in Threads \ {t}, Minter(u)
      PROVE  \/ thread[u].db # thread[t].db
             \/ ~Minter(t)' /\ UNCHANGED <<minting, tainted>>
  BY <1>3, <1>4 DEF MintsLive
<1>5. ASSUME NEW u \in Threads, NEW v \in Threads, Minter(u)', Minter(v)',
             thread'[u].db = thread'[v].db
      PROVE  u = v
  <2>1. CASE u = t /\ v # t
    BY <2>1, <1>2, <1>4, <1>5
  <2>2. CASE v = t /\ u # t
    BY <2>2, <1>2, <1>4, <1>5
  <2>3. CASE u # t /\ v # t
    BY <2>3, <1>2, <1>5 DEF MintsLive
  <2> QED
    BY <2>1, <2>2, <2>3
<1>6. ASSUME NEW u \in Threads, Minter(u)'
      PROVE  /\ thread'[u].db \in minting'
             /\ thread'[u].token \in 1 .. Len(issued')
             /\ now' <= issued'[thread'[u].token] + Latency
             /\ thread'[u].pc = "publish" => thread'[u].at = now'
             /\ thread'[u].db \notin tainted' => thread'[u].token > dropped'[thread'[u].db].upto
  <2>1. CASE u = t
    BY <2>1, <1>6
  <2>2. CASE u # t
    <3>1. Minter(u) /\ thread'[u] = thread[u]
      BY <2>2, <1>2, <1>6
    <3>2. thread[u].db \in Databases
      BY <2>2, <3>1, <1>3
    <3>3. thread[u].db \in minting' /\ (thread[u].db \in tainted => thread[u].db \in tainted')
      BY <2>2, <3>1, <3>2, <1>3, <1>4
    <3>4. /\ thread[u].token \in 1 .. Len(issued)
          /\ now <= issued[thread[u].token] + Latency
          /\ thread[u].pc = "publish" => thread[u].at = now
          /\ thread[u].db \notin tainted => thread[u].token > dropped[thread[u].db].upto
      BY <3>1 DEF MintsLive
    <3>5. thread[u].token \in 1 .. Len(issued') /\ issued'[thread[u].token] = issued[thread[u].token]
      BY <3>4, <1>1
    <3> QED
      BY <3>1, <3>3, <3>4, <3>5
  <2> QED
    BY <2>1, <2>2
<1> QED
  BY <1>5, <1>6 DEF MintsLive
LEMMA ThreadMoves ==
  ASSUME TokenInv, NEW t \in Threads, Stay(t), ThreadsTyped', UNCHANGED <<now, dropped>>,
         issued' \in Seq(Nat), Len(issued) <= Len(issued'),
         \A i \in 1 .. Len(issued) : issued'[i] = issued[i],
         minting' \subseteq Databases, tainted' \subseteq Databases,
         Good(cache'), MintsLive'
  PROVE  TokenInv'
<1>1. issued \in Seq(Nat) /\ Len(issued) \in Nat /\ Len(issued') \in Nat
  BY DEF TokenInv, TokenTyped
<1>2. CacheLive'
  <2>1. PICK c : c = cache'
    OBVIOUS
  <2>2. Good(c)
    BY <2>1
  <2>3. \A i \in 1 .. Len(c) : dropped'[c[i].db].upto = dropped[c[i].db].upto
    OBVIOUS
  <2> QED
    BY <2>1, <2>2, <2>3, <1>1, GoodStays
<1>3. \A d \in Databases : dropped'[d].upto <= Len(issued')
  <2> TAKE d \in Databases
  <2>1. dropped[d].upto <= Len(issued) /\ dropped[d].upto \in Nat
    BY DEF TokenInv, TokenTyped
  <2> QED
    BY <2>1, <1>1
<1>4. TokenTyped'
  BY <1>3 DEF TokenInv, TokenTyped, ThreadsTyped, Good
<1> QED
  BY <1>2, <1>4 DEF TokenInv

\* Nothing is minted: the thread only moves.
LEMMA OnlyMoves ==
  ASSUME TokenInv, NEW t \in Threads, Stay(t), ThreadsTyped',
         UNCHANGED <<now, minting, tainted, issued, dropped>>,
         ~Minter(t), ~Minter(t)', Good(cache')
  PROVE  TokenInv'
<1>1. /\ issued \in Seq(Nat) /\ issued' = issued /\ Len(issued) \in Nat
      /\ minting' \subseteq Databases /\ tainted' \subseteq Databases
  BY DEF TokenInv, TokenTyped
<1>2. MintsLive'
  BY <1>1, MintersStay DEF TokenInv
<1> QED
  BY <1>1, <1>2, ThreadMoves

LEMMA RestingTyped == \A d \in Databases :
  LET r == [Resting EXCEPT !.pc = "look", !.db = d] IN r \in ThreadType /\ r.pc = "look" /\ r.db = d
  BY DEF Resting, ThreadType

LEMMA AskKeeps ==
  ASSUME TokenInv, NEW t \in Threads, NEW d \in Databases, Ask(t, d)
  PROVE  TokenInv'
<1> DEFINE r == [Resting EXCEPT !.pc = "look", !.db = d]
<1>1. r \in ThreadType /\ r.pc = "look" /\ r.db = d
  BY RestingTyped
<1>2. Go(t, r) /\ ~Minter(t)
  BY DEF Ask, Minter
<1> HIDE DEF r
<1>3. ThreadsTyped' /\ thread'[t] = r /\ Stay(t)
  BY <1>1, <1>2, GoEffect DEF TokenInv
<1>4. ~Minter(t)'
  BY <1>1, <1>3 DEF Minter
<1>5. Good(cache)
  BY CacheIsGood
<1> QED
  BY <1>2, <1>3, <1>4, <1>5, OnlyMoves DEF Ask

LEMMA FreshEntry ==
  ASSUME TokenInv, NEW d, NEW e \in Fresh(d)
  PROVE  /\ e \in Entry /\ e.db = d /\ Live(e.db, e.token, e.at) /\ now - e.at < TTL
  BY CacheIsGood DEF Fresh, Entries, Good

LEMMA HitKeeps ==
  ASSUME TokenInv, NEW t \in Threads, Hit(t)
  PROVE  TokenInv'
<1> DEFINE d == thread[t].db
<1>1. PICK e \in Fresh(d) : /\ cache' = Append(Without(d), e)
                            /\ Go(t, [thread[t] EXCEPT !.pc = "served", !.token = e.token])
  BY DEF Hit
<1> DEFINE r == [thread[t] EXCEPT !.pc = "served", !.token = e.token]
<1>2. e \in Entry /\ e.db = d /\ Live(e.db, e.token, e.at)
  BY FreshEntry
<1>3. thread[t] \in ThreadType /\ thread[t].pc = "look" /\ d \in Databases /\ e.token \in Nat
  BY <1>2 DEF Hit, TokenInv, TokenTyped, Entry
<1>4. r \in ThreadType /\ r.pc = "served" /\ r.db = d
  BY <1>3 DEF ThreadType
<1>5. Go(t, r)
  BY <1>1
<1> HIDE DEF r
<1>6. ThreadsTyped' /\ thread'[t] = r /\ Stay(t)
  BY <1>3, <1>4, <1>5, GoEffect DEF TokenInv
<1>7. Good(Append(Without(d), e))
  BY <1>2, WithoutIsGood, AppendIsGood
<1> QED
  BY <1>1, <1>3, <1>4, <1>6, <1>7, OnlyMoves DEF Hit, Minter

LEMMA WaitKeeps ==
  ASSUME TokenInv, NEW t \in Threads, Wait(t)
  PROVE  TokenInv'
<1> DEFINE r == [thread[t] EXCEPT !.pc = "wait", !.armed = TRUE]
<1>1. thread[t] \in ThreadType /\ thread[t].pc = "look" /\ thread[t].db \in Databases
  BY DEF Wait, TokenInv, TokenTyped
<1>2. r \in ThreadType /\ r.pc = "wait" /\ r.db = thread[t].db
  BY <1>1 DEF ThreadType
<1>3. Go(t, r)
  BY DEF Wait
<1> HIDE DEF r
<1>4. ThreadsTyped' /\ thread'[t] = r /\ Stay(t)
  BY <1>1, <1>2, <1>3, GoEffect DEF TokenInv
<1> QED
  BY <1>1, <1>2, <1>4, CacheIsGood, OnlyMoves DEF Wait, Minter

LEMMA GiveUpKeeps ==
  ASSUME TokenInv, NEW t \in Threads, GiveUp(t)
  PROVE  TokenInv'
<1> DEFINE r == [thread[t] EXCEPT !.pc = "failed"]
<1>1. thread[t] \in ThreadType /\ thread[t].pc \in {"look", "wait"} /\ thread[t].db \in Databases
  BY DEF GiveUp, TokenInv, TokenTyped
<1>2. r \in ThreadType /\ r.pc = "failed" /\ r.db = thread[t].db
  BY <1>1 DEF ThreadType
<1>3. Go(t, r)
  BY DEF GiveUp
<1> HIDE DEF r
<1>4. ThreadsTyped' /\ thread'[t] = r /\ Stay(t)
  BY <1>1, <1>2, <1>3, GoEffect DEF TokenInv
<1> QED
  BY <1>1, <1>2, <1>4, CacheIsGood, OnlyMoves DEF GiveUp, Minter

-------------------------------------------------------------------------------
(* Mints *)

LEMMA MintKeeps ==
  ASSUME TokenInv, NEW t \in Threads, Mint(t)
  PROVE  TokenInv'
<1> DEFINE n == Len(issued) + 1
           d == thread[t].db
           r == [thread[t] EXCEPT !.pc = "mint", !.token = n, !.armed = FALSE]
<1>1. /\ thread[t] \in ThreadType /\ thread[t].pc = "look" /\ d \in Databases
      /\ issued \in Seq(Nat) /\ Len(issued) \in Nat /\ now \in Nat /\ n \in Nat
      /\ Latency \in Nat /\ dropped[d].upto \in Nat /\ dropped[d].upto <= Len(issued)
      /\ minting \subseteq Databases /\ tainted \subseteq Databases
  <2>1. thread[t].pc = "look"
    BY DEF Mint
  <2>2. /\ thread \in [Threads -> ThreadType] /\ d \in Databases
        /\ issued \in Seq(Nat) /\ now \in Nat
        /\ minting \subseteq Databases /\ tainted \subseteq Databases
    BY <2>1 DEF TokenInv, TokenTyped
  <2>3. /\ dropped \in [Databases -> [upto : Nat, times : Nat]]
        /\ dropped[d].upto <= Len(issued)
    BY <2>2 DEF TokenInv, TokenTyped
  <2>4. thread[t] \in ThreadType /\ dropped[d].upto \in Nat
    BY <2>2, <2>3
  <2>5. Len(issued) \in Nat /\ n \in Nat
    BY <2>2
  <2>6. Latency \in Nat
    BY TokenAssumption DEF TokenAssumption
  <2> QED
    BY <2>1, <2>2, <2>3, <2>4, <2>5, <2>6
<1>2. Go(t, r) /\ d \notin minting /\ minting' = minting \cup {d} /\ issued' = Append(issued, now)
        /\ UNCHANGED <<now, cache, tainted, dropped>>
  BY DEF Mint
<1>3. /\ issued' \in Seq(Nat) /\ Len(issued') = n
      /\ \A i \in 1 .. Len(issued) : issued'[i] = issued[i]
      /\ issued'[n] = now
  BY <1>1, <1>2, AppendProperties
<1> HIDE DEF n
<1>4. r \in ThreadType /\ r.pc = "mint" /\ r.db = d /\ r.token = n
  BY <1>1 DEF ThreadType
<1> HIDE DEF r
<1>5. ThreadsTyped' /\ thread'[t] = r /\ Stay(t)
  BY <1>1, <1>2, <1>4, GoEffect DEF TokenInv
<1>6. n \in 1 .. Len(issued') /\ now <= issued'[n] + Latency /\ n > dropped[d].upto
        /\ Len(issued) <= Len(issued')
  BY <1>1, <1>3 DEF n
<1>7. MintsLive'
  BY <1>1, <1>2, <1>3, <1>4, <1>5, <1>6, MintersStay DEF TokenInv
<1> QED
  BY <1>1, <1>2, <1>3, <1>5, <1>6, <1>7, CacheIsGood, ThreadMoves

\* What a minter knows of its token.
LEMMA MinterKnows ==
  ASSUME TokenInv, NEW t \in Threads, Minter(t)
  PROVE  /\ thread[t] \in ThreadType /\ thread[t].db \in Databases /\ thread[t].db \in minting
         /\ thread[t].token \in 1 .. Len(issued)
         /\ now <= issued[thread[t].token] + Latency
         /\ thread[t].pc = "publish" => thread[t].at = now
         /\ thread[t].db \notin tainted => thread[t].token > dropped[thread[t].db].upto
         /\ issued \in Seq(Nat) /\ Len(issued) \in Nat /\ now \in Nat
         /\ minting \subseteq Databases /\ tainted \subseteq Databases
  BY DEF TokenInv, TokenTyped, MintsLive, Minter

LEMMA MintedKeeps ==
  ASSUME TokenInv, NEW t \in Threads, Minted(t)
  PROVE  TokenInv'
<1> DEFINE r == [thread[t] EXCEPT !.pc = "publish", !.at = now]
<1>1. Minter(t) /\ Go(t, r) /\ UNCHANGED <<now, cache, minting, tainted, issued, dropped>>
  BY DEF Minted, Minter
<1>2. r \in ThreadType /\ r.pc = "publish" /\ r.db = thread[t].db /\ r.token = thread[t].token
        /\ r.at = now
  BY <1>1, MinterKnows DEF ThreadType
<1> HIDE DEF r
<1>3. ThreadsTyped' /\ thread'[t] = r /\ Stay(t)
  BY <1>1, <1>2, MinterKnows, GoEffect DEF TokenInv
<1>4. MintsLive'
  BY <1>1, <1>2, <1>3, MinterKnows, MintersStay DEF TokenInv
<1> QED
  BY <1>1, <1>3, <1>4, MinterKnows, CacheIsGood, ThreadMoves

LEMMA MintFailsKeeps ==
  ASSUME TokenInv, NEW t \in Threads, MintFails(t)
  PROVE  TokenInv'
<1> DEFINE d == thread[t].db
           r == [thread[t] EXCEPT !.pc = "failed"]
<1>1. /\ Minter(t) /\ Notify(t, r) /\ UNCHANGED <<now, cache, issued, dropped>>
      /\ minting' = minting \ {d} /\ tainted' = tainted \ {d}
  BY DEF MintFails, Minter
<1>2. r \in ThreadType /\ r.pc = "failed" /\ r.db = d
  BY <1>1, MinterKnows DEF ThreadType
<1> HIDE DEF r
<1>3. ThreadsTyped' /\ thread'[t] = r /\ Stay(t)
  BY <1>1, <1>2, MinterKnows, NotifyEffect DEF TokenInv
<1>4. ~Minter(t)'
  BY <1>2, <1>3 DEF Minter
<1>5. MintsLive'
  BY <1>1, <1>3, <1>4, MinterKnows, MintersStay DEF TokenInv
<1> QED
  BY <1>1, <1>3, <1>5, MinterKnows, CacheIsGood, ThreadMoves

LEMMA PublishKeeps ==
  ASSUME TokenInv, NEW t \in Threads, Publish(t)
  PROVE  TokenInv'
<1> DEFINE d == thread[t].db
           e == [db |-> d, token |-> thread[t].token, at |-> thread[t].at]
<1>1. /\ Minter(t) /\ UNCHANGED <<now, issued, dropped>>
      /\ minting' = minting \ {d} /\ tainted' = tainted \ {d}
      /\ cache' = IF d \in tainted THEN cache ELSE Insert(e)
      /\ thread[t].pc = "publish"
  BY DEF Publish, Minter
<1>2. PICK pc \in {"look", "served"} : Notify(t, [thread[t] EXCEPT !.pc = pc])
  BY DEF Publish
<1> DEFINE r == [thread[t] EXCEPT !.pc = pc]
<1>3. r \in ThreadType /\ r.pc = pc /\ r.db = d
  BY <1>1, MinterKnows DEF ThreadType
<1>4. Notify(t, r)
  BY <1>2
<1> HIDE DEF r
<1>5. ThreadsTyped' /\ thread'[t] = r /\ Stay(t)
  BY <1>1, <1>3, <1>4, MinterKnows, NotifyEffect DEF TokenInv
<1>6. ~Minter(t)'
  BY <1>3, <1>5 DEF Minter
<1>7. MintsLive'
  BY <1>1, <1>5, <1>6, MinterKnows, MintersStay DEF TokenInv
<1>8. Good(cache')
  <2>1. CASE d \in tainted
    BY <2>1, <1>1, CacheIsGood
  <2>2. CASE d \notin tainted
    <3>1. e \in Entry /\ e.db = d /\ e.token = thread[t].token /\ e.at = thread[t].at
      BY <1>1, MinterKnows DEF Entry, ThreadType
    <3>2. Live(d, thread[t].token, thread[t].at)
      BY <2>2, <1>1, MinterKnows DEF Live
    <3> HIDE DEF e
    <3>3. Good(Insert(e))
      BY <3>1, <3>2, InsertIsGood
    <3> QED
      BY <2>2, <3>3, <1>1
  <2> QED
    BY <2>1, <2>2
<1> QED
  BY <1>1, <1>5, <1>7, <1>8, MinterKnows, ThreadMoves

-------------------------------------------------------------------------------
(* The clock and invalidations *)

LEMMA TickKeeps ==
  ASSUME TokenInv, Tick
  PROVE  TokenInv'
<1>1. /\ now' = now + 1 /\ UNCHANGED <<cache, minting, tainted, thread, issued, dropped>>
      /\ \A t \in Threads : InTime(t)
  BY DEF Tick
<1>2. TokenTyped'
  BY <1>1 DEF TokenInv, TokenTyped
<1>3. CacheLive'
  BY <1>1 DEF TokenInv, CacheLive, Live
<1>4. \A t \in Threads : Minter(t)' <=> Minter(t)
  BY <1>1 DEF Minter
<1>5. ASSUME NEW t \in Threads, Minter(t)
      PROVE  /\ thread[t].pc = "mint"
             /\ now + 1 <= issued[thread[t].token] + Latency
  <2>1. thread[t].pc = "mint" /\ now < issued[thread[t].token] + Latency
    BY <1>1, <1>5 DEF InTime, Minter
  <2>2. issued[thread[t].token] \in Nat /\ now \in Nat /\ Latency \in Nat
    BY <1>5, MinterKnows, TokenAssumption DEF TokenAssumption
  <2> QED
    BY <2>1, <2>2
<1>6. MintsLive'
  BY <1>1, <1>4, <1>5 DEF TokenInv, MintsLive
<1> QED
  BY <1>2, <1>3, <1>6 DEF TokenInv

LEMMA InvalidateKeeps ==
  ASSUME TokenInv, NEW d \in Databases, Invalidate(d)
  PROVE  TokenInv'
<1> DEFINE times == dropped[d].times + 1
           gone == [upto |-> Len(issued), times |-> times]
<1>1. /\ issued \in Seq(Nat) /\ Len(issued) \in Nat /\ dropped[d].times \in Nat
      /\ dropped \in [Databases -> [upto : Nat, times : Nat]] /\ times \in Nat
  BY DEF TokenInv, TokenTyped
<1>2. /\ cache' = Without(d) /\ UNCHANGED <<now, minting, thread, issued>>
      /\ tainted' = IF d \in minting THEN tainted \cup {d} ELSE tainted
      /\ dropped' = [dropped EXCEPT ![d] = gone]
  BY DEF Invalidate
<1>3. gone \in [upto : Nat, times : Nat] /\ gone.upto = Len(issued)
  BY <1>1
<1> HIDE DEF gone
<1>4. /\ dropped' \in [Databases -> [upto : Nat, times : Nat]]
      /\ dropped'[d].upto = Len(issued)
      /\ \A b \in Databases \ {d} : dropped'[b] = dropped[b]
  BY <1>1, <1>2, <1>3
<1>5. Good(Without(d)) /\ (\A i \in 1 .. Len(Without(d)) : Without(d)[i].db # d)
  BY WithoutIsGood
<1>6. CacheLive'
  <2>1. PICK c : c = Without(d)
    OBVIOUS
  <2>2. Good(c) /\ cache' = c
    BY <2>1, <1>2, <1>5
  <2>3. ASSUME NEW i \in 1 .. Len(c)
        PROVE  dropped'[c[i].db].upto = dropped[c[i].db].upto
    <3>1. c[i] \in Entry /\ c[i].db # d
      BY <2>1, <2>2, <1>5 DEF Good
    <3>2. c[i].db \in Databases
      BY <3>1 DEF Entry
    <3> QED
      BY <3>1, <3>2, <1>4
  <2> QED
    BY <2>2, <2>3, <1>1, <1>2, GoodStays
<1>7. TokenTyped'
  <2>1. ASSUME NEW b \in Databases
        PROVE  dropped'[b].upto <= Len(issued)
    <3>1. dropped[b].upto <= Len(issued)
      BY DEF TokenInv, TokenTyped
    <3>2. CASE b = d
      BY <3>2, <1>1, <1>4
    <3>3. CASE b # d
      <4>1. dropped'[b] = dropped[b]
        BY <3>3, <1>4
      <4> QED
        BY <3>1, <4>1
    <3> QED
      BY <3>2, <3>3
  <2> QED
    BY <2>1, <1>2, <1>4, <1>5 DEF TokenInv, TokenTyped, Good
<1>8. \A t \in Threads : Minter(t)' <=> Minter(t)
  BY <1>2 DEF Minter
<1>9. ASSUME NEW t \in Threads, Minter(t)
      PROVE  thread[t].db \notin tainted' => thread[t].token > dropped'[thread[t].db].upto
  <2>1. CASE thread[t].db = d
    BY <2>1, <1>2, <1>9, MinterKnows
  <2>2. CASE thread[t].db # d
    BY <2>2, <1>2, <1>4, <1>9, MinterKnows
  <2> QED
    BY <2>1, <2>2
<1>10. MintsLive'
  BY <1>2, <1>8, <1>9 DEF TokenInv, MintsLive
<1> QED
  BY <1>6, <1>7, <1>10 DEF TokenInv

LEMMA TokenStutters ==
  ASSUME TokenInv, UNCHANGED tokenVars
  PROVE  TokenInv'
<1>1. UNCHANGED <<now, cache, minting, tainted, thread, issued, dropped>>
  BY DEF tokenVars
<1>2. TokenTyped'
  BY <1>1 DEF TokenInv, TokenTyped
<1>3. CacheLive'
  BY <1>1 DEF TokenInv, CacheLive, Live
<1>4. MintsLive'
  BY <1>1 DEF TokenInv, MintsLive, Minter
<1> QED
  BY <1>2, <1>3, <1>4 DEF TokenInv

LEMMA TokenStarts ==
  ASSUME TokenInit
  PROVE  TokenInv
<1>1. /\ now = 0 /\ cache = <<>> /\ minting = {} /\ tainted = {} /\ issued = <<>>
      /\ thread = [t \in Threads |-> Resting]
      /\ dropped = [d \in Databases |-> [upto |-> 0, times |-> 0]]
  BY DEF TokenInit
<1>2. Resting \in ThreadType /\ Resting.pc = "idle"
  BY DEF Resting, ThreadType
<1>3. TokenTyped
  <2>1. Len(issued) = 0 /\ issued \in Seq(Nat) /\ cache \in Seq(Entry)
    BY <1>1
  <2>2. thread \in [Threads -> ThreadType] /\ \A t \in Threads : thread[t].pc = "idle"
    BY <1>1, <1>2
  <2>3. /\ dropped \in [Databases -> [upto : Nat, times : Nat]]
        /\ \A d \in Databases : dropped[d].upto = 0
    BY <1>1
  <2> QED
    BY <1>1, <2>1, <2>2, <2>3 DEF TokenTyped
<1>4. CacheLive
  BY <1>1 DEF CacheLive
<1>5. MintsLive
  BY <1>1, <1>2 DEF MintsLive, Minter
<1> QED
  BY <1>3, <1>4, <1>5 DEF TokenInv

-------------------------------------------------------------------------------
(* The system *)

ConnectionsInv == RemoteInv /\ TokenInv

LEMMA ConnectionsStart ==
  ASSUME Init
  PROVE  ConnectionsInv
  BY RemoteStarts, TokenStarts DEF Init, ConnectionsInv

LEMMA GetStepKeeps ==
  ASSUME TokenInv, NEW t \in Threads, GetStep(t)
  PROVE  TokenInv'
  BY HitKeeps, MintKeeps, WaitKeeps, GiveUpKeeps, MintFailsKeeps, MintedKeeps, PublishKeeps
     DEF GetStep

LEMMA ConnectionsKeep ==
  ASSUME ConnectionsInv, [Next]_vars
  PROVE  ConnectionsInv'
<1> USE DEF ConnectionsInv
<1>1. CASE UNCHANGED vars
  BY <1>1, RemoteStutters, TokenStutters DEF vars
<1>2. ASSUME NEW t \in Threads, GetStep(t), UNCHANGED remoteVars
      PROVE  ConnectionsInv'
  BY <1>2, GetStepKeeps, RemoteStutters
<1>3. ASSUME NEW t \in Threads, Operate(t)
      PROVE  ConnectionsInv'
  <2>1. PICK site \in SitesOf[t], sql \in Statements : Begin(t, site, sql)
    BY <1>3 DEF Operate
  <2>2. t \in Callers /\ UNCHANGED tokenVars
    BY <1>3, ThreadsAssumption DEF Operate, ThreadsAssumption
  <2> QED
    BY <2>1, <2>2, BeginKeeps, TokenStutters
<1>4. ASSUME NEW t \in Threads, CallStep(t), UNCHANGED tokenVars
      PROVE  ConnectionsInv'
  BY <1>4, ThreadsAssumption, CallStepKeeps, TokenStutters DEF ThreadsAssumption
<1>5. ASSUME NEW t \in Threads, NEW d \in Databases, Resolve(t, d)
      PROVE  ConnectionsInv'
  BY <1>5, AskKeeps, RemoteStutters DEF Resolve
<1>6. CASE Remote /\ UNCHANGED tokenVars
  BY <1>6, RemoteKeeps, TokenStutters
<1>7. CASE Tick /\ UNCHANGED remoteVars
  BY <1>7, TickKeeps, RemoteStutters
<1>8. ASSUME NEW d \in Databases, Invalidate(d), UNCHANGED remoteVars
      PROVE  ConnectionsInv'
  BY <1>8, InvalidateKeeps, RemoteStutters
<1> QED
  BY <1>1, <1>2, <1>3, <1>4, <1>5, <1>6, <1>7, <1>8 DEF Next, ThreadStep

THEOREM ConnectionsSound == Spec => []ConnectionsInv
  BY ConnectionsStart, ConnectionsKeep, PTL DEF Spec

\* A write is made once however often its operation is tried, with any number
\* of threads and slots and however late the remote answers.
THEOREM WritesAreOnce == Spec => []WritesLandOnce
<1>1. ConnectionsInv => WritesLandOnce
  BY RemoteMeans DEF ConnectionsInv
<1> QED
  BY <1>1, ConnectionsSound, PTL

\* An operation's end tells what became of its write.
THEOREM OutcomesAreHonest == Spec => []OutcomeHonest
<1>1. ConnectionsInv => OutcomeHonest
  BY RemoteMeans DEF ConnectionsInv
<1> QED
  BY <1>1, ConnectionsSound, PTL

-------------------------------------------------------------------------------
(* Tokens that are served *)

ServedLive(t) ==
  Serves(t) =>
    /\ thread'[t].token > dropped[thread[t].db].upto
    /\ now - issued[thread'[t].token] < Life

LEMMA HitServes ==
  ASSUME TokenInv, NEW t \in Threads, Hit(t)
  PROVE  ServedLive(t)
<1> DEFINE d == thread[t].db
<1>1. PICK e \in Fresh(d) : Go(t, [thread[t] EXCEPT !.pc = "served", !.token = e.token])
  BY DEF Hit
<1>2. e \in Entry /\ e.db = d /\ Live(e.db, e.token, e.at) /\ now - e.at < TTL
  BY FreshEntry
<1>3. thread'[t].token = e.token
  BY <1>1 DEF Go, TokenInv, TokenTyped, ThreadType
<1>4. /\ e.at \in Nat /\ now \in Nat /\ issued[e.token] \in Nat
      /\ Latency \in Nat /\ TTL \in Nat /\ TTL + Latency <= Life /\ Life \in Nat
  <2>1. e.at \in Nat
    BY <1>2 DEF Entry
  <2>2. now \in Nat /\ issued \in Seq(Nat)
    BY DEF TokenInv, TokenTyped
  <2>3. e.token \in 1 .. Len(issued)
    BY <1>2 DEF Live
  <2>4. issued[e.token] \in Nat
    BY <2>2, <2>3
  <2>5. Latency \in Nat /\ TTL \in Nat /\ TTL + Latency <= Life /\ Life \in Nat
    BY TokenAssumption DEF TokenAssumption
  <2> QED
    BY <2>1, <2>2, <2>4, <2>5
<1>5. e.token > dropped[d].upto /\ e.at <= issued[e.token] + Latency
  BY <1>2 DEF Live
<1>6. now - issued[e.token] < Life
  BY <1>2, <1>4, <1>5
<1> QED
  BY <1>3, <1>5, <1>6 DEF ServedLive

LEMMA PublishServes ==
  ASSUME TokenInv, NEW t \in Threads, Publish(t)
  PROVE  ServedLive(t)
<1> DEFINE d == thread[t].db
<1>1. Minter(t) /\ thread[t].pc = "publish"
  BY DEF Publish, Minter
<1>2. PICK pc \in {"look", "served"} : /\ Notify(t, [thread[t] EXCEPT !.pc = pc])
                                       /\ pc = "served" => d \notin tainted
  BY DEF Publish
<1>3. thread'[t].pc = pc /\ thread'[t].token = thread[t].token
  BY <1>1, <1>2, MinterKnows DEF Notify, ThreadType
<1>4. ASSUME pc = "served"
      PROVE  thread[t].token > dropped[d].upto /\ now - issued[thread[t].token] < Life
  <2>1. /\ now \in Nat /\ issued[thread[t].token] \in Nat
        /\ now <= issued[thread[t].token] + Latency
    BY <1>1, MinterKnows
  <2>2. Latency \in Nat /\ TTL \in Nat \ {0} /\ TTL + Latency <= Life /\ Life \in Nat
    BY TokenAssumption DEF TokenAssumption
  <2>3. now - issued[thread[t].token] < Life
    BY <2>1, <2>2
  <2>4. thread[t].token > dropped[d].upto
    BY <1>1, <1>2, <1>4, MinterKnows
  <2> QED
    BY <2>3, <2>4
<1> QED
  BY <1>3, <1>4 DEF ServedLive, Serves

\* A thread is served nothing by a step of another.
LEMMA OthersServe ==
  ASSUME TokenInv, NEW t \in Threads, NEW u \in Threads \ {t}, Stay(t)
  PROVE  ServedLive(u)
  BY DEF Stay, ServedLive, Serves

LEMMA StepsServe ==
  ASSUME TokenInv, NEW t \in Threads, GetStep(t)
  PROVE  \A u \in Threads : ServedLive(u)
<1>1. CASE Hit(t)
  <2>1. \A u \in Threads \ {t} : thread'[u] = thread[u]
    BY <1>1 DEF Hit, Go, TokenInv, TokenTyped
  <2> QED
    BY <2>1, <1>1, HitServes DEF ServedLive, Serves
<1>2. CASE Publish(t)
  <2>1. \A u \in Threads \ {t} : thread'[u].pc = "served" => thread[u].pc = "served"
    <3>1. PICK pc \in {"look", "served"} : Notify(t, [thread[t] EXCEPT !.pc = pc])
      BY <1>2 DEF Publish
    <3> QED
      BY <3>1 DEF Notify, TokenInv, TokenTyped, ThreadType
  <2> QED
    BY <2>1, <1>2, PublishServes DEF ServedLive, Serves
<1>3. CASE Mint(t) \/ Wait(t) \/ GiveUp(t) \/ Minted(t)
  <2>1. /\ \A u \in Threads \ {t} : thread'[u] = thread[u]
        /\ thread[t] \in ThreadType /\ DOMAIN thread = Threads
    BY <1>3 DEF Mint, Wait, GiveUp, Minted, Go, TokenInv, TokenTyped
  <2>2. thread'[t].pc # "served"
    <3>1. CASE Mint(t)
      BY <2>1, <3>1 DEF Mint, Go, ThreadType
    <3>2. CASE Wait(t)
      BY <2>1, <3>2 DEF Wait, Go, ThreadType
    <3>3. CASE GiveUp(t)
      BY <2>1, <3>3 DEF GiveUp, Go, ThreadType
    <3>4. CASE Minted(t)
      BY <2>1, <3>4 DEF Minted, Go, ThreadType
    <3> QED
      BY <1>3, <3>1, <3>2, <3>3, <3>4
  <2> QED
    BY <2>1, <2>2 DEF ServedLive, Serves
<1>4. CASE MintFails(t)
  <2>1. \A u \in Threads : thread'[u].pc = "served" => thread[u].pc = "served"
    BY <1>4 DEF MintFails, Notify, TokenInv, TokenTyped, ThreadType
  <2> QED
    BY <2>1 DEF ServedLive, Serves
<1> QED
  BY <1>1, <1>2, <1>3, <1>4 DEF GetStep

\* A token is served only if it was asked for after the last invalidation of
\* its database, and only while the platform honours it.
THEOREM TokensAreLive == Spec => ServesLiveTokens
<1> DEFINE Served == \A t \in Threads : Serves(t) =>
                       /\ thread'[t].token > dropped[thread[t].db].upto
                       /\ now - issued[thread'[t].token] < Life
<1>1. ConnectionsInv /\ [Next]_vars => [Served]_tokenVars
  <2> SUFFICES ASSUME ConnectionsInv, [Next]_vars, ~UNCHANGED tokenVars
               PROVE  \A t \in Threads : ServedLive(t)
    BY DEF ServedLive
  <2>1. TokenInv
    BY DEF ConnectionsInv
  <2>2. ASSUME NEW t \in Threads, GetStep(t)
        PROVE  \A u \in Threads : ServedLive(u)
    BY <2>1, <2>2, StepsServe
  <2>3. ASSUME NEW t \in Threads, NEW d \in Databases, Ask(t, d)
        PROVE  \A u \in Threads : ServedLive(u)
    <3>1. \A u \in Threads : thread'[u].pc = "served" => thread[u].pc = "served"
      BY <2>1, <2>3, RestingTyped DEF Ask, Go, TokenInv, TokenTyped
    <3> QED
      BY <3>1 DEF ServedLive, Serves
  <2>4. CASE UNCHANGED thread
    BY <2>4 DEF ServedLive, Serves
  <2> QED
    BY <2>2, <2>3, <2>4
       DEF Next, ThreadStep, Resolve, Operate, Remote, Tick, Invalidate, vars, tokenVars
<1> QED
  BY <1>1, ConnectionsSound, PTL DEF Spec, ServesLiveTokens

-------------------------------------------------------------------------------
(* Slots *)

\* A slot is free, held by a caller that starts a call, or taken by a call.
SlotInv ==
  /\ free \in Nat /\ IsFiniteSet(Holders) /\ IsFiniteSet(calls)
  /\ free + Cardinality(Holders) + Cardinality(calls) = Slots

\* A step that keeps slots and calls, and makes nobody a holder or stop being one.
LEMMA SlotsStay ==
  ASSUME SlotInv, UNCHANGED <<free, calls>>, Holders' = Holders
  PROVE  SlotInv'
  BY DEF SlotInv

LEMMA HoldersMove ==
  ASSUME RemoteInv, NEW p \in Callers, NEW o \in Operations, Proceed(p, o)
  PROVE  Holders' = IF o.phase = "held" THEN Holders \cup {p} ELSE Holders \ {p}
  BY ProceedEffect DEF Holders, RemoteInv

\* The caller held nothing and holds nothing.
LEMMA NoHolder ==
  ASSUME RemoteInv, SlotInv, NEW p \in Callers, NEW o \in Operations, Proceed(p, o),
         op[p].phase # "held", o.phase # "held", UNCHANGED <<free, calls>>
  PROVE  SlotInv'
<1>1. Holders' = Holders
  BY HoldersMove DEF Holders
<1> QED
  BY <1>1, SlotsStay

LEMMA AcquireCounts ==
  ASSUME RemoteInv, SlotInv, NEW p \in Callers, Acquire(p)
  PROVE  SlotInv'
<1> DEFINE o == [op[p] EXCEPT !.phase = "held"]
<1>1. o \in Operations /\ o.phase = "held"
  BY Known DEF Operations
<1>2. Proceed(p, o) /\ op[p].phase = "ready" /\ free' = free - 1 /\ free > 0 /\ calls' = calls
  BY DEF Acquire, Calling
<1> HIDE DEF o
<1>3. Holders' = Holders \cup {p} /\ p \notin Holders
  BY <1>1, <1>2, HoldersMove DEF Holders
<1>4. IsFiniteSet(Holders') /\ Cardinality(Holders') = Cardinality(Holders) + 1
  BY <1>3, FS_AddElement DEF SlotInv
<1>5. Cardinality(Holders) \in Nat /\ Cardinality(calls) \in Nat
  BY FS_CardinalityType DEF SlotInv
<1> QED
  BY <1>2, <1>4, <1>5 DEF SlotInv

\* A holder lets its slot go, or hands it to the call it starts.
LEMMA LetGo ==
  ASSUME RemoteInv, SlotInv, NEW p \in Callers, NEW o \in Operations, Proceed(p, o),
         op[p].phase = "held", o.phase # "held"
  PROVE  /\ IsFiniteSet(Holders') /\ Cardinality(Holders') = Cardinality(Holders) - 1
         /\ Cardinality(Holders) \in Nat /\ Cardinality(Holders') \in Nat
<1>1. Holders' = Holders \ {p} /\ p \in Holders
  BY HoldersMove DEF Holders
<1>2. IsFiniteSet(Holders') /\ Cardinality(Holders') = Cardinality(Holders) - 1
  BY <1>1, FS_RemoveElement DEF SlotInv
<1> QED
  BY <1>2, FS_CardinalityType DEF SlotInv

LEMMA NotStartedCounts ==
  ASSUME RemoteInv, SlotInv, NEW p \in Callers, NEW error \in {"deadline", "other"},
         NotStarted(p, error)
  PROVE  SlotInv'
<1> DEFINE o == Raised(op[p], error)
<1>1. op[p] \in Operations /\ error \in Errors
  BY Known DEF Errors
<1>2. Proceed(p, o) /\ op[p].phase = "held" /\ op[p].step \in RoundTrips
        /\ free' = free + 1 /\ calls' = calls
  BY DEF NotStarted, Calling
<1>3. o \in Operations /\ o.phase # "held"
  BY <1>1, <1>2, RaisedEffect
<1> HIDE DEF o
<1>4. /\ IsFiniteSet(Holders') /\ Cardinality(Holders') = Cardinality(Holders) - 1
      /\ Cardinality(Holders) \in Nat /\ Cardinality(Holders') \in Nat
  BY <1>2, <1>3, LetGo
<1>5. Cardinality(calls) \in Nat
  BY FS_CardinalityType DEF SlotInv
<1> QED
  BY <1>2, <1>4, <1>5 DEF SlotInv

LEMMA StartCounts ==
  ASSUME RemoteInv, SlotInv, NEW p \in Callers, Start(p)
  PROVE  SlotInv'
<1> DEFINE o == [op[p] EXCEPT !.phase = "waiting"]
           k == [by |-> p, conn |-> op[p].conn, step |-> op[p].step, lands |-> Lands(op[p])]
<1>1. o \in Operations /\ o.phase # "held"
  BY Known DEF Operations
<1>2. Proceed(p, o) /\ op[p].phase = "held" /\ op[p].step \in RoundTrips
        /\ free' = free /\ calls' = calls \cup {k}
  BY DEF Start, Calling
<1>3. k \notin calls
  <2>1. ~op[p].poisoned /\ Current(p) = {}
    BY <1>2, Known DEF Shaped, RoundTrips
  <2>2. k.by = p /\ k.conn = op[p].conn
    OBVIOUS
  <2> HIDE DEF k
  <2> QED
    BY <2>1, <2>2 DEF Current
<1> HIDE DEF o, k
<1>4. /\ IsFiniteSet(Holders') /\ Cardinality(Holders') = Cardinality(Holders) - 1
      /\ Cardinality(Holders) \in Nat /\ Cardinality(Holders') \in Nat
  BY <1>1, <1>2, LetGo
<1>5. IsFiniteSet(calls') /\ Cardinality(calls') = Cardinality(calls) + 1
  BY <1>2, <1>3, FS_AddElement DEF SlotInv
<1>6. Cardinality(calls) \in Nat
  BY FS_CardinalityType DEF SlotInv
<1> QED
  BY <1>2, <1>4, <1>5, <1>6 DEF SlotInv

LEMMA AnswerCounts ==
  ASSUME RemoteInv, SlotInv, NEW k \in calls, NEW answer \in {"ok", "fault", "other"},
         NEW lost \in BOOLEAN, Answer(k, answer, lost)
  PROVE  SlotInv'
<1> DEFINE p == k.by
<1>1. calls' = calls \ {k} /\ free' = free + 1 /\ (k.step = "close" => answer = "ok")
  BY DEF Answer
<1>2. Holders' = Holders
  <2>1. CASE Awaited(k)
    <3> DEFINE o == Answered(op[p], answer)
    <3>1. p \in Callers /\ op[p].phase = "waiting" /\ k \in Current(p)
      BY <2>1 DEF RemoteInv, RemoteTyped, Awaited, Current
    <3>2. k.step = op[p].step
      BY <3>1, Waiting
    <3>3. o \in Operations /\ o.phase = "ready"
      BY <3>1, <3>2, <1>1, AnsweredEffect
    <3>4. Proceed(p, o)
      BY <2>1 DEF Answer, Proceed
    <3> HIDE DEF o
    <3> QED
      BY <3>1, <3>3, <3>4, HoldersMove DEF Holders
  <2>2. CASE ~Awaited(k)
    BY <2>2 DEF Answer, Holders
  <2> QED
    BY <2>1, <2>2
<1>3. IsFiniteSet(calls') /\ Cardinality(calls') = Cardinality(calls) - 1
  BY <1>1, FS_RemoveElement DEF SlotInv
<1>4. Cardinality(Holders) \in Nat /\ Cardinality(calls) \in Nat
  BY FS_CardinalityType DEF SlotInv
<1> QED
  BY <1>1, <1>2, <1>3, <1>4 DEF SlotInv

LEMMA CallStepCounts ==
  ASSUME RemoteInv, SlotInv, NEW p \in Callers, CallStep(p)
  PROVE  SlotInv'
<1>1. op[p] \in Operations /\ Shaped(op[p])
  BY Known
<1>2. CASE Refuse(p)
  <2>1. PICK o \in Operations : Proceed(p, o) /\ o.phase = "ready"
    <3>1. op[p].step \in RoundTrips /\ "deadline" \in Errors
      BY <1>2 DEF Refuse, Calling, Errors
    <3> QED
      BY <3>1, <1>1, <1>2, PassedEffect, RaisedEffect DEF Refuse
  <2> QED
    BY <2>1, <1>2, NoHolder DEF Refuse, Calling, Quiet
<1>3. CASE NoCapacity(p)
  <2>1. PICK o \in Operations : Proceed(p, o) /\ o.phase = "ready"
    <3>1. op[p].step \in RoundTrips /\ "deadline" \in Errors
      BY <1>3 DEF NoCapacity, Calling, Errors
    <3> QED
      BY <3>1, <1>1, <1>3, RaisedEffect DEF NoCapacity
  <2> QED
    BY <2>1, <1>3, NoHolder DEF NoCapacity, Calling, Quiet
<1>4. CASE TimeOut(p)
  <2>1. PICK o \in Operations : Proceed(p, o) /\ o.phase = "ready"
    <3> DEFINE u == [op[p] EXCEPT !.poisoned = TRUE]
    <3>1. u \in Operations /\ u.step \in RoundTrips /\ DeadlineError(op[p]) \in Errors
      BY <1>1, <1>4 DEF TimeOut, Calling, Errors, DeadlineError, Operations
    <3>2. Proceed(p, Raised(u, DeadlineError(op[p])))
      BY <1>4 DEF TimeOut
    <3> HIDE DEF u
    <3> QED
      BY <3>1, <3>2, RaisedEffect
  <2> QED
    BY <2>1, <1>4, NoHolder DEF TimeOut, Calling, Quiet
<1>5. CASE Rebuild(p) \/ Retry(p)
  <2>1. op[p].step = "closed" /\ op[p].phase # "held" /\ Quiet
    BY <1>1, <1>5 DEF Rebuild, Retry, Shaped, RoundTrips
  <2>2. PICK u \in Operations : Proceed(p, Connect(u))
    <3>1. CASE Rebuild(p)
      <4>1. [op[p] EXCEPT !.rebuilt = TRUE] \in Operations
        BY <1>1 DEF Operations
      <4> QED
        BY <3>1, <4>1 DEF Rebuild
    <3>2. CASE Retry(p)
      <4> DEFINE tried == op[p].tries + 1
      <4>1. tried \in Nat
        BY <1>1, OpFields
      <4>2. Proceed(p, Connect([op[p] EXCEPT !.tries = tried, !.rebuilt = FALSE]))
        BY <3>2 DEF Retry
      <4> HIDE DEF tried
      <4>3. [op[p] EXCEPT !.tries = tried, !.rebuilt = FALSE] \in Operations
        BY <1>1, <4>1 DEF Operations
      <4> QED
        BY <4>2, <4>3
    <3> QED
      BY <1>5, <3>1, <3>2
  <2> QED
    BY <2>1, <2>2, ConnectEffect, NoHolder DEF Quiet
<1>6. CASE End(p)
  <2>1. op[p].step = "closed" /\ op[p].phase # "held" /\ Quiet
    BY <1>1, <1>6 DEF End, Shaped, RoundTrips
  <2>2. PICK o : o = [Idle EXCEPT !.step = "ended", !.site = op[p].site,
                                  !.conn = op[p].conn, !.error = op[p].error]
    OBVIOUS
  <2>3. o \in Operations /\ o.phase # "held"
    <3>1. Idle \in Operations /\ Idle.phase = "ready"
      BY DEF Idle, Operations, NoStatement, Statements, Errors
    <3>2. /\ op[p].site \in {"read", "scoped", "guarded", "inside"} /\ op[p].conn \in Nat
          /\ op[p].error \in Errors
      BY <1>1, OpFields
    <3> QED
      BY <2>2, <3>1, <3>2 DEF Operations
  <2>4. Proceed(p, o)
    BY <1>6, <2>2 DEF End
  <2> QED
    BY <2>1, <2>3, <2>4, NoHolder DEF Quiet
<1>7. CASE NotStarted(p, "deadline") \/ NotStarted(p, "other")
  <2>1. PICK error \in {"deadline", "other"} : NotStarted(p, error)
    BY <1>7
  <2> QED
    BY <2>1, NotStartedCounts
<1> QED
  BY <1>2, <1>3, <1>4, <1>5, <1>6, <1>7, AcquireCounts, StartCounts DEF CallStep

LEMMA BeginCounts ==
  ASSUME RemoteInv, SlotInv, NEW p \in Callers, NEW site \in SitesOf[p], NEW sql \in Statements,
         Begin(p, site, sql)
  PROVE  SlotInv'
<1>1. op[p] \in Operations /\ Shaped(op[p]) /\ site \in {"read", "scoped", "guarded", "inside"}
  BY Known, RemoteAssumption DEF RemoteAssumption
<1>2. op[p].step = "idle" /\ op[p].phase # "held" /\ Quiet
  BY <1>1 DEF Begin, Shaped, RoundTrips
<1>3. PICK u \in Operations : Proceed(p, Connect(u))
  <2>1. [op[p] EXCEPT !.site = site, !.sql = sql] \in Operations
    BY <1>1 DEF Operations
  <2> QED
    BY <2>1 DEF Begin
<1> QED
  BY <1>2, <1>3, ConnectEffect, NoHolder DEF Quiet

LEMMA SlotsStart ==
  ASSUME Init
  PROVE  SlotInv
<1>1. Holders = {} /\ calls = {} /\ free = Slots /\ Slots \in Nat
  BY RemoteAssumption DEF Init, RemoteInit, Holders, Idle, RemoteAssumption
<1> QED
  BY <1>1, FS_EmptySet DEF SlotInv

LEMMA SlotsKeep ==
  ASSUME ConnectionsInv, SlotInv, [Next]_vars
  PROVE  SlotInv'
<1>1. RemoteInv /\ (UNCHANGED remoteVars => SlotInv')
  BY SlotsStay DEF ConnectionsInv, remoteVars, Holders
<1>2. ASSUME NEW t \in Threads, ThreadStep(t)
      PROVE  SlotInv'
  <2>1. t \in Callers
    BY ThreadsAssumption DEF ThreadsAssumption
  <2>2. CASE Operate(t)
    <3>1. PICK site \in SitesOf[t], sql \in Statements : Begin(t, site, sql)
      BY <2>2 DEF Operate
    <3> QED
      BY <3>1, <2>1, <1>1, BeginCounts
  <2> QED
    BY <1>1, <1>2, <2>1, <2>2, CallStepCounts DEF ThreadStep
<1>3. ASSUME Remote
      PROVE  SlotInv'
  <2>1. PICK k \in calls, answer \in {"ok", "fault", "other"}, lost \in BOOLEAN :
          Answer(k, answer, lost)
    BY <1>3 DEF Remote
  <2> QED
    BY <2>1, <1>1, AnswerCounts
<1> QED
  BY <1>1, <1>2, <1>3 DEF Next, Resolve, vars

\* No slot is lost or given twice: once every driver call has ended, however
\* its caller went on, all of them are free again.
THEOREM SlotsAreCounted ==
  Spec => [](free + Cardinality(Holders) + Cardinality(calls) = Slots)
<1>1. Init => ConnectionsInv /\ SlotInv
  BY ConnectionsStart, SlotsStart
<1>2. ConnectionsInv /\ SlotInv /\ [Next]_vars => (ConnectionsInv /\ SlotInv)'
  BY ConnectionsKeep, SlotsKeep
<1>3. SlotInv => free + Cardinality(Holders) + Cardinality(calls) = Slots
  BY DEF SlotInv
<1> QED
  BY <1>1, <1>2, <1>3, PTL DEF Spec
===============================================================================
