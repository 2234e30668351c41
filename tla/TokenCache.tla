------------------------------- MODULE TokenCache -------------------------------
(***************************************************************************)
(* TenantTokenCache: threads that need a database's short-lived token take *)
(* it from the cache or mint it, one of them at a time for a database,     *)
(* while the others wait on the condition; an invalidation discards what   *)
(* is cached and what is being minted.                                     *)
(*                                                                         *)
(* Time is a counter.  The TTL is counted on the injected clock, the wait  *)
(* for another thread's mint is not counted and may end at any time.       *)
(***************************************************************************)
EXTENDS Integers, FiniteSets, Sequences

CONSTANTS
  Threads,     \* request, event-loop and dream threads that resolve a target
  Databases,   \* database names
  MaxEntries,  \* max_entries
  TTL,         \* ttl_seconds: how long a cached token is served
  Life,        \* expiration: how long the platform honours a token
  Latency,     \* PLATFORM_API_TIMEOUT_SECONDS: how long a mint may take
  MaxTime,     \* bound: the clock
  MaxAsks,     \* bound: calls of get_token
  MaxDropped   \* bound: invalidations

ASSUME TokenAssumption ==
  /\ MaxEntries \in Nat \ {0}
  /\ TTL \in Nat \ {0} /\ Latency \in Nat /\ Life \in Nat /\ TTL + Latency <= Life
  /\ MaxTime \in Nat /\ MaxAsks \in Nat /\ MaxDropped \in Nat

VARIABLES
  now,      \* the clock
  cache,    \* entries [db, token, at], the least recently used first
  minting,  \* databases a thread mints for
  tainted,  \* of these, the ones invalidated meanwhile
  thread,   \* what each thread does
  asked,    \* history: calls of get_token
  issued,   \* history: when each token was asked of the platform, in order
  dropped   \* history: per database, the tokens asked for before its last
            \* invalidation, and how many invalidations there were

tokenVars == <<now, cache, minting, tainted, thread, asked, issued, dropped>>

-----------------------------------------------------------------------------
Resting == [pc |-> "idle", db |-> "none", token |-> 0, at |-> 0, armed |-> FALSE]

TokenInit ==
  /\ now = 0 /\ cache = <<>> /\ minting = {} /\ tainted = {}
  /\ asked = 0 /\ issued = <<>>
  /\ thread = [t \in Threads |-> Resting]
  /\ dropped = [d \in Databases |-> [upto |-> 0, times |-> 0]]

Entries(d) == {i \in DOMAIN cache : cache[i].db = d}

\* The entry of a database is taken out, if there is one.
Without(d) ==
  IF Entries(d) = {} THEN cache
  ELSE LET i == CHOOSE i \in Entries(d) : TRUE IN
       [j \in 1 .. Len(cache) - 1 |-> IF j < i THEN cache[j] ELSE cache[j + 1]]

\* What the cache still serves for d.
Fresh(d) == {e \in {cache[i] : i \in Entries(d)} : now - e.at < TTL}

\* The insert, and the eviction of the least recently used.
Insert(e) ==
  LET entries == Append(Without(e.db), e) IN
  IF Len(entries) > MaxEntries THEN Tail(entries) ELSE entries

Go(t, r) == thread' = [thread EXCEPT ![t] = r]

\* notify_all: every waiting thread looks again.
Notify(t, r) ==
  thread' = [u \in Threads |->
    IF u = t THEN r
    ELSE IF thread[u].pc = "wait" THEN [thread[u] EXCEPT !.pc = "look"] ELSE thread[u]]

-----------------------------------------------------------------------------
(* get_token *)

Ask(t, d) ==
  /\ thread[t].pc \in {"idle", "served", "failed"} /\ asked < MaxAsks
  /\ asked' = asked + 1
  /\ Go(t, [Resting EXCEPT !.pc = "look", !.db = d])
  /\ UNCHANGED <<now, cache, minting, tainted, issued, dropped>>

\* A hit is moved to the recently used end.
Hit(t) ==
  LET d == thread[t].db IN
  /\ thread[t].pc = "look"
  /\ \E e \in Fresh(d) :
       /\ cache' = Append(Without(d), e)
       /\ Go(t, [thread[t] EXCEPT !.pc = "served", !.token = e.token])
  /\ UNCHANGED <<now, minting, tainted, asked, issued, dropped>>

Mint(t) ==
  LET d == thread[t].db IN
  /\ thread[t].pc = "look" /\ Fresh(d) = {} /\ d \notin minting
  /\ minting' = minting \cup {d}
  /\ issued' = Append(issued, now)
  /\ Go(t, [thread[t] EXCEPT !.pc = "mint", !.token = Len(issued) + 1, !.armed = FALSE])
  /\ UNCHANGED <<now, cache, tainted, asked, dropped>>

Wait(t) ==
  LET d == thread[t].db IN
  /\ thread[t].pc = "look" /\ Fresh(d) = {} /\ d \in minting
  /\ Go(t, [thread[t] EXCEPT !.pc = "wait", !.armed = TRUE])
  /\ UNCHANGED <<now, cache, minting, tainted, asked, issued, dropped>>

\* The wait has ended at its bound, or had when the thread looked again.
GiveUp(t) ==
  LET d == thread[t].db IN
  /\ \/ thread[t].pc = "wait"
     \/ thread[t].pc = "look" /\ thread[t].armed /\ Fresh(d) = {} /\ d \in minting
  /\ Go(t, [thread[t] EXCEPT !.pc = "failed"])
  /\ UNCHANGED <<now, cache, minting, tainted, asked, issued, dropped>>

\* The platform refuses, or the call ends at its own bound.
MintFails(t) ==
  LET d == thread[t].db IN
  /\ thread[t].pc = "mint"
  /\ minting' = minting \ {d} /\ tainted' = tainted \ {d}
  /\ Notify(t, [thread[t] EXCEPT !.pc = "failed"])
  /\ UNCHANGED <<now, cache, asked, issued, dropped>>

\* The token arrives, and the clock is read.
Minted(t) ==
  /\ thread[t].pc = "mint"
  /\ Go(t, [thread[t] EXCEPT !.pc = "publish", !.at = now])
  /\ UNCHANGED <<now, cache, minting, tainted, asked, issued, dropped>>

\* It is cached and served, unless it was invalidated on its way.
Publish(t) ==
  LET d == thread[t].db
      invalidated == d \in tainted IN
  /\ thread[t].pc = "publish"
  /\ minting' = minting \ {d} /\ tainted' = tainted \ {d}
  /\ cache' = IF invalidated THEN cache
              ELSE Insert([db |-> d, token |-> thread[t].token, at |-> thread[t].at])
  /\ Notify(t, [thread[t] EXCEPT !.pc = IF invalidated THEN "look" ELSE "served"])
  /\ UNCHANGED <<now, asked, issued, dropped>>

\* (Mutation: a mint in flight is forgotten.)
InvalidateCached(d) ==
  /\ dropped[d].times < MaxDropped
  /\ cache' = Without(d)
  /\ dropped' = [dropped EXCEPT ![d] = [upto |-> Len(issued), times |-> @.times + 1]]
  /\ UNCHANGED <<now, minting, tainted, thread, asked, issued>>

\* The public operation; nothing in the tree calls it.
Invalidate(d) ==
  /\ dropped[d].times < MaxDropped
  /\ cache' = Without(d)
  /\ tainted' = IF d \in minting THEN tainted \cup {d} ELSE tainted
  /\ dropped' = [dropped EXCEPT ![d] = [upto |-> Len(issued), times |-> @.times + 1]]
  /\ UNCHANGED <<now, minting, thread, asked, issued>>

\* A mint's HTTP call is bounded, and caching what it returned is immediate.
InTime(t) ==
  /\ thread[t].pc = "mint" => now < issued[thread[t].token] + Latency
  /\ thread[t].pc # "publish"
Tick ==
  /\ now < MaxTime
  /\ \A t \in Threads : InTime(t)
  /\ now' = now + 1
  /\ UNCHANGED <<cache, minting, tainted, thread, asked, issued, dropped>>

-----------------------------------------------------------------------------
GetStep(t) ==
  \/ Hit(t) \/ Mint(t) \/ Wait(t) \/ GiveUp(t)
  \/ MintFails(t) \/ Minted(t) \/ Publish(t)

-----------------------------------------------------------------------------
(* Properties *)

Serves(t) == thread[t].pc # "served" /\ thread'[t].pc = "served"

\* A token is served only if it was asked for after the last invalidation of
\* its database, one in flight included, and is still honoured.
ServesLiveTokens ==
  [][\A t \in Threads : Serves(t) =>
       /\ thread'[t].token > dropped[thread[t].db].upto
       /\ now - issued[thread'[t].token] < Life]_tokenVars
===============================================================================
