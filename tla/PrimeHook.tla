------------------------------- MODULE PrimeHook -------------------------------
(***************************************************************************)
(* The SessionStart hook: prime leaves a marker, reads from the hosted     *)
(* service on one thread per leg, prints the context and ends, while the   *)
(* program that started it kills it after some time and then takes nothing *)
(* of what it printed.  Reads that miss the deadline are left running.     *)
(*                                                                         *)
(* Each prime has a clock that counts units of five seconds since it was   *)
(* started; the clock runs on while the process waits, and while a local   *)
(* step that nothing bounds stalls.                                        *)
(***************************************************************************)
EXTENDS Naturals, Sequences

CONSTANTS
  Primes,      \* processes the hook has started
  Legs,        \* the reads, in the order they are joined
  Deadline,    \* PRIME_DEADLINE_SECONDS
  FinishBy,    \* the hook's timeout less the margin
  KillAt       \* the hook's timeout

ASSUME PrimeAssumption ==
  /\ {Deadline, FinishBy, KillAt} \subseteq Nat \ {0}
  /\ "none" \notin Primes /\ Legs \in Seq(STRING)
  /\ Deadline < FinishBy /\ FinishBy < KillAt
  /\ \A i, j \in DOMAIN Legs : Legs[i] = Legs[j] => i = j

VARIABLES
  prime,    \* each process
  status,   \* the file with prime's status: who wrote it, and what
  printed,  \* history: legs whose text a process printed
  taken     \* history: processes whose output was taken as context

primeVars == <<prime, status, printed, taken>>

LegNames == {Legs[i] : i \in DOMAIN Legs}
NoStatus == [by |-> "none", phase |-> "none", legs |-> {}]

\* pc, and the clock: elapsed since it was started, where its own clocks
\* began (prime's and the reads'), how long unbounded steps stalled.
\* leg: each thread; ended: legs joined or given up; final: the outcomes
\* frozen as ok; finisher: the thread that writes the last status; reported:
\* history, whether that was written.
Fresh == [pc |-> "none", elapsed |-> 0, began |-> 0, asked |-> 0, stalled |-> 0,
          leg |-> [n \in LegNames |-> "reading"], joined |-> 0, final |-> {},
          finisher |-> "none", reported |-> FALSE]

PrimeInit ==
  /\ prime = [p \in Primes |-> Fresh]
  /\ status = NoStatus
  /\ printed = [p \in Primes |-> {}] /\ taken = {}

Is(p, pc) == prime[p].pc = pc
Becomes(p, r) == prime' = [prime EXCEPT ![p] = r]
Step(p, pc) == Becomes(p, [prime[p] EXCEPT !.pc = pc])
Alive(p) == prime[p].pc \notin {"none", "exited", "killed"}

Fire(p) ==
  /\ Is(p, "none") /\ Step(p, "boot")
  /\ UNCHANGED <<status, printed, taken>>

--------------------------------------------------------------------------------
(* The process *)

\* The interpreter is up; prime starts its clock before it reads anything.
Up(p) ==
  /\ Is(p, "boot")
  /\ Becomes(p, [prime[p] EXCEPT !.pc = "input", !.began = prime[p].elapsed])
  /\ UNCHANGED <<status, printed, taken>>

\* The hook's input is read: only a session that starts or is cleared is primed.
Skip(p) ==
  /\ Is(p, "input") /\ Becomes(p, [Fresh EXCEPT !.pc = "exited"])
  /\ UNCHANGED <<status, printed, taken>>

Configured(p) ==
  /\ Is(p, "input") /\ Step(p, "mark")
  /\ UNCHANGED <<status, printed, taken>>

\* A configuration that cannot be read names no status file: prime fails
\* open, with a warning alone.
Unconfigured(p) == Skip(p)

\* The marker, before any read; a write that fails does not stop prime.
Mark(p) ==
  /\ Is(p, "mark")
  /\ \E written \in BOOLEAN :
       /\ status' = IF written THEN [by |-> p, phase |-> "started", legs |-> {}] ELSE status
       /\ Becomes(p, [prime[p] EXCEPT !.pc = "join", !.asked = prime[p].elapsed])
  /\ UNCHANGED <<printed, taken>>

\* Whatever a read meets, a refusal, a broken reply or its own timeout, is an
\* error of that leg alone.
ReadEnds == {"stored", "error"}

\* A leg's thread: the answer is kept first, its outcome after it.
LegStep(p, n) ==
  /\ prime[p].pc \in {"join", "print", "finish"}
  /\ \/ /\ prime[p].leg[n] = "reading"
        /\ \E now \in ReadEnds : Becomes(p, [prime[p] EXCEPT !.leg[n] = now])
     \/ /\ prime[p].leg[n] = "stored"
        /\ Becomes(p, [prime[p] EXCEPT !.leg[n] = "ok"])
  /\ UNCHANGED <<status, printed, taken>>

LegAlive(r, n) == r.leg[n] \in {"reading", "stored"}

\* (Mutation: every leg gets the whole deadline.)
RemainingOfLeg(r) == IF r.elapsed - r.asked < Deadline * (r.joined + 1)
                       THEN Deadline * (r.joined + 1) - (r.elapsed - r.asked) ELSE 0

\* What is left of the one deadline all reads share.
Remaining(r) == IF r.elapsed - r.asked < Deadline
                  THEN Deadline - (r.elapsed - r.asked) ELSE 0

\* The legs are joined in order; one that is still alive when nothing is left
\* is given up, and its outcome is frozen either way.
Join(p) ==
  LET r == prime[p]
      n == Legs[r.joined + 1]
  IN
  /\ Is(p, "join") /\ r.joined < Len(Legs)
  /\ ~LegAlive(r, n) \/ Remaining(r) = 0
  /\ Becomes(p, [r EXCEPT !.joined = @ + 1,
                          !.final = IF r.leg[n] = "ok" THEN @ \cup {n} ELSE @])
  /\ UNCHANGED <<status, printed, taken>>

\* (Mutation: the context is built from the answers there are by now.)
LiveAnswers(r) == {n \in LegNames : r.leg[n] \in {"stored", "ok"}}

\* The legs whose answers the context is built from.
Sections(r) == r.final

\* The context is built and printed, first of all.
EmitContext(p) ==
  /\ Is(p, "join") /\ prime[p].joined = Len(Legs)
  /\ printed' = [printed EXCEPT ![p] = Sections(prime[p])]
  /\ Step(p, "print")
  /\ UNCHANGED <<status, taken>>

\* An answer that holds the key is not printed, and prime fails open.
Reject(p) ==
  /\ Is(p, "join") /\ prime[p].joined = Len(Legs)
  /\ Step(p, "error")
  /\ UNCHANGED <<status, printed, taken>>

Finished(p, legs) == [by |-> p, phase |-> "finished", legs |-> legs]

ReportError(p) ==
  /\ Is(p, "error")
  /\ \E written \in BOOLEAN :
       /\ status' = IF written THEN Finished(p, {}) ELSE status
       /\ Becomes(p, [prime[p] EXCEPT !.pc = "exited", !.reported = written])
  /\ taken' = taken \cup {p}
  /\ UNCHANGED printed

StartFinisher(p) ==
  /\ Is(p, "print")
  /\ Becomes(p, [prime[p] EXCEPT !.pc = "finish", !.finisher = "status"])
  /\ UNCHANGED <<status, printed, taken>>

\* The finisher writes the status, if it can, and then starts the detached
\* process that asks for a dream phase.
WriteFinished(p) ==
  /\ Is(p, "finish") /\ prime[p].finisher = "status"
  /\ \E written \in BOOLEAN :
       /\ status' = IF written THEN Finished(p, prime[p].final) ELSE status
       /\ Becomes(p, [prime[p] EXCEPT !.finisher = "spawn", !.reported = written])
  /\ UNCHANGED <<printed, taken>>

SpawnTriggerDream(p) ==
  /\ Is(p, "finish") /\ prime[p].finisher = "spawn"
  /\ Becomes(p, [prime[p] EXCEPT !.finisher = "done"])
  /\ UNCHANGED <<status, printed, taken>>

\* The finisher is waited for until the margin before the kill.
FinishWaited(r) == r.finisher = "done" \/ r.elapsed - r.began >= FinishBy

Exit(p) ==
  /\ Is(p, "finish") /\ FinishWaited(prime[p])
  /\ Step(p, "exited") /\ taken' = taken \cup {p}
  /\ UNCHANGED <<status, printed>>

--------------------------------------------------------------------------------
(* Time *)

Waits(r) ==
  \/ /\ r.pc = "join" /\ r.joined < Len(Legs) /\ Remaining(r) > 0
     /\ LegAlive(r, Legs[r.joined + 1])
  \/ /\ r.pc = "finish" /\ ~FinishWaited(r)
Stalls(r) == r.pc \in {"boot", "input", "mark", "print", "error"}

Tick(p) ==
  LET r == prime[p] IN
  /\ Alive(p) /\ r.elapsed < KillAt
  /\ Waits(r) \/ Stalls(r)
  /\ Becomes(p, [r EXCEPT !.elapsed = @ + 1,
                          !.stalled = IF Stalls(r) THEN @ + 1 ELSE @])
  /\ UNCHANGED <<status, printed, taken>>

Kill(p) ==
  /\ Alive(p) /\ prime[p].elapsed = KillAt
  /\ Step(p, "killed")
  /\ UNCHANGED <<status, printed, taken>>

PrimeStep(p) ==
  \/ Up(p) \/ Mark(p) \/ (\E n \in LegNames : LegStep(p, n)) \/ Join(p) \/ EmitContext(p) \/ Reject(p)
  \/ ReportError(p) \/ StartFinisher(p) \/ WriteFinished(p) \/ SpawnTriggerDream(p)
  \/ Exit(p) \/ Tick(p) \/ Kill(p)

--------------------------------------------------------------------------------
(* Properties *)

\* The kill comes only to a prime that came up late, by the margin at least,
\* or whose unbounded local steps took what the reads' deadline leaves: slow
\* or silent reads, and a finisher that stalls, never lose the context.
KilledOnlyLate ==
  \A p \in Primes : Is(p, "killed") =>
    \/ prime[p].began >= KillAt - FinishBy
    \/ prime[p].stalled >= KillAt - Deadline

\* Once the process that wrote it is gone, the status tells how it went: a
\* marker that still stands was left by a prime that was killed, or gave up
\* its last status or could not write it; a finished one lists the legs that
\* were printed, and they were taken unless prime came up late.
StatusTells ==
  \A p \in Primes : status.by = p /\ ~Alive(p) =>
    CASE status.phase = "started" -> Is(p, "killed") \/ ~prime[p].reported
      [] status.phase = "finished" ->
           /\ status.legs = printed[p]
           /\ p \in taken \/ prime[p].began >= KillAt - FinishBy
                          \/ prime[p].stalled >= KillAt - Deadline
================================================================================
