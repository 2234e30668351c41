------------------------------ MODULE DreamSweep ------------------------------
(***************************************************************************)
(* Dream scheduling of one hosted (tenant, agent) scope: the sweeper loops *)
(* of several overlapping containers (hosted_sweeper.py), the in-process   *)
(* claim and the durable lease in front of each job, the phase chain on    *)
(* worker threads (hosted.py), and the control-plane rows they share       *)
(* (hosted_local.py).                                                      *)
(*                                                                         *)
(* Instants are kept as ages: a stamp is the time that has passed since    *)
(* it, capped at Interval, where every threshold the code compares it with *)
(* has been reached.  A stamp never written (NULL) is a capped age: the    *)
(* due check treats both alike.  The lease's expiry is the time left.      *)
(***************************************************************************)
EXTENDS Naturals, Sequences

CONSTANTS Containers,      \* service processes alive around a deploy
          Jobs,            \* slots: jobs that exist at the same time (bound)
          NoHolder, Gone,  \* no lease row; a row left by a dead process
          MaxMessages,     \* bound on the transcript rows appended
          TTL,             \* DREAM_LEASE_TTL
          Interval,        \* dream_interval_seconds
          Backoff,         \* dream_failure_backoff_seconds
          CanDream,        \* the extraction port is configured
          CanSummarize,    \* the summary port is configured
          TenantChanges    \* operators opt out, retire and bring back the tenant

ASSUME SweepAssumption ==
  /\ NoHolder \notin Containers
  /\ Gone \notin Containers
  /\ NoHolder # Gone
  /\ MaxMessages \in Nat
  /\ TTL \in Nat \ {0}
  /\ Interval \in Nat \ {0}
  /\ Backoff \in 0 .. Interval
  /\ {CanDream, CanSummarize, TenantChanges} \subseteq BOOLEAN

VARIABLES
  lastMessage,   \* MAX(messages.id) of the agent; 0 when it has no rows
  active,        \* tenants.active
  enabled,       \* tenants.dream_scheduling
  watermark,     \* dream_sweep_state.last_summarize_watermark
  completedAge,  \* age of dream_sweep_state.last_dream_completed_at
  failedAge,     \* age of dream_sweep_state.last_dream_failed_at
  leaseHolder,   \* dream_sweep_lease.holder
  leaseLeft,     \* dream_sweep_lease.expires_at - now, at least 0
  mode,          \* per container: serving, or past its shutdown drain
  inflight,      \* containers whose _dream_trigger_inflight has the scope
  sweep,         \* per container: the sweeper's place in _sweep_tenant
  job,           \* per slot: a job, its worker thread and its recorder
  covered,       \* history: newest row visible to a SUMMARIZE that started
  durableAge,    \* history: age of the newest durably recorded chain end
  lapsed         \* history: a lease ran out under a job that is still at work

leaseVars == <<leaseHolder, leaseLeft>>
stateVars == <<watermark, completedAge, failedAge>>
tenantVars == <<lastMessage, active, enabled>>
containerVars == <<mode, inflight, sweep>>
historyVars == <<covered, durableAge, lapsed>>
vars == <<tenantVars, stateVars, leaseVars, containerVars, job, historyVars>>

Phases == {"light", "rem", "deep", "summarize"}
FullDreamPhases == <<"light", "rem", "deep">>
Ages == 0 .. Interval

\* "watermark", "completed" and "failed" are the recorder's three writes.
RecorderSteps == {"watermark", "completed", "failed"}
JobStatus == {"free", "running", "draining"} \cup RecorderSteps

Job == [owner   : Containers \cup {NoHolder},
        status  : JobStatus,
        worker  : {"none", "dispatched", "phase"},
        phases  : Seq(Phases),    \* the phase in hand and those after it
        seen    : 0 .. MaxMessages,  \* the watermark to record; 0 for None
        dream   : BOOLEAN,        \* a full chain, stamped when it ends
        durable : BOOLEAN,        \* DreamJobOutcome.durably_recorded
        age     : Ages]           \* age of DreamJobOutcome.finished_at

NoJob == [owner |-> NoHolder, status |-> "free", worker |-> "none",
          phases |-> <<>>, seen |-> 0, dream |-> FALSE, durable |-> FALSE,
          age |-> 0]

Idle == [pc |-> "idle", seen |-> 0, due |-> FALSE]

TypeOK ==
  /\ lastMessage \in 0 .. MaxMessages
  /\ active \in BOOLEAN /\ enabled \in BOOLEAN
  /\ watermark \in 0 .. MaxMessages
  /\ completedAge \in Ages /\ failedAge \in Ages
  /\ leaseHolder \in Containers \cup {NoHolder, Gone}
  /\ leaseLeft \in 0 .. TTL
  /\ mode \in [Containers -> {"up", "stopping"}]
  /\ inflight \subseteq Containers
  /\ sweep \in [Containers -> [pc : {"idle", "state", "schedule"},
                               seen : 0 .. MaxMessages, due : BOOLEAN]]
  /\ job \in [Jobs -> Job]
  /\ covered \in 0 .. MaxMessages
  /\ durableAge \in Ages
  /\ lapsed \in BOOLEAN

Init ==
  /\ lastMessage = 0 /\ active = TRUE /\ enabled = TRUE
  /\ watermark = 0 /\ completedAge = Interval /\ failedAge = Interval
  /\ leaseHolder = NoHolder /\ leaseLeft = 0
  /\ mode = [c \in Containers |-> "up"]
  /\ inflight = {}
  /\ sweep = [c \in Containers |-> Idle]
  /\ job = [j \in Jobs |-> NoJob]
  /\ covered = 0 /\ durableAge = Interval /\ lapsed = FALSE

-------------------------------------------------------------------------------
\* The tenant's world: rows arrive, operators toggle and retire.

AppendMessage ==
  /\ active
  /\ lastMessage < MaxMessages
  /\ lastMessage' = lastMessage + 1
  /\ UNCHANGED <<active, enabled, stateVars, leaseVars, containerVars, job,
                 historyVars>>

SetDreamScheduling ==
  /\ TenantChanges
  /\ enabled' = ~enabled
  /\ UNCHANGED <<lastMessage, active, stateVars, leaseVars, containerVars, job,
                 historyVars>>

\* retire_tenant, and provision_tenant bringing the tenant back.
SetTenantActive ==
  /\ TenantChanges
  /\ active' = ~active
  /\ UNCHANGED <<lastMessage, enabled, stateVars, leaseVars, containerVars,
                 job, historyVars>>

-------------------------------------------------------------------------------
\* The sweep-state rows.

\* Mutant: an upsert that writes the stamp it is given.
LastWritten(a, b) == b

\* The newer of two stamps is the one of lesser age.
Newer(a, b) == IF a <= b THEN a ELSE b

Larger(m, n) == IF m >= n THEN m ELSE n

Older(a) == IF a < Interval THEN a + 1 ELSE a

\* The most recent of the two stamps governs; a tie favours the failure.
DreamIsDue(completed, failed) ==
  IF failed <= completed THEN failed >= Backoff ELSE completed >= Interval

-------------------------------------------------------------------------------
\* The claim in front of a job: the in-process set, then the lease row.

\* Mutants: the upsert without its WHERE; a lapsed row that cannot be stolen.
AlwaysClaimable == TRUE
Unstealable == leaseHolder = NoHolder

LeaseClaimable == leaseHolder = NoHolder \/ leaseLeft = 0

\* Mutant: the in-process set is not consulted.
CanClaimByLeaseOnly(c) == LeaseClaimable

CanClaim(c) == c \notin inflight /\ LeaseClaimable

ClaimLease(c) == leaseHolder' = c /\ leaseLeft' = TTL

\* acquire_dream_lease raised: the row may have been written all the same.
\* The in-process claim is dropped either way.
ClaimFault(c) ==
  /\ c \notin inflight
  /\ \/ LeaseClaimable /\ ClaimLease(c)
     \/ UNCHANGED leaseVars
  /\ UNCHANGED inflight

\* Mutant: a DELETE without the holder predicate.
ReleaseAnyLease(c) ==
  \/ leaseHolder' = NoHolder /\ leaseLeft' = 0
  \/ UNCHANGED leaseVars

\* A DELETE scoped to the holder.  One that raises is swallowed, and the row
\* may be gone or still there.
ReleaseLease(c) ==
  \/ leaseHolder = c /\ leaseHolder' = NoHolder /\ leaseLeft' = 0
  \/ UNCHANGED leaseVars

NewJob(c, phases, seen, dream) ==
  [NoJob EXCEPT !.owner = c, !.status = "running", !.worker = "dispatched",
                !.phases = phases, !.seen = seen, !.dream = dream]

StartJob(c, phases, seen, dream) ==
  /\ CanClaim(c)
  /\ ClaimLease(c)
  /\ inflight' = inflight \cup {c}
  /\ \E j \in Jobs :
       /\ job[j].status = "free"
       /\ job' = [job EXCEPT ![j] = NewJob(c, phases, seen, dream)]

-------------------------------------------------------------------------------
\* The sweeper: _sweep_tenant awaits the agent's watermark, awaits the state
\* row, and then schedules without yielding.

SweepWatermark(c) ==
  /\ mode[c] = "up" /\ sweep[c].pc = "idle"
  /\ active /\ enabled /\ lastMessage > 0
  /\ sweep' = [sweep EXCEPT ![c] = [Idle EXCEPT !.pc = "state",
                                                !.seen = lastMessage]]
  /\ UNCHANGED <<tenantVars, stateVars, leaseVars, mode, inflight, job,
                 historyVars>>

SweepState(c) ==
  LET seen == sweep[c].seen
      due == CanDream /\ DreamIsDue(completedAge, failedAge)
      wanted == due \/ (CanSummarize /\ seen > watermark)
  IN  /\ sweep[c].pc = "state"
      /\ sweep' = [sweep EXCEPT
           ![c] = IF wanted
                  THEN [pc |-> "schedule", seen |-> seen, due |-> due]
                  ELSE Idle]
      /\ UNCHANGED <<tenantVars, stateVars, leaseVars, mode, inflight, job,
                     historyVars>>

\* Mutant: a due dream without the trailing SUMMARIZE.
ChainWithoutSummarize(due) ==
  IF due THEN FullDreamPhases ELSE <<"summarize">>

ChainFor(due) ==
  IF ~due THEN <<"summarize">>
  ELSE FullDreamPhases \o (IF CanSummarize THEN <<"summarize">> ELSE <<>>)

\* schedule_system_dream found the tenant live and won the claim.
SweepSchedule(c) ==
  /\ sweep[c].pc = "schedule" /\ active
  /\ StartJob(c, ChainFor(sweep[c].due),
              IF CanSummarize THEN sweep[c].seen ELSE 0, sweep[c].due)
  /\ sweep' = [sweep EXCEPT ![c] = Idle]
  /\ UNCHANGED <<tenantVars, stateVars, mode, historyVars>>

\* The tenant is gone, the scope is claimed, or the claim raised.
SweepSkip(c) ==
  /\ sweep[c].pc = "schedule"
  /\ \/ (~active \/ ~CanClaim(c)) /\ UNCHANGED <<leaseVars, inflight>>
     \/ active /\ ClaimFault(c)
  /\ sweep' = [sweep EXCEPT ![c] = Idle]
  /\ UNCHANGED <<tenantVars, stateVars, mode, job, historyVars>>

\* trigger_dream_phase: a lone SUMMARIZE under the same claim, and nobody
\* records its outcome.  A trigger that loses the claim changes nothing.
TriggerDream(c) ==
  /\ mode[c] = "up" /\ active /\ CanSummarize
  /\ StartJob(c, <<"summarize">>, 0, FALSE)
  /\ UNCHANGED <<tenantVars, stateVars, mode, sweep, historyVars>>

TriggerFault(c) ==
  /\ mode[c] = "up" /\ active /\ CanSummarize
  /\ ClaimFault(c)
  /\ UNCHANGED <<tenantVars, stateVars, mode, sweep, job, historyVars>>

-------------------------------------------------------------------------------
\* The job's heartbeat.  A renewal that raises changes nothing.

RenewLease(j) ==
  /\ job[j].status = "running"
  /\ leaseHolder = job[j].owner
  /\ leaseLeft' = TTL
  /\ UNCHANGED <<leaseHolder, tenantVars, stateVars, containerVars, job,
                 historyVars>>

\* A cancelled job: its worker thread, if it has started, runs on to the end
\* of the phase in hand; if still queued it may be withdrawn.
Cancelled(j) ==
  {[job[j] EXCEPT !.status = "draining"]} \cup
    (IF job[j].worker = "dispatched" THEN {NoJob} ELSE {})

\* The row names somebody else: the job is cancelled and drops only its
\* in-process claim.
LoseLease(j) ==
  /\ job[j].status = "running"
  /\ leaseHolder # job[j].owner
  /\ \E gone \in Cancelled(j) : job' = [job EXCEPT ![j] = gone]
  /\ inflight' = inflight \ {job[j].owner}
  /\ UNCHANGED <<tenantVars, stateVars, leaseVars, mode, sweep, historyVars>>

-------------------------------------------------------------------------------
\* The phase chain of _run_system_dream_job.

\* Mutants: every chain that ran is stamped completed; the watermark advances
\* whether or not SUMMARIZE ran.
StampAlways(k) == IF k.dream THEN "completed" ELSE "free"
RecordAlways(k, ran) == IF k.seen > 0 THEN "watermark" ELSE "free"

\* The recorder's next write after the watermark, and after the job.
StampStep(k) ==
  IF ~k.dream THEN "free" ELSE IF k.durable THEN "completed" ELSE "failed"

RecorderStep(k, ran) == IF k.seen > 0 /\ ran THEN "watermark" ELSE StampStep(k)

AtStep(k, step) ==
  IF step = "free" THEN NoJob
  ELSE [k EXCEPT !.status = step, !.worker = "none", !.phases = <<>>]

\* The job returns its outcome: finished_at is minted, the in-process claim
\* dropped, the lease released, and the recorder woken.
Finish(j, durable, ran) ==
  LET ended == [job[j] EXCEPT !.durable = durable, !.age = 0] IN
  /\ job' = [job EXCEPT ![j] = AtStep(ended, RecorderStep(ended, ran))]
  /\ inflight' = inflight \ {job[j].owner}
  /\ ReleaseLease(job[j].owner)
  /\ durableAge' = IF durable /\ job[j].dream THEN 0 ELSE durableAge
  /\ UNCHANGED <<mode, sweep>>

\* A drained worker's result goes nowhere.
Drained(j) ==
  /\ job[j].status = "draining"
  /\ job' = [job EXCEPT ![j] = NoJob]
  /\ UNCHANGED <<leaseVars, containerVars, durableAge, lapsed>>

\* The worker resolves the live tenant and enters the phase.
StartPhase(j) ==
  /\ job[j].worker = "dispatched"
  /\ active
  /\ job' = [job EXCEPT ![j].worker = "phase"]
  /\ covered' = IF Head(job[j].phases) = "summarize" THEN lastMessage
                                                     ELSE covered
  /\ UNCHANGED <<tenantVars, stateVars, leaseVars, containerVars, durableAge, lapsed>>

\* The tenant is retired, the prelude's retries are spent, or the executor
\* refused the worker: the phase never ran.
PhaseNotStarted(j) ==
  /\ job[j].worker = "dispatched"
  /\ \/ job[j].status = "running" /\ Finish(j, FALSE, FALSE)
     \/ Drained(j)
  /\ UNCHANGED <<tenantVars, stateVars, covered, lapsed>>

PhaseSucceeds(j) ==
  /\ job[j].worker = "phase"
  /\ \/ /\ job[j].status = "running" /\ Len(job[j].phases) > 1
        /\ job' = [job EXCEPT ![j].worker = "dispatched",
                              ![j].phases = Tail(job[j].phases)]
        /\ UNCHANGED <<leaseVars, containerVars, durableAge, lapsed>>
     \/ /\ job[j].status = "running" /\ Len(job[j].phases) = 1
        /\ Finish(j, TRUE, Head(job[j].phases) = "summarize")
     \/ Drained(j)
  /\ UNCHANGED <<tenantVars, stateVars, covered, lapsed>>

\* Light, REM and Deep tell whether their error row landed; SUMMARIZE writes
\* none, and counts as unrecorded.
PhaseFails(j) ==
  LET phase == Head(job[j].phases) IN
  /\ job[j].worker = "phase"
  /\ \/ /\ job[j].status = "running"
        /\ \E durable \in (IF phase = "summarize" THEN {FALSE} ELSE BOOLEAN) :
             Finish(j, durable, phase = "summarize")
     \/ Drained(j)
  /\ UNCHANGED <<tenantVars, stateVars, covered, lapsed>>

-------------------------------------------------------------------------------
\* The recorder: up to three catalog writes, each retried once.  A write that
\* is reported failed may have landed.

RecordWatermark(j) ==
  /\ job[j].status = "watermark"
  /\ watermark' \in {watermark, Larger(watermark, job[j].seen)}
  /\ job' = [job EXCEPT ![j] = AtStep(job[j], StampStep(job[j]))]
  /\ UNCHANGED <<tenantVars, completedAge, failedAge, leaseVars,
                 containerVars, historyVars>>

RecordCompleted(j) ==
  /\ job[j].status = "completed"
  /\ \/ /\ completedAge' = Newer(completedAge, job[j].age)
        /\ job' = [job EXCEPT ![j] = NoJob]
     \/ /\ completedAge' \in {completedAge, Newer(completedAge, job[j].age)}
        /\ job' = [job EXCEPT ![j] = AtStep(job[j], "failed")]
  /\ UNCHANGED <<tenantVars, watermark, failedAge, leaseVars, containerVars,
                 historyVars>>

RecordFailed(j) ==
  /\ job[j].status = "failed"
  /\ failedAge' \in {failedAge, Newer(failedAge, job[j].age)}
  /\ job' = [job EXCEPT ![j] = NoJob]
  /\ UNCHANGED <<tenantVars, watermark, completedAge, leaseVars,
                 containerVars, historyVars>>

-------------------------------------------------------------------------------
\* Processes and time.

JobsOf(c) == {j \in Jobs : job[j].owner = c}

\* The end of the shutdown drain: the loop cancels every job and recorder
\* left.  Running workers go on; the leases are left to lapse.
Shutdown(c) ==
  /\ mode[c] = "up"
  /\ mode' = [mode EXCEPT ![c] = "stopping"]
  /\ sweep' = [sweep EXCEPT ![c] = Idle]
  /\ inflight' = inflight \ {c}
  /\ \E withdrawn \in SUBSET {j \in JobsOf(c) : job[j].worker = "dispatched"} :
       job' = [j \in Jobs |->
         IF j \notin JobsOf(c) THEN job[j]
         ELSE IF job[j].status \in RecorderSteps \/ j \in withdrawn THEN NoJob
         ELSE [job[j] EXCEPT !.status = "draining"]]
  /\ UNCHANGED <<tenantVars, stateVars, leaseVars, historyVars>>

\* The process dies, at any point, and another takes its place under a fresh
\* holder identity.
Restart(c) ==
  /\ mode' = [mode EXCEPT ![c] = "up"]
  /\ sweep' = [sweep EXCEPT ![c] = Idle]
  /\ inflight' = inflight \ {c}
  /\ job' = [j \in Jobs |-> IF j \in JobsOf(c) THEN NoJob ELSE job[j]]
  /\ leaseHolder' = IF leaseHolder = c THEN Gone ELSE leaseHolder
  /\ UNCHANGED <<leaseLeft, tenantVars, stateVars, historyVars>>

AtWork == {j \in Jobs : job[j].worker # "none"}

\* The lease of a job at work runs out: its renewals failed, or its phase
\* outlived the process that was to renew it.
RunsOut == leaseLeft = 1 /\ \E j \in AtWork : leaseHolder = job[j].owner

Tick ==
  /\ leaseLeft' = IF leaseLeft > 0 THEN leaseLeft - 1 ELSE 0
  /\ completedAge' = Older(completedAge)
  /\ failedAge' = Older(failedAge)
  /\ durableAge' = Older(durableAge)
  /\ lapsed' = (AtWork # {} /\ (lapsed \/ RunsOut))
  /\ job' = [j \in Jobs |->
       IF job[j].status \in RecorderSteps
       THEN [job[j] EXCEPT !.age = Older(job[j].age)] ELSE job[j]]
  /\ UNCHANGED <<tenantVars, watermark, leaseHolder, containerVars, covered>>

SweepStep(c) ==
  \/ SweepWatermark(c) \/ SweepState(c) \/ SweepSchedule(c) \/ SweepSkip(c)

JobStep(j) ==
  \/ RenewLease(j) \/ LoseLease(j)
  \/ StartPhase(j) \/ PhaseNotStarted(j) \/ PhaseSucceeds(j) \/ PhaseFails(j)
  \/ RecordWatermark(j) \/ RecordCompleted(j) \/ RecordFailed(j)

Next ==
  \/ AppendMessage \/ SetDreamScheduling \/ SetTenantActive \/ Tick
  \/ \E c \in Containers : SweepStep(c) \/ TriggerDream(c) \/ TriggerFault(c)
                            \/ Shutdown(c) \/ Restart(c)
  \/ \E j \in Jobs : JobStep(j)

Spec == Init /\ [][Next]_vars

-------------------------------------------------------------------------------
\* Fairness: the sweeper loop never stops for good, phases and writes that are
\* tried for ever are not refused for ever, a stopping process is replaced,
\* and time passes.  Nothing obliges a renewal or a release to succeed.

Running(j) == job[j].status = "running"

AtPhase(j, p) == Running(j) /\ Head(job[j].phases) = p

Fairness ==
  /\ WF_vars(Tick)
  /\ \A c \in Containers :
       /\ SF_vars(SweepWatermark(c)) /\ SF_vars(SweepState(c))
       /\ WF_vars(SweepSkip(c)) /\ SF_vars(SweepSchedule(c))
       /\ WF_vars(mode[c] = "stopping" /\ Restart(c))
  /\ \A p \in Phases :
       /\ SF_vars(\E j \in Jobs : AtPhase(j, p) /\ StartPhase(j))
       /\ SF_vars(\E j \in Jobs : AtPhase(j, p) /\ PhaseSucceeds(j))
  /\ \A j \in Jobs :
       /\ WF_vars(StartPhase(j) \/ PhaseNotStarted(j))
       /\ WF_vars(PhaseSucceeds(j) \/ PhaseFails(j))
       /\ WF_vars(RecordWatermark(j) \/ RecordCompleted(j) \/ RecordFailed(j))

FairSpec == Spec /\ Fairness

-------------------------------------------------------------------------------
\* Properties.

\* While renewals land before the lapse and a cancelled job's phase ends
\* within the lease it leaves behind, at most one worker thread, of whatever
\* container, works on the scope: across restarts, shutdowns, failed releases
\* and claims that raised after they were written (hosted.py 873-993).
OneWriter ==
  ~lapsed => \A i, j \in AtWork : i = j

\* The in-process claim is neither stranded nor shared: a container has it
\* exactly while one job of its own runs (hosted.py 873-917).
ClaimIsJob ==
  /\ \A c \in Containers :
       c \in inflight <=> \E j \in Jobs : Running(j) /\ job[j].owner = c
  /\ \A i, j \in Jobs :
       Running(i) /\ Running(j) /\ job[i].owner = job[j].owner => i = j

\* The summarize watermark never passes a row no SUMMARIZE phase has started
\* over: a chain that fails, is cancelled or is refused before SUMMARIZE
\* strands nothing, nor do rows that arrive while a job runs
\* (hosted_sweeper.py 330-449, hosted.py 1242-1254).
WatermarkCovered == watermark <= covered

\* The 24h stamp never hides a failure: it is no newer than the end of the
\* newest chain that succeeded or whose error row landed
\* (hosted_sweeper.py 409-431).
CompletedTruthful == completedAge >= durableAge

\* A stale recorder never rewinds the row: the watermark only grows, and but
\* for the passing of time no stamp gets older (hosted_local.py 1077-1157).
StampsNeverRewind ==
  [][/\ watermark' >= watermark
     /\ Tick \/ (completedAge' <= completedAge /\ failedAge' <= failedAge)]_vars

\* The lease row keeps the promises of ScopeLease (hosted_local.py 1159-1242).
Lease == INSTANCE ScopeLease WITH Holders <- Containers, Period <- TTL,
                                  holder <- leaseHolder, left <- leaseLeft

LeaseRefined == Lease!Spec

\* Every row is in time put before a SUMMARIZE phase, whatever crashes,
\* cancellations, failing phases and lost writes come between, unless triggers
\* whose claim raised after it was written take the lease for ever.
RowsEventuallySummarized ==
  <>[][\A c \in Containers : ~TriggerFault(c)]_vars =>
  \A m \in 1 .. MaxMessages : lastMessage >= m ~> covered >= m

\* No crash, cancelled job or failed release wedges the scope: the claim of
\* every process and the lease come free again and again.
NeverWedged ==
  /\ []<>LeaseClaimable
  /\ \A c \in Containers : []<>(c \notin inflight)
===============================================================================
