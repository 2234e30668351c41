----------------------------- MODULE ServiceProofs -----------------------------
(***************************************************************************)
(* What a process of the hosted service guarantees: its sweeper and dream  *)
(* jobs, for any number of containers and job slots and any TTL, Interval  *)
(* and Backoff, and its requests, for any keys, limits and horizon.        *)
(***************************************************************************)
EXTENDS DreamSweep, HostedRequests, SequenceTheorems, FiniteSetTheorems, WellFoundedInduction,
        TLAPS

\* A worker thread belongs to a job that runs or drains and has a phase in
\* hand; a job is owned by a container, a free slot by none.
JobShape(k) ==
  /\ k.worker # "none" <=> k.status \in {"running", "draining"}
  /\ k.worker # "none" => k.phases # <<>>
  /\ k.status # "free" <=> k.owner \in Containers

TypeInv ==
  /\ TypeOK
  /\ \A j \in Jobs : JobShape(job[j])

-------------------------------------------------------------------------------
\* The operators the actions are built from.

LEMMA StampTypes ==
  ASSUME NEW a \in Ages, NEW b \in Ages
  PROVE  /\ Older(a) \in Ages /\ Newer(a, b) \in Ages
         /\ Older(a) >= a
         /\ Newer(a, b) <= a /\ Newer(a, b) <= b
         /\ Newer(a, b) \in {a, b}
  BY SweepAssumption DEF Older, Newer, Ages

LEMMA NoJobShape == NoJob \in Job /\ JobShape(NoJob)
<1>1. <<>> \in Seq(Phases)
  BY EmptySeq
<1>2. 0 \in 0 .. MaxMessages /\ 0 \in Ages
  BY SweepAssumption DEF Ages
<1>3. NoJob \in Job
  BY <1>1, <1>2 DEF NoJob, Job, JobStatus
<1>4. QED
  BY <1>3, SweepAssumption DEF JobShape, NoJob

LEMMA ChainIsPhases ==
  ASSUME NEW due \in BOOLEAN
  PROVE  ChainFor(due) \in Seq(Phases) /\ ChainFor(due) # <<>>
<1> DEFINE rest == IF CanSummarize THEN <<"summarize">> ELSE <<>>
<1>1. <<"summarize">> \in Seq(Phases) /\ <<"summarize">> # <<>>
  BY DEF Phases
<1>2. FullDreamPhases \in Seq(Phases) /\ Len(FullDreamPhases) = 3
  BY DEF FullDreamPhases, Phases
<1>3. rest \in Seq(Phases)
  BY <1>1, EmptySeq
<1> HIDE DEF rest
<1>4. /\ FullDreamPhases \o rest \in Seq(Phases)
      /\ Len(FullDreamPhases \o rest) = Len(FullDreamPhases) + Len(rest)
  BY <1>2, <1>3, ConcatProperties, Zenon
<1>5. Len(rest) \in Nat
  BY <1>3, LenProperties
<1>6. FullDreamPhases \o rest # <<>>
  BY <1>2, <1>4, <1>5
<1>7. QED
  BY <1>1, <1>4, <1>6 DEF ChainFor, rest

LEMMA RestIsPhases ==
  ASSUME NEW s \in Seq(Phases), Len(s) > 1
  PROVE  Tail(s) \in Seq(Phases) /\ Tail(s) # <<>>
<1>1. Len(<<>>) = 0
  OBVIOUS
<1>2. s # <<>>
  BY <1>1
<1>3. Tail(s) \in Seq(Phases) /\ Len(Tail(s)) = Len(s) - 1 /\ Len(s) \in Nat
  BY <1>2, HeadTailProperties, LenProperties, Zenon
<1>4. \A m, n \in Nat : n > 1 /\ m = n - 1 => m # 0
  OBVIOUS
<1>5. Len(Tail(s)) \in Nat
  BY <1>3, LenProperties, Zenon
<1>6. QED
  BY <1>1, <1>3, <1>4, <1>5, Zenon

LEMMA NewJobShape ==
  ASSUME NEW c \in Containers, NEW phases \in Seq(Phases), phases # <<>>,
         NEW seen \in 0 .. MaxMessages, NEW dream \in BOOLEAN
  PROVE  /\ NewJob(c, phases, seen, dream) \in Job
         /\ JobShape(NewJob(c, phases, seen, dream))
<1>1. 0 \in Ages
  BY SweepAssumption DEF Ages
<1>2. QED
  BY <1>1 DEF NewJob, NoJob, Job, JobStatus, JobShape

LEMMA AtStepShape ==
  ASSUME NEW k \in Job, k.owner \in Containers,
         NEW step \in RecorderSteps \cup {"free"}
  PROVE  AtStep(k, step) \in Job /\ JobShape(AtStep(k, step))
<1>1. <<>> \in Seq(Phases)
  BY EmptySeq
<1>2. QED
  BY <1>1, NoJobShape DEF AtStep, Job, JobStatus, RecorderSteps, JobShape

LEMMA NoJobIdle == NoJob.worker = "none"
  BY DEF NoJob

LEMMA AtStepIdle ==
  ASSUME NEW k \in Job, NEW step
  PROVE  AtStep(k, step).worker = "none"
  BY NoJobIdle DEF AtStep, Job

LEMMA RecorderStepTypes ==
  ASSUME NEW k \in Job, NEW ran \in BOOLEAN
  PROVE  /\ StampStep(k) \in RecorderSteps \cup {"free"}
         /\ RecorderStep(k, ran) \in RecorderSteps \cup {"free"}
  BY DEF StampStep, RecorderStep, RecorderSteps
-------------------------------------------------------------------------------
\* Type correctness: every variable keeps its type and every job its shape.

JobsTyped ==
  /\ job \in [Jobs -> Job]
  /\ \A j \in Jobs : JobShape(job[j])

\* A slot that is given a well-formed job leaves the table well formed.
LEMMA JobUpdate ==
  ASSUME JobsTyped, NEW j \in Jobs, NEW k \in Job, JobShape(k),
         job' = [job EXCEPT ![j] = k]
  PROVE  JobsTyped'
  BY DEF JobsTyped

LEMMA StartJobType ==
  ASSUME TypeInv, NEW c \in Containers,
         NEW phases \in Seq(Phases), phases # <<>>,
         NEW seen \in 0 .. MaxMessages, NEW dream \in BOOLEAN,
         StartJob(c, phases, seen, dream)
  PROVE  /\ JobsTyped'
         /\ inflight' \subseteq Containers
         /\ leaseHolder' \in Containers \cup {NoHolder, Gone}
         /\ leaseLeft' \in 0 .. TTL
<1>1. PICK j \in Jobs : job' = [job EXCEPT ![j] = NewJob(c, phases, seen, dream)]
  BY DEF StartJob
<1>2. JobsTyped'
  BY <1>1, NewJobShape, JobUpdate DEF TypeInv, TypeOK, JobsTyped
<1>3. QED
  BY <1>2, SweepAssumption DEF StartJob, ClaimLease, TypeInv, TypeOK

LEMMA ClaimFaultType ==
  ASSUME TypeInv, NEW c \in Containers, ClaimFault(c)
  PROVE  /\ leaseHolder' \in Containers \cup {NoHolder, Gone}
         /\ leaseLeft' \in 0 .. TTL
         /\ inflight' \subseteq Containers
  BY SweepAssumption DEF ClaimFault, ClaimLease, leaseVars, TypeInv, TypeOK

LEMMA FinishType ==
  ASSUME TypeInv, NEW j \in Jobs, job[j].worker # "none",
         NEW durable \in BOOLEAN, NEW ran \in BOOLEAN, Finish(j, durable, ran)
  PROVE  /\ JobsTyped'
         /\ inflight' \subseteq Containers
         /\ leaseHolder' \in Containers \cup {NoHolder, Gone}
         /\ leaseLeft' \in 0 .. TTL
         /\ durableAge' \in Ages
         /\ UNCHANGED <<mode, sweep>>
<1> DEFINE ended == [job[j] EXCEPT !.durable = durable, !.age = 0]
           left == AtStep(ended, RecorderStep(ended, ran))
<1>0. 0 \in Ages
  BY SweepAssumption DEF Ages
<1>1. job[j] \in Job /\ JobShape(job[j])
  BY DEF TypeInv, TypeOK
<1>2. job[j].owner \in Containers
  BY <1>1 DEF JobShape
<1>3. ended \in Job /\ ended.owner \in Containers
  BY <1>0, <1>1, <1>2 DEF Job
<1>4. left \in Job /\ JobShape(left)
  BY <1>3, AtStepShape, RecorderStepTypes
<1>5. job' = [job EXCEPT ![j] = left]
  BY DEF Finish
<1> HIDE DEF left
<1>6. JobsTyped'
  BY <1>4, <1>5, JobUpdate DEF TypeInv, TypeOK, JobsTyped
<1>7. QED
  BY <1>0, <1>6, SweepAssumption
     DEF Finish, ReleaseLease, leaseVars, TypeInv, TypeOK
LEMMA DrainedType ==
  ASSUME TypeInv, NEW j \in Jobs, Drained(j)
  PROVE  JobsTyped' /\ UNCHANGED <<leaseVars, containerVars, durableAge, lapsed>>
<1>1. JobsTyped'
  BY NoJobShape, JobUpdate DEF Drained, TypeInv, TypeOK, JobsTyped
<1>2. QED
  BY <1>1 DEF Drained

LEMMA TypeInvFromParts ==
  ASSUME /\ lastMessage \in 0 .. MaxMessages
         /\ active \in BOOLEAN /\ enabled \in BOOLEAN
         /\ watermark \in 0 .. MaxMessages
         /\ completedAge \in Ages /\ failedAge \in Ages
         /\ leaseHolder \in Containers \cup {NoHolder, Gone}
         /\ leaseLeft \in 0 .. TTL
         /\ mode \in [Containers -> {"up", "stopping"}]
         /\ inflight \subseteq Containers
         /\ sweep \in [Containers -> [pc : {"idle", "state", "schedule"},
                                      seen : 0 .. MaxMessages, due : BOOLEAN]]
         /\ JobsTyped
         /\ covered \in 0 .. MaxMessages
         /\ durableAge \in Ages
         /\ lapsed \in BOOLEAN
  PROVE  TypeInv
  BY DEF TypeInv, TypeOK, JobsTyped

LEMMA TypeInit == Init => TypeInv
<1> SUFFICES ASSUME Init PROVE TypeInv
  OBVIOUS
<1>1. 0 \in 0 .. MaxMessages /\ 0 \in 0 .. TTL /\ Interval \in Ages
  BY SweepAssumption DEF Ages
<1>2. JobsTyped
  BY NoJobShape DEF Init, JobsTyped
<1>3. QED
  BY <1>1, <1>2, TypeInvFromParts DEF Init, Idle

\* The sweeper's and the trigger's steps.
LEMMA SweepType ==
  ASSUME TypeInv, NEW c \in Containers,
         SweepStep(c) \/ TriggerDream(c) \/ TriggerFault(c)
  PROVE  TypeInv'
<1> USE DEF tenantVars, stateVars, leaseVars, containerVars, historyVars
<1>0. 0 \in 0 .. MaxMessages
  BY SweepAssumption
<1>1. CASE SweepWatermark(c)
  BY <1>0, <1>1 DEF SweepWatermark, Idle, TypeInv, TypeOK
<1>2. CASE SweepState(c)
  <2> DEFINE due == CanDream /\ DreamIsDue(completedAge, failedAge)
  <2>1. due \in BOOLEAN
    BY SweepAssumption DEF DreamIsDue
  <2> HIDE DEF due
  <2>2. [pc |-> "schedule", seen |-> sweep[c].seen, due |-> due]
          \in [pc : {"idle", "state", "schedule"}, seen : 0 .. MaxMessages,
               due : BOOLEAN]
    BY <2>1 DEF TypeInv, TypeOK
  <2>3. sweep' = [sweep EXCEPT ![c] =
                    [pc |-> "schedule", seen |-> sweep[c].seen, due |-> due]]
        \/ sweep' = [sweep EXCEPT ![c] = Idle]
    BY <1>2 DEF SweepState, due
  <2>4. QED
    BY <1>0, <1>2, <2>2, <2>3 DEF SweepState, Idle, TypeInv, TypeOK
<1>3. CASE SweepSchedule(c)
  <2>1. /\ sweep[c].due \in BOOLEAN
        /\ (IF CanSummarize THEN sweep[c].seen ELSE 0) \in 0 .. MaxMessages
    BY <1>0 DEF TypeInv, TypeOK
  <2>2. /\ JobsTyped'
        /\ inflight' \subseteq Containers
        /\ leaseHolder' \in Containers \cup {NoHolder, Gone}
        /\ leaseLeft' \in 0 .. TTL
    BY <1>3, <2>1, ChainIsPhases, StartJobType DEF SweepSchedule
  <2>3. sweep' \in [Containers -> [pc : {"idle", "state", "schedule"},
                                   seen : 0 .. MaxMessages, due : BOOLEAN]]
    BY <1>0, <1>3 DEF SweepSchedule, Idle, TypeInv, TypeOK
  <2>4. QED
    BY <1>3, <2>2, <2>3 DEF SweepSchedule, TypeInv, TypeOK, JobsTyped
<1>4. CASE SweepSkip(c)
  <2>1. /\ inflight' \subseteq Containers
        /\ leaseHolder' \in Containers \cup {NoHolder, Gone}
        /\ leaseLeft' \in 0 .. TTL
    BY <1>4, ClaimFaultType DEF SweepSkip, TypeInv, TypeOK
  <2>2. QED
    BY <1>0, <1>4, <2>1 DEF SweepSkip, Idle, TypeInv, TypeOK
<1>5. CASE TriggerDream(c)
  <2>1. <<"summarize">> \in Seq(Phases) /\ <<"summarize">> # <<>>
    BY DEF Phases
  <2>2. /\ JobsTyped'
        /\ inflight' \subseteq Containers
        /\ leaseHolder' \in Containers \cup {NoHolder, Gone}
        /\ leaseLeft' \in 0 .. TTL
    BY <1>0, <1>5, <2>1, StartJobType DEF TriggerDream
  <2>3. QED
    BY <1>5, <2>2 DEF TriggerDream, TypeInv, TypeOK, JobsTyped
<1>6. CASE TriggerFault(c)
  BY <1>6, ClaimFaultType DEF TriggerFault, TypeInv, TypeOK
<1>7. QED
  BY <1>1, <1>2, <1>3, <1>4, <1>5, <1>6 DEF SweepStep
\* The steps of a job: its heartbeat, its phases and its recorder.
LEMMA JobStepType ==
  ASSUME TypeInv, NEW j \in Jobs, JobStep(j)
  PROVE  TypeInv'
<1> USE DEF tenantVars, stateVars, leaseVars, containerVars, historyVars
<1>0. /\ job[j] \in Job /\ JobShape(job[j])
      /\ job[j].worker # "none" => job[j].owner \in Containers
      /\ JobsTyped
      /\ TTL \in 0 .. TTL
  BY SweepAssumption DEF TypeInv, TypeOK, JobsTyped, JobShape
<1>1. CASE RenewLease(j)
  BY <1>0, <1>1 DEF RenewLease, TypeInv, TypeOK
<1>2. CASE LoseLease(j)
  <2>1. PICK gone \in Cancelled(j) : job' = [job EXCEPT ![j] = gone]
    BY <1>2 DEF LoseLease
  <2>2. gone \in Job /\ JobShape(gone)
    BY <1>0, <1>2, NoJobShape DEF Cancelled, LoseLease, Job, JobStatus, JobShape
  <2>3. JobsTyped'
    BY <1>0, <2>1, <2>2, JobUpdate
  <2>4. QED
    BY <1>2, <2>3 DEF LoseLease, TypeInv, TypeOK, JobsTyped
<1>3. CASE StartPhase(j)
  <2>1. [job[j] EXCEPT !.worker = "phase"] \in Job
    BY <1>0 DEF Job
  <2>2. JobShape([job[j] EXCEPT !.worker = "phase"])
    BY <1>0, <1>3 DEF StartPhase, JobShape, Job
  <2>3. job' = [job EXCEPT ![j] = [job[j] EXCEPT !.worker = "phase"]]
    BY <1>3 DEF StartPhase
  <2>4. JobsTyped'
    BY <1>0, <2>1, <2>2, <2>3, JobUpdate
  <2>5. QED
    BY <1>3, <2>4 DEF StartPhase, TypeInv, TypeOK, JobsTyped
<1>4. CASE PhaseNotStarted(j)
  <2>1. CASE Finish(j, FALSE, FALSE)
    BY <1>4, <2>1, FinishType DEF PhaseNotStarted, TypeInv, TypeOK, JobsTyped
  <2>2. CASE Drained(j)
    BY <1>4, <2>2, DrainedType DEF PhaseNotStarted, TypeInv, TypeOK, JobsTyped
  <2>3. QED
    BY <1>4, <2>1, <2>2 DEF PhaseNotStarted
<1>5. CASE PhaseSucceeds(j)
  <2>1. CASE /\ job[j].status = "running" /\ Len(job[j].phases) > 1
             /\ job' = [job EXCEPT ![j].worker = "dispatched",
                                   ![j].phases = Tail(job[j].phases)]
             /\ UNCHANGED <<leaseVars, containerVars, durableAge, lapsed>>
    <3> DEFINE next == [job[j] EXCEPT !.worker = "dispatched",
                                      !.phases = Tail(job[j].phases)]
    <3>1. job[j].phases \in Seq(Phases) /\ job[j].phases # <<>>
      BY <1>0, <1>5 DEF PhaseSucceeds, Job, JobShape
    <3>2. Tail(job[j].phases) \in Seq(Phases) /\ Tail(job[j].phases) # <<>>
      BY <2>1, <3>1, RestIsPhases
    <3>3. next \in Job /\ JobShape(next)
      BY <1>0, <2>1, <3>2 DEF Job, JobShape
    <3>4. job' = [job EXCEPT ![j] = next]
      BY <1>0, <2>1 DEF JobsTyped, Job
    <3>5. JobsTyped'
      BY <1>0, <3>3, <3>4, JobUpdate
    <3>6. QED
      BY <1>5, <2>1, <3>5 DEF PhaseSucceeds, TypeInv, TypeOK, JobsTyped
  <2>2. CASE Finish(j, TRUE, Head(job[j].phases) = "summarize")
    <3>1. (Head(job[j].phases) = "summarize") \in BOOLEAN
      OBVIOUS
    <3>2. job[j].worker # "none" /\ UNCHANGED <<tenantVars, stateVars, covered, lapsed>>
      BY <1>5, <2>2 DEF PhaseSucceeds
    <3>3. QED
      BY <2>2, <3>1, <3>2, FinishType DEF TypeInv, TypeOK, JobsTyped
  <2>3. CASE Drained(j)
    BY <1>5, <2>3, DrainedType DEF PhaseSucceeds, TypeInv, TypeOK, JobsTyped
  <2>4. QED
    BY <1>5, <2>1, <2>2, <2>3 DEF PhaseSucceeds
<1>6. CASE PhaseFails(j)
  <2>1. CASE \E durable \in BOOLEAN :
               Finish(j, durable, Head(job[j].phases) = "summarize")
    <3>1. (Head(job[j].phases) = "summarize") \in BOOLEAN
      OBVIOUS
    <3>2. job[j].worker # "none" /\ UNCHANGED <<tenantVars, stateVars, covered, lapsed>>
      BY <1>6 DEF PhaseFails
    <3>3. QED
      BY <2>1, <3>1, <3>2, FinishType DEF TypeInv, TypeOK, JobsTyped
  <2>2. CASE Drained(j)
    BY <1>6, <2>2, DrainedType DEF PhaseFails, TypeInv, TypeOK, JobsTyped
  <2>3. QED
    BY <1>6, <2>1, <2>2 DEF PhaseFails
<1>7. CASE RecordWatermark(j)
  <2>1. job[j].owner \in Containers
    BY <1>0, <1>7 DEF RecordWatermark, JobShape
  <2>2. JobsTyped'
    BY <1>0, <1>7, <2>1, AtStepShape, RecorderStepTypes, JobUpdate
       DEF RecordWatermark
  <2>3. watermark' \in 0 .. MaxMessages
    <3>1. watermark \in 0 .. MaxMessages
      BY DEF TypeInv, TypeOK
    <3>2. job[j].seen \in 0 .. MaxMessages
      BY <1>0 DEF Job
    <3>3. watermark' \in {watermark, Larger(watermark, job[j].seen)}
      BY <1>7 DEF RecordWatermark
    <3>4. QED
      BY <3>1, <3>2, <3>3 DEF Larger
  <2>4. QED
    BY <1>7, <2>2, <2>3 DEF RecordWatermark, TypeInv, TypeOK, JobsTyped
<1>8. CASE RecordCompleted(j)
  <2>1. job[j].owner \in Containers /\ job[j].age \in Ages
    BY <1>0, <1>8 DEF RecordCompleted, JobShape, Job
  <2>2. AtStep(job[j], "failed") \in Job /\ JobShape(AtStep(job[j], "failed"))
    BY <1>0, <2>1, AtStepShape DEF RecorderSteps
  <2>3. JobsTyped'
    BY <1>0, <1>8, <2>2, NoJobShape, JobUpdate DEF RecordCompleted
  <2>4. completedAge' \in Ages
    <3>1. completedAge \in Ages
      BY DEF TypeInv, TypeOK
    <3>2. Newer(completedAge, job[j].age) \in Ages
      BY <2>1, <3>1, StampTypes
    <3>3. completedAge' \in {completedAge, Newer(completedAge, job[j].age)}
      BY <1>8 DEF RecordCompleted
    <3> QED
      BY <3>1, <3>2, <3>3
  <2>5. QED
    BY <1>8, <2>3, <2>4 DEF RecordCompleted, TypeInv, TypeOK, JobsTyped
<1>9. CASE RecordFailed(j)
  <2>1. JobsTyped'
    BY <1>0, <1>9, NoJobShape, JobUpdate DEF RecordFailed
  <2>2. failedAge' \in Ages
    BY <1>0, <1>9, StampTypes DEF RecordFailed, Job, TypeInv, TypeOK
  <2>3. QED
    BY <1>9, <2>1, <2>2 DEF RecordFailed, TypeInv, TypeOK, JobsTyped
<1>10. QED
  BY <1>1, <1>2, <1>3, <1>4, <1>5, <1>6, <1>7, <1>8, <1>9 DEF JobStep
\* The steps of processes, of the tenant's world and of time.
LEMMA WorldType ==
  ASSUME TypeInv,
         \/ AppendMessage \/ SetDreamScheduling \/ SetTenantActive \/ Tick
         \/ \E c \in Containers : Shutdown(c) \/ Restart(c)
  PROVE  TypeInv'
<1> USE DEF tenantVars, stateVars, leaseVars, containerVars, historyVars
<1>1. CASE AppendMessage
  BY <1>1, SweepAssumption DEF AppendMessage, TypeInv, TypeOK
<1>2. CASE SetDreamScheduling
  BY <1>2 DEF SetDreamScheduling, TypeInv, TypeOK
<1>3. CASE SetTenantActive
  BY <1>3 DEF SetTenantActive, TypeInv, TypeOK
<1>4. CASE Tick
  <2>1. ASSUME NEW j \in Jobs
        PROVE  job'[j] \in Job /\ JobShape(job'[j])
    <3>1. job[j] \in Job /\ JobShape(job[j])
      BY DEF TypeInv, TypeOK
    <3>2. Older(job[j].age) \in Ages
      BY <3>1, StampTypes DEF Job
    <3>3. job'[j] \in {job[j], [job[j] EXCEPT !.age = Older(job[j].age)]}
      BY <1>4 DEF Tick
    <3>4. QED
      BY <3>1, <3>2, <3>3 DEF Job, JobShape
  <2>2. JobsTyped'
    BY <1>4, <2>1 DEF Tick, JobsTyped
  <2>3. /\ completedAge' \in Ages /\ failedAge' \in Ages
        /\ durableAge' \in Ages
    BY <1>4, StampTypes DEF Tick, TypeInv, TypeOK
  <2>4. leaseLeft' \in 0 .. TTL
    BY <1>4, SweepAssumption DEF Tick, TypeInv, TypeOK
  <2>5. QED
    BY <1>4, <2>2, <2>3, <2>4 DEF Tick, TypeInv, TypeOK, JobsTyped
<1>5. ASSUME NEW c \in Containers, Shutdown(c)
      PROVE  TypeInv'
  <2>1. PICK withdrawn \in SUBSET {j \in JobsOf(c) : job[j].worker = "dispatched"} :
          job' = [j \in Jobs |->
            IF j \notin JobsOf(c) THEN job[j]
            ELSE IF job[j].status \in RecorderSteps \/ j \in withdrawn THEN NoJob
            ELSE [job[j] EXCEPT !.status = "draining"]]
    BY <1>5 DEF Shutdown
  <2>2. ASSUME NEW j \in Jobs
        PROVE  job'[j] \in Job /\ JobShape(job'[j])
    <3>1. job[j] \in Job /\ JobShape(job[j])
      BY DEF TypeInv, TypeOK
    <3>2. CASE job'[j] \in {job[j], NoJob}
      BY <3>1, <3>2, NoJobShape
    <3>3. CASE job'[j] = [job[j] EXCEPT !.status = "draining"]
               /\ j \in JobsOf(c) /\ job[j].status \notin RecorderSteps
      <4>1. job[j].status # "free"
        BY <1>5, <3>1, <3>3 DEF JobsOf, JobShape
      <4>2. job[j].status \in {"running", "draining"}
        BY <3>1, <3>3, <4>1 DEF Job, JobStatus
      <4>3. QED
        BY <3>1, <3>3, <4>1, <4>2 DEF Job, JobStatus, JobShape
    <3>4. QED
      BY <2>1, <3>2, <3>3
  <2>3. JobsTyped'
    BY <2>1, <2>2 DEF JobsTyped
  <2>4. QED
    BY <1>5, <2>3, SweepAssumption
       DEF Shutdown, Idle, TypeInv, TypeOK, JobsTyped
<1>6. ASSUME NEW c \in Containers, Restart(c)
      PROVE  TypeInv'
  <2>1. JobsTyped'
    BY <1>6, NoJobShape DEF Restart, JobsTyped, TypeInv, TypeOK
  <2>2. QED
    BY <1>6, <2>1, SweepAssumption
       DEF Restart, Idle, TypeInv, TypeOK, JobsTyped
<1>7. QED
  BY <1>1, <1>2, <1>3, <1>4, <1>5, <1>6
LEMMA TypeStep == TypeInv /\ [Next]_vars => TypeInv'
<1> SUFFICES ASSUME TypeInv, [Next]_vars PROVE TypeInv'
  OBVIOUS
<1>1. CASE Next
  BY <1>1, SweepType, JobStepType, WorldType DEF Next
<1>2. CASE UNCHANGED vars
  BY <1>2 DEF vars, tenantVars, stateVars, leaseVars, containerVars,
              historyVars, TypeInv, TypeOK
<1>3. QED
  BY <1>1, <1>2

\* Every variable keeps its type, and a worker thread is always a running or
\* draining job's, with a phase in hand.
THEOREM TypeInvariant == Spec => []TypeInv
  BY TypeInit, TypeStep, PTL DEF Spec

\* The variables of the sweep, the lease and the jobs keep their types for
\* every number of containers and slots and every TTL, interval and backoff.
THEOREM TypeCorrect == Spec => []TypeOK
<1>1. TypeInv => TypeOK
  BY DEF TypeInv
<1>2. QED
  BY <1>1, TypeInvariant, PTL
-------------------------------------------------------------------------------
\* One writer.  OneWriter alone is not inductive: a second claim is refused
\* because a worker's lease is held and unlapsed, so the invariant says that.

Writing(j) == job[j].worker # "none"

HoldsLease(j) == leaseHolder = job[j].owner /\ leaseLeft > 0

WriterInv ==
  ~lapsed =>
    /\ \A j \in Jobs : Writing(j) => HoldsLease(j)
    /\ \A i, j \in Jobs : Writing(i) /\ Writing(j) => i = j

LEMMA WriterInit == Init => WriterInv
  BY DEF Init, WriterInv, Writing, NoJob

\* A claimable lease means that nobody writes.
LEMMA ClaimableIdle ==
  ASSUME TypeInv, WriterInv, ~lapsed, LeaseClaimable
  PROVE  \A j \in Jobs : ~Writing(j)
<1> SUFFICES ASSUME NEW j \in Jobs, Writing(j) PROVE FALSE
  OBVIOUS
<1>1. job[j].owner \in Containers /\ job[j].owner = leaseHolder /\ leaseLeft > 0
  BY DEF WriterInv, Writing, HoldsLease, TypeInv, TypeOK, JobShape
<1>2. QED
  BY <1>1, SweepAssumption DEF LeaseClaimable, TypeInv, TypeOK

\* A job that starts is the only one to write, and holds the lease.
LEMMA StartJobWriter ==
  ASSUME TypeInv, WriterInv, ~lapsed,
         NEW c \in Containers, NEW phases, NEW seen, NEW dream,
         StartJob(c, phases, seen, dream)
  PROVE  WriterInv'
<1>1. PICK j \in Jobs : job' = [job EXCEPT ![j] = NewJob(c, phases, seen, dream)]
  BY DEF StartJob
<1>2. \A i \in Jobs : ~Writing(i)
  BY ClaimableIdle DEF StartJob, CanClaim
<1>3. NewJob(c, phases, seen, dream).owner = c
  BY DEF NewJob, NoJob
<1>4. \A i \in Jobs : Writing(i)' => i = j
  BY <1>1, <1>2 DEF Writing, TypeInv, TypeOK
<1>5. job'[j].owner = c
  BY <1>1, <1>3 DEF TypeInv, TypeOK
<1>6. leaseHolder' = c /\ leaseLeft' > 0
  BY SweepAssumption DEF StartJob, ClaimLease
<1>7. QED
  BY <1>4, <1>5, <1>6 DEF WriterInv, HoldsLease

\* A claim that raised leaves no worker without its lease.
LEMMA ClaimFaultWriter ==
  ASSUME TypeInv, WriterInv, ~lapsed,
         NEW c \in Containers, ClaimFault(c), UNCHANGED job
  PROVE  WriterInv'
<1>1. CASE LeaseClaimable
  BY <1>1, ClaimableIdle DEF WriterInv, Writing
<1>2. CASE UNCHANGED leaseVars
  BY <1>2 DEF leaseVars, WriterInv, Writing, HoldsLease
<1>3. QED
  BY <1>1, <1>2 DEF ClaimFault

\* When no job is added to the writers and the lease stays, nothing changes.
LEMMA FewerWriters ==
  ASSUME WriterInv, ~lapsed,
         UNCHANGED leaseHolder, leaseLeft > 0 => leaseLeft' > 0,
         \A j \in Jobs : Writing(j)' => Writing(j) /\ job'[j].owner = job[j].owner
  PROVE  WriterInv'
  BY DEF WriterInv, HoldsLease

\* A job that ends was the only writer: its release harms nobody.
LEMMA FinishWriter ==
  ASSUME TypeInv, WriterInv, ~lapsed, NEW j \in Jobs,
         job[j].worker # "none", NEW durable \in BOOLEAN, NEW ran \in BOOLEAN,
         Finish(j, durable, ran)
  PROVE  WriterInv'
<1> DEFINE ended == [job[j] EXCEPT !.durable = durable, !.age = 0]
           left == AtStep(ended, RecorderStep(ended, ran))
<1>1. job' = [job EXCEPT ![j] = left]
  BY DEF Finish
<1>2. left.worker = "none"
  BY DEF AtStep, NoJob, TypeInv, TypeOK, Job
<1>3. \A i \in Jobs : ~Writing(i)'
  BY <1>1, <1>2 DEF WriterInv, Writing, TypeInv, TypeOK
<1>4. QED
  BY <1>3 DEF WriterInv

LEMMA DrainedWriter ==
  ASSUME TypeInv, WriterInv, ~lapsed, NEW j \in Jobs,
         Drained(j)
  PROVE  WriterInv'
<1>1. \A i \in Jobs : Writing(i)' => Writing(i) /\ job'[i].owner = job[i].owner
  BY DEF Drained, NoJob, Writing, TypeInv, TypeOK
<1>2. QED
  BY <1>1, FewerWriters DEF Drained, leaseVars

\* Only the passing of time tells whether a lease has lapsed under a job.
LEMMA OnlyTickLapses == [Next]_vars => Tick \/ lapsed' = lapsed
<1> USE DEF historyVars
<1>1. ASSUME NEW c \in Containers, SweepStep(c) \/ TriggerDream(c) \/ TriggerFault(c)
                                     \/ Shutdown(c) \/ Restart(c)
      PROVE  lapsed' = lapsed
  BY <1>1 DEF SweepStep, SweepWatermark, SweepState, SweepSchedule, SweepSkip,
              TriggerDream, TriggerFault, Shutdown, Restart
<1>2. ASSUME NEW j \in Jobs, JobStep(j)
      PROVE  lapsed' = lapsed
  BY <1>2 DEF JobStep, RenewLease, LoseLease, StartPhase, PhaseNotStarted,
              PhaseSucceeds, PhaseFails, RecordWatermark, RecordCompleted, RecordFailed
<1>3. CASE AppendMessage \/ SetDreamScheduling \/ SetTenantActive \/ UNCHANGED vars
  BY <1>3 DEF AppendMessage, SetDreamScheduling, SetTenantActive, vars
<1>4. QED
  BY <1>1, <1>2, <1>3 DEF Next

LEMMA WriterStep == TypeInv /\ TypeInv' /\ WriterInv /\ [Next]_vars => WriterInv'
<1> SUFFICES ASSUME TypeInv, TypeInv', WriterInv, [Next]_vars, ~lapsed'
             PROVE  WriterInv'
  BY DEF WriterInv
<1> USE DEF tenantVars, leaseVars, containerVars
<1> DEFINE Fewer == \A j \in Jobs : Writing(j)' => /\ Writing(j)
                                                    /\ job'[j].owner = job[j].owner
<1>a. ASSUME Tick, NEW j \in Jobs
      PROVE  job'[j].worker = job[j].worker /\ job'[j].owner = job[j].owner
  <2>1. job'[j] \in {job[j], [job[j] EXCEPT !.age = Older(job[j].age)]}
    BY <1>a DEF Tick
  <2>2. job[j] \in Job
    BY DEF TypeInv, TypeOK
  <2>3. QED
    BY <2>1, <2>2 DEF Job
<1>b. CASE Tick /\ AtWork = {}
  <2>1. \A j \in Jobs : ~Writing(j)
    BY <1>b DEF AtWork, Writing
  <2>2. QED
    BY <1>a, <1>b, <2>1 DEF WriterInv, Writing
<1>c. ~lapsed \/ (Tick /\ AtWork = {})
  BY OnlyTickLapses DEF Tick, TypeInv, TypeOK
<1> SUFFICES ASSUME ~lapsed, ~(Tick /\ AtWork = {}) PROVE WriterInv'
  BY <1>b, <1>c
<1>1. CASE UNCHANGED <<leaseVars, job>>
  BY <1>1 DEF WriterInv, Writing, HoldsLease
<1>2. CASE Tick
  <2>1. PICK j \in Jobs : Writing(j)
    BY <1>2 DEF AtWork, Writing
  <2>2. HoldsLease(j) /\ j \in AtWork
    BY <2>1 DEF WriterInv, HoldsLease, AtWork, Writing
  <2>3. leaseLeft # 1
    BY <1>2, <2>2 DEF Tick, RunsOut, HoldsLease
  <2>4. leaseLeft' > 0
    BY <1>2, <2>2, <2>3 DEF Tick, HoldsLease, TypeInv, TypeOK
  <2>5. leaseHolder' = leaseHolder
    BY <1>2 DEF Tick
  <2>6. Fewer
    BY <1>2, <1>a DEF Writing
  <2>7. QED
    BY <2>4, <2>5, <2>6, FewerWriters
<1>3. ASSUME NEW c \in Containers,
             SweepStep(c) \/ TriggerDream(c) \/ TriggerFault(c)
      PROVE  WriterInv'
  <2>1. CASE SweepWatermark(c) \/ SweepState(c)
    BY <1>1, <2>1 DEF SweepWatermark, SweepState
  <2>2. CASE SweepSchedule(c)
    BY <2>2, StartJobWriter DEF SweepSchedule
  <2>3. CASE SweepSkip(c)
    BY <1>1, <2>3, ClaimFaultWriter DEF SweepSkip
  <2>4. CASE TriggerDream(c)
    BY <2>4, StartJobWriter DEF TriggerDream
  <2>5. CASE TriggerFault(c)
    BY <2>5, ClaimFaultWriter DEF TriggerFault
  <2>6. QED
    BY <1>3, <2>1, <2>2, <2>3, <2>4, <2>5 DEF SweepStep
<1>4. ASSUME NEW c \in Containers, Shutdown(c)
      PROVE  WriterInv'
  <2>1. Fewer
    <3> SUFFICES ASSUME NEW j \in Jobs
                 PROVE  Writing(j)' => Writing(j) /\ job'[j].owner = job[j].owner
      OBVIOUS
    <3>1. job'[j] \in {job[j], NoJob, [job[j] EXCEPT !.status = "draining"]}
      BY <1>4 DEF Shutdown
    <3>2. job[j] \in Job
      BY DEF TypeInv, TypeOK
    <3>3. QED
      BY <3>1, <3>2 DEF Writing, NoJob, Job
  <2>2. QED
    BY <1>4, <2>1, FewerWriters DEF Shutdown
<1>5. ASSUME NEW c \in Containers, Restart(c)
      PROVE  WriterInv'
  <2>1. Fewer
    BY <1>5 DEF Restart, Writing, NoJob
  <2>2. CASE leaseHolder = c
    <3>1. \A j \in Jobs : ~Writing(j)'
      BY <1>5, <2>2 DEF Restart, Writing, NoJob, WriterInv, HoldsLease, JobsOf
    <3>2. QED
      BY <3>1 DEF WriterInv
  <2>3. CASE leaseHolder # c
    BY <1>5, <2>1, <2>3, FewerWriters DEF Restart
  <2>4. QED
    BY <2>2, <2>3
<1>6. ASSUME NEW j \in Jobs, JobStep(j)
      PROVE  WriterInv'
  <2>1. CASE RenewLease(j)
    <3>1. leaseLeft' > 0
      BY <2>1, SweepAssumption DEF RenewLease
    <3>2. QED
      BY <2>1, <3>1, FewerWriters DEF RenewLease, Writing
  <2>2. CASE LoseLease(j)
    <3>1. Writing(j)
      BY <2>2 DEF LoseLease, Writing, TypeInv, JobShape
    <3>2. FALSE
      BY <2>2, <3>1 DEF LoseLease, WriterInv, HoldsLease
    <3>3. QED
      BY <3>2
  <2>3. CASE StartPhase(j)
    <3>1. Fewer
      BY <2>3 DEF StartPhase, Writing, TypeInv, TypeOK, Job
    <3>2. QED
      BY <2>3, <3>1, FewerWriters DEF StartPhase
  <2>4. CASE PhaseNotStarted(j)
    <3>1. CASE Finish(j, FALSE, FALSE)
      BY <2>4, <3>1, FinishWriter DEF PhaseNotStarted
    <3>2. CASE Drained(j)
      BY <3>2, DrainedWriter
    <3>3. QED
      BY <2>4, <3>1, <3>2 DEF PhaseNotStarted
  <2>5. CASE PhaseSucceeds(j)
    <3>0. (Head(job[j].phases) = "summarize") \in BOOLEAN
      OBVIOUS
    <3>1. CASE /\ job' = [job EXCEPT ![j].worker = "dispatched",
                                     ![j].phases = Tail(job[j].phases)]
               /\ UNCHANGED <<leaseVars, containerVars, durableAge, lapsed>>
      <4>1. Fewer
        BY <2>5, <3>1 DEF PhaseSucceeds, Writing, TypeInv, TypeOK, Job
      <4>2. QED
        BY <3>1, <4>1, FewerWriters
    <3>2. CASE Finish(j, TRUE, Head(job[j].phases) = "summarize")
      BY <2>5, <3>0, <3>2, FinishWriter DEF PhaseSucceeds
    <3>3. CASE Drained(j)
      BY <3>3, DrainedWriter
    <3>4. QED
      BY <2>5, <3>1, <3>2, <3>3 DEF PhaseSucceeds
  <2>6. CASE PhaseFails(j)
    <3>0. (Head(job[j].phases) = "summarize") \in BOOLEAN
      OBVIOUS
    <3>1. CASE \E durable \in BOOLEAN :
                 Finish(j, durable, Head(job[j].phases) = "summarize")
      BY <2>6, <3>0, <3>1, FinishWriter DEF PhaseFails
    <3>2. CASE Drained(j)
      BY <3>2, DrainedWriter
    <3>3. QED
      BY <2>6, <3>1, <3>2 DEF PhaseFails
  <2>7. CASE RecordWatermark(j) \/ RecordCompleted(j) \/ RecordFailed(j)
    <3>1. job'[j].worker = "none"
      BY <2>7, NoJobIdle, AtStepIdle
         DEF RecordWatermark, RecordCompleted, RecordFailed, TypeInv, TypeOK
    <3>2. \A i \in Jobs : i # j => job'[i] = job[i]
      BY <2>7 DEF RecordWatermark, RecordCompleted, RecordFailed,
                  TypeInv, TypeOK
    <3>3. Fewer
      BY <3>1, <3>2 DEF Writing
    <3>4. QED
      BY <2>7, <3>3, FewerWriters
         DEF RecordWatermark, RecordCompleted, RecordFailed
  <2>8. QED
    BY <1>6, <2>1, <2>2, <2>3, <2>4, <2>5, <2>6, <2>7 DEF JobStep
<1>7. CASE AppendMessage \/ SetDreamScheduling \/ SetTenantActive
           \/ UNCHANGED vars
  BY <1>1, <1>7 DEF AppendMessage, SetDreamScheduling, SetTenantActive, vars
<1>8. QED
  BY <1>2, <1>3, <1>4, <1>5, <1>6, <1>7 DEF Next

\* No two worker threads ever work on the scope, for any number of containers
\* and job slots and any lease length, unless a lease has lapsed under one of them.
THEOREM WritersExclusive == Spec => []OneWriter
<1>1. WriterInv => OneWriter
  BY DEF WriterInv, OneWriter, Writing, AtWork
<1>2. QED
  BY <1>1, WriterInit, WriterStep, TypeInvariant, PTL DEF Spec
-------------------------------------------------------------------------------
\* The watermark.  What a job is to record was read from the transcript before
\* the job was made, and a SUMMARIZE that has started has it in view.

CoveredJob(k) ==
  /\ k.seen <= lastMessage
  /\ k.status = "watermark" => k.seen <= covered
  /\ k.worker = "phase" /\ Head(k.phases) = "summarize" => k.seen <= covered

CoverInv ==
  /\ watermark <= covered
  /\ covered <= lastMessage
  /\ \A c \in Containers : sweep[c].seen <= lastMessage
  /\ \A j \in Jobs : CoveredJob(job[j])

LEMMA CoverInit == Init => CoverInv
  BY DEF Init, CoverInv, CoveredJob, Idle, NoJob

LEMMA NoJobCovered == TypeInv => CoveredJob(NoJob)
  BY DEF CoveredJob, NoJob, TypeInv, TypeOK

\* Rows and coverage only grow, so a job once covered stays covered.
LEMMA CoveredStays ==
  ASSUME TypeInv, TypeInv', lastMessage' >= lastMessage, covered' >= covered,
         NEW k \in Job, CoveredJob(k)
  PROVE  CoveredJob(k)'
  BY DEF CoveredJob, Job, TypeInv, TypeOK

\* A step that leaves the rows and the watermark alone owes a proof only for
\* the jobs it changes.
LEMMA CoverKeep ==
  ASSUME TypeInv, TypeInv', CoverInv,
         UNCHANGED <<lastMessage, covered, watermark>>,
         \A c \in Containers : sweep'[c].seen <= lastMessage,
         \A j \in Jobs : job'[j] = job[j] \/ CoveredJob(job[j])'
  PROVE  CoverInv'
  BY DEF CoverInv, CoveredJob

LEMMA StartJobCover ==
  ASSUME TypeInv, TypeInv', CoverInv, NEW c \in Containers, NEW phases,
         NEW seen \in 0 .. MaxMessages, seen <= lastMessage, NEW dream,
         StartJob(c, phases, seen, dream), UNCHANGED lastMessage
  PROVE  \A j \in Jobs : job'[j] = job[j] \/ CoveredJob(job[j])'
<1>1. PICK j \in Jobs : job' = [job EXCEPT ![j] = NewJob(c, phases, seen, dream)]
  BY DEF StartJob
<1>2. job'[j] = NewJob(c, phases, seen, dream)
  BY <1>1 DEF TypeInv, TypeOK
<1>3. /\ job'[j].seen = seen
      /\ job'[j].status = "running" /\ job'[j].worker = "dispatched"
  BY <1>2 DEF NewJob, NoJob
<1>4. CoveredJob(job[j])'
  BY <1>3 DEF CoveredJob
<1>5. QED
  BY <1>1, <1>4 DEF TypeInv, TypeOK

LEMMA FinishCover ==
  ASSUME TypeInv, TypeInv', CoverInv, NEW j \in Jobs,
         NEW durable \in BOOLEAN, NEW ran \in BOOLEAN, Finish(j, durable, ran),
         ran => job[j].seen <= covered,
         UNCHANGED <<lastMessage, covered, watermark>>
  PROVE  CoverInv'
<1> DEFINE ended == [job[j] EXCEPT !.durable = durable, !.age = 0]
           step == RecorderStep(ended, ran)
           left == AtStep(ended, step)
<1>1. job' = [job EXCEPT ![j] = left] /\ UNCHANGED sweep
  BY DEF Finish
<1>2. ended.seen = job[j].seen /\ job[j] \in Job
  BY DEF TypeInv, TypeOK, Job
<1>3. step = "watermark" => ran
  BY DEF RecorderStep, StampStep
<1>4. \/ left.seen = job[j].seen /\ left.worker = "none" /\ left.status = step
      \/ left = NoJob
  BY <1>2 DEF AtStep, Job
<1>5. CoveredJob(left)
  BY <1>2, <1>3, <1>4, NoJobCovered DEF CoverInv, CoveredJob
<1> HIDE DEF left
<1>6. CoveredJob(job[j])'
  BY <1>1, <1>5 DEF CoveredJob, TypeInv, TypeOK
<1>7. \A i \in Jobs : job'[i] = job[i] \/ CoveredJob(job[i])'
  BY <1>1, <1>6 DEF TypeInv, TypeOK
<1>8. QED
  BY <1>1, <1>7, CoverKeep DEF CoverInv

LEMMA DrainedCover ==
  ASSUME TypeInv, TypeInv', CoverInv, NEW j \in Jobs, Drained(j),
         UNCHANGED <<lastMessage, covered, watermark>>
  PROVE  CoverInv'
<1>1. \A i \in Jobs : job'[i] = job[i] \/ job'[i] = NoJob
  BY DEF Drained, TypeInv, TypeOK
<1>2. CoveredJob(NoJob)'
  BY NoJobCovered DEF CoveredJob
<1>3. UNCHANGED sweep
  BY DEF Drained, containerVars
<1>4. QED
  BY <1>1, <1>2, <1>3, CoverKeep DEF CoverInv, CoveredJob
LEMMA CoverStep == TypeInv /\ TypeInv' /\ CoverInv /\ [Next]_vars => CoverInv'
<1> SUFFICES ASSUME TypeInv, TypeInv', CoverInv, [Next]_vars PROVE CoverInv'
  OBVIOUS
<1> USE DEF tenantVars, stateVars, containerVars, historyVars
<1>1. CASE UNCHANGED <<lastMessage, covered, watermark, sweep, job>>
  BY <1>1 DEF CoverInv, CoveredJob
<1>2. CASE AppendMessage
  <2>1. lastMessage' >= lastMessage /\ covered' >= covered
    BY <1>2 DEF AppendMessage, TypeInv, TypeOK
  <2>2. \A j \in Jobs : CoveredJob(job[j])'
    BY <1>2, <2>1, CoveredStays DEF AppendMessage, CoverInv, TypeInv, TypeOK
  <2>3. QED
    BY <1>2, <2>2 DEF AppendMessage, CoverInv, TypeInv, TypeOK
<1>3. CASE Tick
  <2>1. ASSUME NEW j \in Jobs
        PROVE  CoveredJob(job[j])'
    <3>1. job'[j] \in {job[j], [job[j] EXCEPT !.age = Older(job[j].age)]}
      BY <1>3 DEF Tick
    <3>2. job[j] \in Job /\ CoveredJob(job[j])
      BY DEF TypeInv, TypeOK, CoverInv
    <3>3. /\ job'[j].seen = job[j].seen /\ job'[j].status = job[j].status
          /\ job'[j].worker = job[j].worker /\ job'[j].phases = job[j].phases
      BY <3>1, <3>2 DEF Job
    <3>4. UNCHANGED <<lastMessage, covered>>
      BY <1>3 DEF Tick
    <3>5. QED
      BY <3>2, <3>3, <3>4 DEF CoveredJob
  <2>2. QED
    BY <1>3, <2>1 DEF Tick, CoverInv
<1>4. ASSUME NEW c \in Containers,
             SweepStep(c) \/ TriggerDream(c) \/ TriggerFault(c)
      PROVE  CoverInv'
  <2>1. CASE SweepWatermark(c)
    BY <2>1 DEF SweepWatermark, CoverInv, CoveredJob, TypeInv, TypeOK, Idle
  <2>2. CASE SweepState(c)
    <3>1. \A d \in Containers : sweep'[d].seen <= lastMessage
      BY <2>2 DEF SweepState, CoverInv, TypeInv, TypeOK, Idle
    <3>2. QED
      BY <2>2, <3>1, CoverKeep DEF SweepState
  <2>3. CASE SweepSchedule(c)
    <3>1. \A d \in Containers : sweep'[d].seen <= lastMessage
      BY <2>3 DEF SweepSchedule, CoverInv, TypeInv, TypeOK, Idle
    <3>2. /\ (IF CanSummarize THEN sweep[c].seen ELSE 0) \in 0 .. MaxMessages
          /\ (IF CanSummarize THEN sweep[c].seen ELSE 0) <= lastMessage
      BY SweepAssumption DEF CoverInv, TypeInv, TypeOK
    <3>3. UNCHANGED <<lastMessage, covered, watermark>>
      BY <2>3 DEF SweepSchedule
    <3>4. \A j \in Jobs : job'[j] = job[j] \/ CoveredJob(job[j])'
      BY <2>3, <3>2, <3>3, StartJobCover DEF SweepSchedule
    <3>5. QED
      BY <3>1, <3>3, <3>4, CoverKeep
  <2>4. CASE SweepSkip(c)
    <3>1. \A d \in Containers : sweep'[d].seen <= lastMessage
      BY <2>4 DEF SweepSkip, CoverInv, TypeInv, TypeOK, Idle
    <3>2. QED
      BY <2>4, <3>1, CoverKeep DEF SweepSkip
  <2>5. CASE TriggerDream(c)
    <3>1. UNCHANGED <<lastMessage, covered, watermark, sweep>>
      BY <2>5 DEF TriggerDream
    <3>2. 0 \in 0 .. MaxMessages /\ 0 <= lastMessage
      BY SweepAssumption DEF TypeInv, TypeOK
    <3>3. \A j \in Jobs : job'[j] = job[j] \/ CoveredJob(job[j])'
      BY <2>5, <3>1, <3>2, StartJobCover DEF TriggerDream
    <3>4. QED
      BY <3>1, <3>3, CoverKeep DEF CoverInv
  <2>6. CASE TriggerFault(c)
    BY <1>1, <2>6 DEF TriggerFault
  <2>7. QED
    BY <1>4, <2>1, <2>2, <2>3, <2>4, <2>5, <2>6 DEF SweepStep
<1>5. ASSUME NEW c \in Containers, Shutdown(c) \/ Restart(c)
      PROVE  CoverInv'
  <2>1. UNCHANGED <<lastMessage, covered, watermark>>
    BY <1>5 DEF Shutdown, Restart
  <2>2. \A d \in Containers : sweep'[d].seen <= lastMessage
    BY <1>5 DEF Shutdown, Restart, CoverInv, TypeInv, TypeOK, Idle
  <2>3. ASSUME NEW j \in Jobs
        PROVE  CoveredJob(job[j])'
    <3>1. job'[j] \in {job[j], NoJob, [job[j] EXCEPT !.status = "draining"]}
      BY <1>5 DEF Shutdown, Restart
    <3>2. job[j] \in Job /\ CoveredJob(job[j]) /\ CoveredJob(NoJob)
      BY NoJobCovered DEF TypeInv, TypeOK, CoverInv
    <3>3. CoveredJob([job[j] EXCEPT !.status = "draining"])
      BY <3>2 DEF CoveredJob, Job
    <3>4. CoveredJob(job'[j])
      BY <3>1, <3>2, <3>3
    <3>5. QED
      BY <2>1, <3>4 DEF CoveredJob
  <2>4. QED
    BY <2>1, <2>2, <2>3, CoverKeep
<1>6. ASSUME NEW j \in Jobs, JobStep(j)
      PROVE  CoverInv'
  <2>0. /\ job[j] \in Job /\ CoveredJob(job[j])
        /\ (Head(job[j].phases) = "summarize") \in BOOLEAN
    BY DEF TypeInv, TypeOK, CoverInv
  <2>1. CASE RenewLease(j)
    BY <1>1, <2>1 DEF RenewLease
  <2>2. CASE LoseLease(j)
    <3>1. UNCHANGED <<lastMessage, covered, watermark, sweep>>
      BY <2>2 DEF LoseLease
    <3>2. job'[j] \in {NoJob, [job[j] EXCEPT !.status = "draining"]}
      BY <2>2 DEF LoseLease, Cancelled, TypeInv, TypeOK
    <3>3. CoveredJob(job'[j])
      BY <2>0, <3>2, NoJobCovered DEF CoveredJob, Job
    <3>4. CoveredJob(job[j])'
      BY <3>1, <3>3 DEF CoveredJob
    <3>5. \A i \in Jobs : job'[i] = job[i] \/ CoveredJob(job[i])'
      BY <2>2, <3>4 DEF LoseLease, TypeInv, TypeOK
    <3>6. QED
      BY <3>1, <3>5, CoverKeep DEF CoverInv
  <2>3. CASE StartPhase(j)
    <3>1. lastMessage' >= lastMessage /\ covered' >= covered
      BY <2>3 DEF StartPhase, CoverInv, TypeInv, TypeOK
    <3>2. ASSUME NEW i \in Jobs, i # j
          PROVE  CoveredJob(job[i])'
      <4>1. job'[i] = job[i] /\ job[i] \in Job /\ CoveredJob(job[i])
        BY <2>3, <3>2 DEF StartPhase, CoverInv, TypeInv, TypeOK
      <4>2. QED
        BY <3>1, <4>1, CoveredStays DEF CoveredJob
    <3>3. /\ job'[j].seen = job[j].seen /\ job'[j].status = job[j].status
          /\ job'[j].phases = job[j].phases
      BY <2>0, <2>3 DEF StartPhase, Job, TypeInv, TypeOK
    <3>4. job[j].status # "watermark"
      BY <2>3 DEF StartPhase, TypeInv, JobShape
    <3>5. CoveredJob(job[j])'
      BY <2>0, <2>3, <3>3, <3>4 DEF StartPhase, CoveredJob
    <3>6. QED
      BY <2>3, <3>1, <3>2, <3>5 DEF StartPhase, CoverInv, TypeInv, TypeOK
  <2>4. CASE PhaseNotStarted(j)
    <3>1. UNCHANGED <<lastMessage, covered, watermark>>
      BY <2>4 DEF PhaseNotStarted
    <3>2. QED
      BY <2>4, <3>1, FinishCover, DrainedCover DEF PhaseNotStarted
  <2>5. CASE PhaseSucceeds(j)
    <3>1. UNCHANGED <<lastMessage, covered, watermark>>
      BY <2>5 DEF PhaseSucceeds
    <3>2. CASE /\ job' = [job EXCEPT ![j].worker = "dispatched",
                                     ![j].phases = Tail(job[j].phases)]
               /\ UNCHANGED <<leaseVars, containerVars, durableAge, lapsed>>
      <4>1. /\ job'[j].seen = job[j].seen /\ job'[j].status = job[j].status
            /\ job'[j].worker = "dispatched"
        BY <2>0, <3>2 DEF Job, TypeInv, TypeOK
      <4>2. CoveredJob(job[j])'
        BY <2>0, <3>1, <4>1 DEF CoveredJob
      <4>3. \A i \in Jobs : job'[i] = job[i] \/ CoveredJob(job[i])'
        BY <3>2, <4>2 DEF TypeInv, TypeOK
      <4>4. QED
        BY <3>1, <3>2, <4>3, CoverKeep DEF CoverInv
    <3>3. CASE Finish(j, TRUE, Head(job[j].phases) = "summarize")
      <4>1. Head(job[j].phases) = "summarize" => job[j].seen <= covered
        BY <2>0, <2>5 DEF PhaseSucceeds, CoveredJob
      <4>2. QED
        BY <2>0, <3>1, <3>3, <4>1, FinishCover
    <3>4. QED
      BY <2>5, <3>1, <3>2, <3>3, DrainedCover DEF PhaseSucceeds
  <2>6. CASE PhaseFails(j)
    <3>1. UNCHANGED <<lastMessage, covered, watermark>>
      BY <2>6 DEF PhaseFails
    <3>2. Head(job[j].phases) = "summarize" => job[j].seen <= covered
      BY <2>0, <2>6 DEF PhaseFails, CoveredJob
    <3>3. (\E durable \in BOOLEAN :
             Finish(j, durable, Head(job[j].phases) = "summarize")) \/ Drained(j)
      BY <2>6 DEF PhaseFails
    <3>4. QED
      BY <2>0, <3>1, <3>2, <3>3, FinishCover, DrainedCover
  <2>7. CASE RecordWatermark(j)
    <3>1. UNCHANGED <<lastMessage, covered, sweep>>
      BY <2>7 DEF RecordWatermark
    <3>2. watermark' <= covered
      BY <2>0, <2>7 DEF RecordWatermark, Larger, CoveredJob, CoverInv
    <3>3. CoveredJob(job[j])'
      <4>1. job'[j] = AtStep(job[j], StampStep(job[j]))
        BY <2>7 DEF RecordWatermark, TypeInv, TypeOK
      <4>2. CoveredJob(job'[j])
        BY <2>0, <4>1, NoJobCovered DEF AtStep, StampStep, CoveredJob, Job
      <4>3. QED
        BY <3>1, <4>2 DEF CoveredJob
    <3>4. \A i \in Jobs : job'[i] = job[i] \/ CoveredJob(job[i])'
      BY <2>7, <3>3 DEF RecordWatermark, TypeInv, TypeOK
    <3>5. QED
      BY <3>1, <3>2, <3>4 DEF CoverInv, CoveredJob
  <2>8. CASE RecordCompleted(j) \/ RecordFailed(j)
    <3>1. UNCHANGED <<lastMessage, covered, watermark, sweep>>
      BY <2>8 DEF RecordCompleted, RecordFailed
    <3>2. job'[j] \in {NoJob, AtStep(job[j], "failed")}
      BY <2>8 DEF RecordCompleted, RecordFailed, TypeInv, TypeOK
    <3>3. CoveredJob(job'[j])
      BY <2>0, <3>2, NoJobCovered DEF AtStep, CoveredJob, Job
    <3>4. CoveredJob(job[j])'
      BY <3>1, <3>3 DEF CoveredJob
    <3>5. \A i \in Jobs : job'[i] = job[i] \/ CoveredJob(job[i])'
      BY <2>8, <3>4 DEF RecordCompleted, RecordFailed, TypeInv, TypeOK
    <3>6. QED
      BY <3>1, <3>5, CoverKeep DEF CoverInv
  <2>9. QED
    BY <1>6, <2>1, <2>2, <2>3, <2>4, <2>5, <2>6, <2>7, <2>8 DEF JobStep
<1>7. CASE SetDreamScheduling \/ SetTenantActive \/ UNCHANGED vars
  BY <1>1, <1>7 DEF SetDreamScheduling, SetTenantActive, vars
<1>8. QED
  BY <1>2, <1>3, <1>4, <1>5, <1>6, <1>7 DEF Next

\* The summarize watermark never passes a row that no SUMMARIZE has started
\* over, however many containers sweep, fail, drain and restart.
THEOREM NothingStranded == Spec => []WatermarkCovered
<1>1. CoverInv => WatermarkCovered
  BY DEF CoverInv, WatermarkCovered
<1>2. QED
  BY <1>1, CoverInit, CoverStep, TypeInvariant, PTL DEF Spec
-------------------------------------------------------------------------------
\* The stamps.  A recorder about to write a durable chain's end carries a
\* stamp no newer than the newest durable end.

StampedJob(k) ==
  /\ k.status = "completed" => k.dream /\ k.durable
  /\ k.status \in RecorderSteps /\ k.dream /\ k.durable => k.age >= durableAge

StampInv ==
  /\ completedAge >= durableAge
  /\ \A j \in Jobs : StampedJob(job[j])

LEMMA StampInit == Init => StampInv
  BY SweepAssumption DEF Init, StampInv, StampedJob, NoJob, RecorderSteps

LEMMA NoJobStamped == StampedJob(NoJob)
  BY DEF StampedJob, NoJob, RecorderSteps

\* A step that leaves the two ages alone owes a proof for the jobs it changes.
LEMMA StampKeep ==
  ASSUME StampInv, UNCHANGED <<completedAge, durableAge>>,
         \A j \in Jobs : job'[j] = job[j] \/ StampedJob(job'[j])
  PROVE  StampInv'
  BY DEF StampInv, StampedJob

\* The next step of a recorder keeps what it carries.
LEMMA NextStepStamped ==
  ASSUME NEW k \in Job, k.status \in RecorderSteps, StampedJob(k)
  PROVE  /\ StampedJob(AtStep(k, StampStep(k)))
         /\ StampedJob(AtStep(k, "failed"))
  BY NoJobStamped DEF AtStep, StampStep, StampedJob, RecorderSteps, Job

LEMMA FinishStamp ==
  ASSUME TypeInv, TypeInv', StampInv, NEW j \in Jobs,
         NEW durable \in BOOLEAN, NEW ran \in BOOLEAN, Finish(j, durable, ran),
         UNCHANGED completedAge
  PROVE  StampInv'
<1> DEFINE ended == [job[j] EXCEPT !.durable = durable, !.age = 0]
           step == RecorderStep(ended, ran)
           left == AtStep(ended, step)
<1>1. job' = [job EXCEPT ![j] = left]
  BY DEF Finish
<1>2. /\ job[j] \in Job
      /\ ended.dream = job[j].dream /\ ended.durable = durable /\ ended.age = 0
  BY DEF TypeInv, TypeOK, Job
<1>3. durableAge' = 0 \/ (durableAge' = durableAge /\ ~(durable /\ job[j].dream))
  BY DEF Finish
<1>4. durableAge' <= durableAge
  BY <1>3 DEF TypeInv, TypeOK, Ages
<1>5. left = NoJob \/ /\ left.status = step /\ left.age = 0
                      /\ left.dream = job[j].dream /\ left.durable = durable
  BY <1>2 DEF AtStep, Job
<1>6. step = "completed" => job[j].dream /\ durable
  BY <1>2 DEF RecorderStep, StampStep
<1> HIDE DEF left, step
<1>7. job'[j] = left
  BY <1>1 DEF TypeInv, TypeOK
<1>8. StampedJob(job[j])'
  <2>1. CASE left = NoJob
    BY <1>7, <2>1 DEF StampedJob, NoJob, RecorderSteps
  <2>2. CASE left # NoJob
    BY <1>3, <1>5, <1>6, <1>7, <2>2 DEF StampedJob
  <2>3. QED
    BY <2>1, <2>2
<1>9. ASSUME NEW i \in Jobs, i # j
      PROVE  StampedJob(job[i])'
  <2>1. job'[i] = job[i] /\ job[i] \in Job /\ StampedJob(job[i])
    BY <1>1, <1>9 DEF TypeInv, TypeOK, StampInv
  <2>2. job[i].age \in Ages
    BY <2>1 DEF Job
  <2>3. job[i].age >= durableAge => job[i].age >= durableAge'
    BY <1>4, <2>2 DEF Ages, TypeInv, TypeOK
  <2>4. QED
    BY <2>1, <2>3, Zenon DEF StampedJob
<1>10. QED
  BY <1>4, <1>8, <1>9 DEF StampInv, TypeInv, TypeOK, Ages

LEMMA DrainedStamp ==
  ASSUME TypeInv, StampInv, NEW j \in Jobs, Drained(j), UNCHANGED completedAge
  PROVE  StampInv'
<1>1. \A i \in Jobs : job'[i] = job[i] \/ StampedJob(job'[i])
  BY NoJobStamped DEF Drained, TypeInv, TypeOK
<1>2. QED
  BY <1>1, StampKeep DEF Drained
LEMMA StartJobStamp ==
  ASSUME TypeInv, StampInv, NEW c \in Containers, NEW phases, NEW seen, NEW dream,
         StartJob(c, phases, seen, dream), UNCHANGED <<completedAge, durableAge>>
  PROVE  StampInv'
<1>1. PICK j \in Jobs : job' = [job EXCEPT ![j] = NewJob(c, phases, seen, dream)]
  BY DEF StartJob
<1>2. NewJob(c, phases, seen, dream).status = "running"
  BY DEF NewJob, NoJob
<1>3. StampedJob(NewJob(c, phases, seen, dream))
  BY <1>2 DEF StampedJob, RecorderSteps
<1>4. \A i \in Jobs : job'[i] = job[i] \/ StampedJob(job'[i])
  BY <1>1, <1>3 DEF TypeInv, TypeOK
<1>5. QED
  BY <1>4, StampKeep

LEMMA StampStays == TypeInv /\ TypeInv' /\ StampInv /\ [Next]_vars => StampInv'
<1> SUFFICES ASSUME TypeInv, TypeInv', StampInv, [Next]_vars PROVE StampInv'
  OBVIOUS
<1> USE DEF tenantVars, stateVars, historyVars
<1>1. CASE UNCHANGED <<completedAge, durableAge, job>>
  BY <1>1 DEF StampInv, StampedJob
<1>2. CASE Tick
  <2>1. ASSUME NEW a \in Ages, NEW b \in Ages, a >= b
        PROVE  Older(a) >= Older(b)
    BY <2>1, SweepAssumption DEF Older, Ages
  <2>2. completedAge' >= durableAge'
    BY <1>2, <2>1 DEF Tick, StampInv, TypeInv, TypeOK
  <2>3. ASSUME NEW j \in Jobs
        PROVE  StampedJob(job[j])'
    <3>1. job[j] \in Job /\ StampedJob(job[j])
      BY DEF StampInv, TypeInv, TypeOK
    <3>2. CASE job[j].status \in RecorderSteps
      <4>1. /\ job'[j].age = Older(job[j].age)
            /\ job'[j].status = job[j].status
            /\ job'[j].dream = job[j].dream
            /\ job'[j].durable = job[j].durable
        BY <1>2, <3>1, <3>2 DEF Tick, Job
      <4>2. job[j].age >= durableAge => job'[j].age >= durableAge'
        BY <1>2, <2>1, <3>1, <4>1 DEF Tick, Job, TypeInv, TypeOK
      <4>3. QED
        BY <3>1, <3>2, <4>1, <4>2, Zenon DEF StampedJob
    <3>3. CASE job[j].status \notin RecorderSteps
      <4>1. job'[j] = job[j]
        BY <1>2, <3>3 DEF Tick
      <4>2. QED
        BY <3>1, <3>3, <4>1 DEF StampedJob
    <3>4. QED
      BY <3>2, <3>3
  <2>4. QED
    BY <2>2, <2>3 DEF StampInv
<1>3. ASSUME NEW c \in Containers,
             SweepSchedule(c) \/ TriggerDream(c)
      PROVE  StampInv'
  BY <1>3, StartJobStamp DEF SweepSchedule, TriggerDream
<1>4. ASSUME NEW c \in Containers,
             \/ SweepWatermark(c) \/ SweepState(c) \/ SweepSkip(c)
             \/ TriggerFault(c)
      PROVE  StampInv'
  BY <1>1, <1>4 DEF SweepWatermark, SweepState, SweepSkip, TriggerFault
<1>5. ASSUME NEW c \in Containers, Shutdown(c) \/ Restart(c)
      PROVE  StampInv'
  <2>1. ASSUME NEW j \in Jobs
        PROVE  job'[j] = job[j] \/ StampedJob(job'[j])
    <3>1. \/ job'[j] \in {job[j], NoJob}
          \/ job'[j] = [job[j] EXCEPT !.status = "draining"]
      BY <1>5 DEF Shutdown, Restart
    <3>2. StampedJob([job[j] EXCEPT !.status = "draining"])
      BY DEF StampedJob, RecorderSteps, Job, TypeInv, TypeOK
    <3>3. QED
      BY <3>1, <3>2, NoJobStamped
  <2>2. QED
    BY <1>5, <2>1, StampKeep DEF Shutdown, Restart
<1>6. ASSUME NEW j \in Jobs, JobStep(j)
      PROVE  StampInv'
  <2>0. /\ job[j] \in Job /\ StampedJob(job[j])
        /\ (Head(job[j].phases) = "summarize") \in BOOLEAN
    BY DEF TypeInv, TypeOK, StampInv
  <2>1. CASE RenewLease(j)
    BY <1>1, <2>1 DEF RenewLease
  <2>2. CASE LoseLease(j)
    <3>1. StampedJob([job[j] EXCEPT !.status = "draining"])
      BY <2>0 DEF StampedJob, RecorderSteps, Job
    <3>2. \A i \in Jobs : job'[i] = job[i] \/ StampedJob(job'[i])
      BY <2>2, <3>1, NoJobStamped DEF LoseLease, Cancelled, TypeInv, TypeOK
    <3>3. QED
      BY <2>2, <3>2, StampKeep DEF LoseLease
  <2>3. CASE StartPhase(j)
    <3>1. job'[j].status \notin RecorderSteps
      BY <2>0, <2>3 DEF StartPhase, RecorderSteps, Job, TypeInv, TypeOK, JobShape
    <3>2. StampedJob(job'[j])
      BY <3>1 DEF StampedJob, RecorderSteps
    <3>3. \A i \in Jobs : job'[i] = job[i] \/ StampedJob(job'[i])
      BY <2>3, <3>2 DEF StartPhase, TypeInv, TypeOK
    <3>4. QED
      BY <2>3, <3>3, StampKeep DEF StartPhase
  <2>4. CASE PhaseNotStarted(j)
    <3>1. UNCHANGED completedAge
      BY <2>4 DEF PhaseNotStarted
    <3>2. QED
      BY <2>4, <3>1, FinishStamp, DrainedStamp DEF PhaseNotStarted
  <2>5. CASE PhaseSucceeds(j)
    <3>1. UNCHANGED completedAge
      BY <2>5 DEF PhaseSucceeds
    <3>2. CASE /\ job[j].status = "running"
               /\ job' = [job EXCEPT ![j].worker = "dispatched",
                                     ![j].phases = Tail(job[j].phases)]
               /\ UNCHANGED <<leaseVars, containerVars, durableAge, lapsed>>
      <4>1. job'[j].status = "running"
        BY <2>0, <3>2 DEF Job, TypeInv, TypeOK
      <4>2. StampedJob(job'[j])
        BY <4>1 DEF StampedJob, RecorderSteps
      <4>3. \A i \in Jobs : job'[i] = job[i] \/ StampedJob(job'[i])
        BY <3>2, <4>2 DEF TypeInv, TypeOK
      <4>4. QED
        BY <3>1, <3>2, <4>3, StampKeep
    <3>3. CASE Finish(j, TRUE, Head(job[j].phases) = "summarize")
      BY <2>0, <3>1, <3>3, FinishStamp
    <3>4. QED
      BY <2>5, <3>1, <3>2, <3>3, DrainedStamp DEF PhaseSucceeds
  <2>6. CASE PhaseFails(j)
    <3>1. UNCHANGED completedAge
      BY <2>6 DEF PhaseFails
    <3>2. (\E durable \in BOOLEAN :
             Finish(j, durable, Head(job[j].phases) = "summarize")) \/ Drained(j)
      BY <2>6 DEF PhaseFails
    <3>3. QED
      BY <2>0, <3>1, <3>2, FinishStamp, DrainedStamp
  <2>7. CASE RecordWatermark(j) \/ RecordFailed(j)
    <3>1. job[j].status \in RecorderSteps
      BY <2>7 DEF RecordWatermark, RecordFailed, RecorderSteps
    <3>2. \A i \in Jobs : job'[i] = job[i] \/ StampedJob(job'[i])
      BY <2>0, <2>7, <3>1, NextStepStamped, NoJobStamped
         DEF RecordWatermark, RecordFailed, TypeInv, TypeOK
    <3>3. QED
      BY <2>7, <3>2, StampKeep DEF RecordWatermark, RecordFailed
  <2>8. CASE RecordCompleted(j)
    <3>1. job[j].status \in RecorderSteps /\ job[j].age \in Ages
      BY <2>0, <2>8 DEF RecordCompleted, RecorderSteps, Job
    <3>2. job[j].age >= durableAge
      BY <2>0, <2>8, <3>1 DEF RecordCompleted, StampedJob
    <3>3. completedAge' >= durableAge'
      BY <2>8, <3>1, <3>2, StampTypes
         DEF RecordCompleted, StampInv, TypeInv, TypeOK
    <3>4. \A i \in Jobs : job'[i] = job[i] \/ StampedJob(job'[i])
      BY <2>0, <2>8, <3>1, NextStepStamped, NoJobStamped
         DEF RecordCompleted, TypeInv, TypeOK
    <3>5. UNCHANGED durableAge
      BY <2>8 DEF RecordCompleted
    <3>6. QED
      BY <3>3, <3>4, <3>5 DEF StampInv, StampedJob
  <2>9. QED
    BY <1>6, <2>1, <2>2, <2>3, <2>4, <2>5, <2>6, <2>7, <2>8 DEF JobStep
<1>7. CASE AppendMessage \/ SetDreamScheduling \/ SetTenantActive
           \/ UNCHANGED vars
  BY <1>1, <1>7 DEF AppendMessage, SetDreamScheduling, SetTenantActive, vars
<1>8. QED
  BY <1>2, <1>3, <1>4, <1>5, <1>6, <1>7 DEF Next, SweepStep

\* The completed stamp is never newer than the newest chain that succeeded or
\* left its error row: the daily interval is never charged for a dream that
\* left no trace.
THEOREM StampTruthful == Spec => []CompletedTruthful
<1>1. StampInv => CompletedTruthful
  BY DEF StampInv, CompletedTruthful
<1>2. QED
  BY <1>1, StampInit, StampStays, TypeInvariant, PTL DEF Spec
-------------------------------------------------------------------------------
\* Action properties: the row never rewinds, and the lease keeps its promises.

\* A late or repeated write of a recorder never lowers the watermark and never
\* replaces a stamp by an older one.
THEOREM NoRewind == Spec => StampsNeverRewind
<1> DEFINE Forward == /\ watermark' >= watermark
                      /\ Tick \/ (completedAge' <= completedAge /\ failedAge' <= failedAge)
<1>1. ASSUME TypeInv, [Next]_vars
      PROVE  [Forward]_vars
  <2> USE DEF stateVars
  <2>1. CASE UNCHANGED <<watermark, completedAge, failedAge>>
    BY <1>1, <2>1 DEF TypeInv, TypeOK, Ages
  <2>2. CASE Tick
    BY <1>1, <2>2 DEF Tick, TypeInv, TypeOK
  <2>3. ASSUME NEW j \in Jobs, RecordWatermark(j)
        PROVE  Forward
    <3>1. job[j].seen \in Nat
      BY <1>1 DEF TypeInv, TypeOK, Job
    <3>2. watermark' >= watermark
      BY <1>1, <2>3, <3>1 DEF RecordWatermark, Larger, TypeInv, TypeOK
    <3>3. QED
      BY <1>1, <2>3, <3>2 DEF RecordWatermark, TypeInv, TypeOK, Ages
  <2>4. ASSUME NEW j \in Jobs, RecordCompleted(j) \/ RecordFailed(j)
        PROVE  Forward
    <3>1. job[j].age \in Ages
      BY <1>1 DEF TypeInv, TypeOK, Job
    <3>2. /\ completedAge' \in {completedAge, Newer(completedAge, job[j].age)}
          /\ failedAge' \in {failedAge, Newer(failedAge, job[j].age)}
          /\ UNCHANGED watermark
      BY <2>4 DEF RecordCompleted, RecordFailed
    <3>3. /\ Newer(completedAge, job[j].age) <= completedAge
          /\ Newer(failedAge, job[j].age) <= failedAge
      BY <1>1, <3>1, StampTypes DEF TypeInv, TypeOK
    <3>4. QED
      BY <1>1, <3>2, <3>3 DEF TypeInv, TypeOK, Ages
  <2>5. ASSUME NEW c \in Containers,
               \/ SweepStep(c) \/ TriggerDream(c) \/ TriggerFault(c)
               \/ Shutdown(c) \/ Restart(c)
        PROVE  [Forward]_vars
    BY <2>1, <2>5 DEF SweepStep, SweepWatermark, SweepState, SweepSchedule,
                      SweepSkip, TriggerDream, TriggerFault, Shutdown, Restart
  <2>6. ASSUME NEW j \in Jobs, JobStep(j)
        PROVE  [Forward]_vars
    BY <2>1, <2>3, <2>4, <2>6
       DEF JobStep, RenewLease, LoseLease, StartPhase, PhaseNotStarted,
           PhaseSucceeds, PhaseFails
  <2>7. CASE AppendMessage \/ SetDreamScheduling \/ SetTenantActive
             \/ UNCHANGED vars
    BY <2>1, <2>7 DEF AppendMessage, SetDreamScheduling, SetTenantActive, vars
  <2>8. QED
    BY <1>1, <2>2, <2>5, <2>6, <2>7 DEF Next
<1>2. QED
  BY <1>1, TypeInvariant, PTL DEF Spec, StampsNeverRewind

LEMMA StartJobLease ==
  ASSUME NEW c \in Containers, NEW phases, NEW seen, NEW dream,
         StartJob(c, phases, seen, dream)
  PROVE  Lease!Next
<1>1. Lease!Claim(c)
  BY DEF StartJob, CanClaim, LeaseClaimable, ClaimLease, Lease!Claim
<1>2. QED
  BY <1>1 DEF Lease!Next

LEMMA ClaimFaultLease ==
  ASSUME NEW c \in Containers, ClaimFault(c)
  PROVE  Lease!Next \/ UNCHANGED leaseVars
<1>1. Lease!Claim(c) \/ UNCHANGED leaseVars
  BY DEF ClaimFault, LeaseClaimable, ClaimLease, Lease!Claim
<1>2. QED
  BY <1>1 DEF Lease!Next

LEMMA FinishLease ==
  ASSUME TypeInv, NEW j \in Jobs, job[j].worker # "none",
         NEW durable, NEW ran, Finish(j, durable, ran)
  PROVE  Lease!Next \/ UNCHANGED leaseVars
<1>1. job[j].owner \in Containers
  BY DEF TypeInv, TypeOK, JobShape
<1>2. Lease!Drop(job[j].owner) \/ UNCHANGED leaseVars
  BY DEF Finish, ReleaseLease, Lease!Drop
<1>3. QED
  BY <1>1, <1>2 DEF Lease!Next

\* The row of dream_sweep_lease is a lease in the sense of ScopeLease: nobody
\* takes an unlapsed row, and only its holder extends or deletes it.
THEOREM LeaseImplemented == Spec => LeaseRefined
<1>1. Init => Lease!Init
  BY DEF Init, Lease!Init
<1>2. ASSUME TypeInv, [Next]_vars
      PROVE  [Lease!Next]_<<leaseHolder, leaseLeft>>
  <2> USE DEF leaseVars
  <2>1. CASE UNCHANGED <<leaseHolder, leaseLeft>>
    BY <2>1
  <2>2. CASE Tick
    <3>1. Lease!Pass \/ UNCHANGED leaseVars
      BY <1>2, <2>2 DEF Tick, Lease!Pass, TypeInv, TypeOK
    <3>2. QED
      BY <3>1 DEF Lease!Next
  <2>3. ASSUME NEW c \in Containers,
               SweepStep(c) \/ TriggerDream(c) \/ TriggerFault(c)
        PROVE  Lease!Next \/ UNCHANGED leaseVars
    BY <2>3, StartJobLease, ClaimFaultLease
       DEF SweepStep, SweepWatermark, SweepState, SweepSchedule, SweepSkip,
           TriggerDream, TriggerFault
  <2>4. ASSUME NEW c \in Containers, Shutdown(c)
        PROVE  UNCHANGED leaseVars
    BY <2>4 DEF Shutdown
  <2>5. ASSUME NEW c \in Containers, Restart(c)
        PROVE  Lease!Next \/ UNCHANGED leaseVars
    <3>1. Lease!Die(c) \/ UNCHANGED leaseVars
      BY <2>5 DEF Restart, Lease!Die
    <3>2. QED
      BY <3>1 DEF Lease!Next
  <2>6. ASSUME NEW j \in Jobs, RenewLease(j)
        PROVE  Lease!Next
    <3>1. Lease!Extend(job[j].owner)
      BY <2>6 DEF RenewLease, Lease!Extend
    <3>2. job[j].owner \in Containers
      BY <1>2, <2>6 DEF RenewLease, TypeInv, JobShape
    <3>3. QED
      BY <3>1, <3>2 DEF Lease!Next
  <2>7. ASSUME NEW j \in Jobs,
               PhaseNotStarted(j) \/ PhaseSucceeds(j) \/ PhaseFails(j)
        PROVE  Lease!Next \/ UNCHANGED leaseVars
    <3>1. job[j].worker # "none"
      BY <2>7 DEF PhaseNotStarted, PhaseSucceeds, PhaseFails
    <3>2. \/ \E durable, ran \in BOOLEAN : Finish(j, durable, ran)
          \/ UNCHANGED leaseVars
      <4>1. (Head(job[j].phases) = "summarize") \in BOOLEAN
        OBVIOUS
      <4>2. QED
        BY <2>7, <4>1 DEF PhaseNotStarted, PhaseSucceeds, PhaseFails, Drained
    <3>3. QED
      BY <1>2, <3>1, <3>2, FinishLease
  <2>8. ASSUME NEW j \in Jobs,
               \/ LoseLease(j) \/ StartPhase(j) \/ RecordWatermark(j)
               \/ RecordCompleted(j) \/ RecordFailed(j)
        PROVE  UNCHANGED leaseVars
    BY <2>8 DEF LoseLease, StartPhase, RecordWatermark, RecordCompleted,
                RecordFailed
  <2>9. CASE AppendMessage \/ SetDreamScheduling \/ SetTenantActive
             \/ UNCHANGED vars
    BY <2>1, <2>9 DEF AppendMessage, SetDreamScheduling, SetTenantActive, vars
  <2>10. QED
    BY <1>2, <2>2, <2>3, <2>4, <2>5, <2>6, <2>7, <2>8, <2>9 DEF Next, JobStep
<1>3. QED
  BY <1>1, <1>2, TypeInvariant, PTL DEF Spec, LeaseRefined, Lease!Spec
-------------------------------------------------------------------------------
\* The in-process claim.  ClaimIsJob is inductive by itself: what ends a job
\* ends every running job of its container, of which it is the only one.

\* No job starts, stops or changes hands, and neither does the claim.
LEMMA ClaimStays ==
  ASSUME ClaimIsJob, UNCHANGED inflight,
         \A j \in Jobs : /\ Running(j)' <=> Running(j)
                         /\ Running(j) => job'[j].owner = job[j].owner
  PROVE  ClaimIsJob'
  BY DEF ClaimIsJob

\* The claim of one owner is dropped with every running job it has.
LEMMA ClaimDropped ==
  ASSUME ClaimIsJob, NEW o, inflight' = inflight \ {o},
         \A j \in Jobs : /\ Running(j)' <=> Running(j) /\ job[j].owner # o
                         /\ Running(j)' => job'[j].owner = job[j].owner
  PROVE  ClaimIsJob'
  BY DEF ClaimIsJob

\* A running job is the only one of its owner, so ending it ends them all.
LEMMA JobEnds ==
  ASSUME TypeInv, ClaimIsJob, NEW j \in Jobs, Running(j),
         inflight' = inflight \ {job[j].owner},
         NEW k, job' = [job EXCEPT ![j] = k], k.status # "running"
  PROVE  ClaimIsJob'
<1>1. ASSUME NEW i \in Jobs
      PROVE  /\ Running(i)' <=> Running(i) /\ job[i].owner # job[j].owner
             /\ Running(i)' => job'[i].owner = job[i].owner
  <2>1. CASE i = j
    BY <2>1 DEF Running, TypeInv, TypeOK
  <2>2. CASE i # j
    <3>1. job'[i] = job[i]
      BY <2>2 DEF TypeInv, TypeOK
    <3>2. Running(i) => job[i].owner # job[j].owner
      BY <2>2 DEF ClaimIsJob
    <3>3. QED
      BY <3>1, <3>2 DEF Running
  <2>3. QED
    BY <2>1, <2>2
<1>2. QED
  BY <1>1, ClaimDropped

\* A slot that is not running is given a job that is not running either.
LEMMA JobIdles ==
  ASSUME TypeInv, ClaimIsJob, NEW j \in Jobs, ~Running(j), UNCHANGED inflight,
         NEW k, job' = [job EXCEPT ![j] = k], k.status # "running"
  PROVE  ClaimIsJob'
<1>1. \A i \in Jobs : /\ Running(i)' <=> Running(i)
                      /\ Running(i) => job'[i].owner = job[i].owner
  BY DEF Running, TypeInv, TypeOK
<1>2. QED
  BY <1>1, ClaimStays

LEMMA NotRunning ==
  /\ NoJob.status # "running"
  /\ \A k \in Job : \A step \in RecorderSteps \cup {"free"} :
       AtStep(k, step).status # "running"
  BY DEF NoJob, AtStep, RecorderSteps, Job

LEMMA StartJobClaim ==
  ASSUME TypeInv, ClaimIsJob, NEW c \in Containers, NEW phases, NEW seen,
         NEW dream, StartJob(c, phases, seen, dream)
  PROVE  ClaimIsJob'
<1>1. PICK j \in Jobs :
        /\ job[j].status = "free"
        /\ job' = [job EXCEPT ![j] = NewJob(c, phases, seen, dream)]
  BY DEF StartJob
<1>2. /\ NewJob(c, phases, seen, dream).owner = c
      /\ NewJob(c, phases, seen, dream).status = "running"
  BY DEF NewJob, NoJob
<1>3. Running(j)' /\ job'[j].owner = c
  BY <1>1, <1>2 DEF Running, TypeInv, TypeOK
<1>4. \A i \in Jobs : i # j => job'[i] = job[i]
  BY <1>1 DEF TypeInv, TypeOK
<1>5. ~Running(j)
  BY <1>1 DEF Running
<1>6. \A i \in Jobs : Running(i) => job[i].owner # c
  BY DEF StartJob, CanClaim, ClaimIsJob
<1>7. inflight' = inflight \cup {c}
  BY DEF StartJob
<1>8. \A i \in Jobs : i # j => (Running(i)' <=> Running(i))
  BY <1>4 DEF Running
<1>9. ASSUME NEW i \in Jobs, NEW l \in Jobs, Running(i)', Running(l)',
             job'[i].owner = job'[l].owner
      PROVE  i = l
  BY <1>3, <1>4, <1>6, <1>8, <1>9 DEF ClaimIsJob
<1>10. ASSUME NEW d \in Containers
       PROVE  d \in inflight' <=> \E i \in Jobs : Running(i)' /\ job'[i].owner = d
  <2>1. CASE d = c
    BY <1>3, <1>7, <2>1
  <2>2. CASE d # c
    <3>1. d \in inflight' <=> \E i \in Jobs : Running(i) /\ job[i].owner = d
      BY <1>7, <2>2 DEF ClaimIsJob
    <3>2. \A i \in Jobs : Running(i)' /\ job'[i].owner = d
                            <=> Running(i) /\ job[i].owner = d
      BY <1>3, <1>4, <1>5, <1>8, <2>2
    <3>3. QED
      BY <3>1, <3>2
  <2>3. QED
    BY <2>1, <2>2
<1>11. QED
  BY <1>9, <1>10 DEF ClaimIsJob

LEMMA FinishClaim ==
  ASSUME TypeInv, ClaimIsJob, NEW j \in Jobs, Running(j),
         NEW durable \in BOOLEAN, NEW ran \in BOOLEAN, Finish(j, durable, ran)
  PROVE  ClaimIsJob'
<1> DEFINE ended == [job[j] EXCEPT !.durable = durable, !.age = 0]
           left == AtStep(ended, RecorderStep(ended, ran))
<1>0. 0 \in Ages /\ job[j] \in Job
  BY SweepAssumption DEF Ages, TypeInv, TypeOK
<1>1. ended \in Job
  BY <1>0 DEF Job
<1>2. left.status # "running"
  BY <1>1, NotRunning, RecorderStepTypes
<1>3. job' = [job EXCEPT ![j] = left] /\ inflight' = inflight \ {job[j].owner}
  BY DEF Finish
<1> HIDE DEF left
<1>4. QED
  BY <1>2, <1>3, JobEnds

LEMMA DrainedClaim ==
  ASSUME TypeInv, ClaimIsJob, NEW j \in Jobs, Drained(j)
  PROVE  ClaimIsJob'
<1>1. ~Running(j) /\ UNCHANGED inflight /\ job' = [job EXCEPT ![j] = NoJob]
  BY DEF Drained, Running, containerVars
<1>2. QED
  BY <1>1, NotRunning, JobIdles
\* The steps of one job's slot.
LEMMA JobStepClaim ==
  ASSUME TypeInv, ClaimIsJob, NEW j \in Jobs, JobStep(j)
  PROVE  ClaimIsJob'
<1> USE DEF containerVars
<1>0. job[j] \in Job
  BY DEF TypeInv, TypeOK
<1>h. (Head(job[j].phases) = "summarize") \in BOOLEAN
  OBVIOUS
<1>1. CASE RenewLease(j)
  BY <1>1, ClaimStays DEF RenewLease, Running
<1>2. CASE LoseLease(j)
  <2>1. PICK gone \in Cancelled(j) : job' = [job EXCEPT ![j] = gone]
    BY <1>2 DEF LoseLease
  <2>2. gone.status # "running"
    BY <1>0, NotRunning DEF Cancelled, Job
  <2>3. QED
    BY <1>2, <2>1, <2>2, JobEnds DEF LoseLease, Running
<1>3. CASE StartPhase(j)
  <2>1. \A i \in Jobs : /\ Running(i)' <=> Running(i)
                        /\ Running(i) => job'[i].owner = job[i].owner
    BY <1>3 DEF StartPhase, Running, TypeInv, TypeOK, Job
  <2>2. QED
    BY <1>3, <2>1, ClaimStays DEF StartPhase
<1>4. CASE PhaseNotStarted(j)
  BY <1>4, FinishClaim, DrainedClaim DEF PhaseNotStarted, Running
<1>5. CASE PhaseSucceeds(j)
  <2>1. CASE /\ job' = [job EXCEPT ![j].worker = "dispatched",
                                   ![j].phases = Tail(job[j].phases)]
             /\ UNCHANGED <<leaseVars, containerVars, durableAge, lapsed>>
    <3>1. \A i \in Jobs : /\ Running(i)' <=> Running(i)
                          /\ Running(i) => job'[i].owner = job[i].owner
      BY <2>1 DEF Running, TypeInv, TypeOK, Job
    <3>2. QED
      BY <2>1, <3>1, ClaimStays
  <2>2. CASE /\ job[j].status = "running"
             /\ Finish(j, TRUE, Head(job[j].phases) = "summarize")
    BY <1>h, <2>2, FinishClaim DEF Running
  <2>3. CASE Drained(j)
    BY <2>3, DrainedClaim
  <2>4. QED
    BY <1>5, <2>1, <2>2, <2>3 DEF PhaseSucceeds
<1>6. CASE PhaseFails(j)
  <2>1. CASE /\ job[j].status = "running"
             /\ \E durable \in BOOLEAN :
                  Finish(j, durable, Head(job[j].phases) = "summarize")
    BY <1>h, <2>1, FinishClaim DEF Running
  <2>2. CASE Drained(j)
    BY <2>2, DrainedClaim
  <2>3. QED
    BY <1>6, <2>1, <2>2 DEF PhaseFails
<1>7. CASE RecordWatermark(j)
  <2>1. AtStep(job[j], StampStep(job[j])).status # "running"
    BY <1>0, NotRunning, RecorderStepTypes
  <2>2. QED
    BY <1>7, <2>1, JobIdles DEF RecordWatermark, Running
<1>8. CASE RecordCompleted(j)
  <2>1. AtStep(job[j], "failed").status # "running"
    BY <1>0, NotRunning DEF RecorderSteps
  <2>2. QED
    BY <1>8, <2>1, NotRunning, JobIdles DEF RecordCompleted, Running
<1>9. CASE RecordFailed(j)
  BY <1>9, NotRunning, JobIdles DEF RecordFailed, Running
<1>10. QED
  BY <1>1, <1>2, <1>3, <1>4, <1>5, <1>6, <1>7, <1>8, <1>9 DEF JobStep

LEMMA ClaimStep == TypeInv /\ ClaimIsJob /\ [Next]_vars => ClaimIsJob'
<1> SUFFICES ASSUME TypeInv, ClaimIsJob, [Next]_vars PROVE ClaimIsJob'
  OBVIOUS
<1> USE DEF containerVars
<1>1. CASE UNCHANGED <<inflight, job>>
  BY <1>1, ClaimStays DEF Running
<1>2. CASE Tick
  <2>1. ASSUME NEW j \in Jobs
        PROVE  job'[j].status = job[j].status /\ job'[j].owner = job[j].owner
    <3>1. job'[j] \in {job[j], [job[j] EXCEPT !.age = Older(job[j].age)]}
      BY <1>2 DEF Tick
    <3>2. job[j] \in Job
      BY DEF TypeInv, TypeOK
    <3>3. QED
      BY <3>1, <3>2 DEF Job
  <2>2. UNCHANGED inflight
    BY <1>2 DEF Tick
  <2>3. QED
    BY <2>1, <2>2, ClaimStays DEF Running
<1>3. ASSUME NEW c \in Containers, SweepStep(c) \/ TriggerDream(c) \/ TriggerFault(c)
      PROVE  ClaimIsJob'
  <2>1. CASE SweepWatermark(c) \/ SweepState(c) \/ SweepSkip(c) \/ TriggerFault(c)
    BY <1>1, <2>1
       DEF SweepWatermark, SweepState, SweepSkip, TriggerFault, ClaimFault
  <2>2. CASE SweepSchedule(c)
    BY <2>2, StartJobClaim DEF SweepSchedule
  <2>3. CASE TriggerDream(c)
    BY <2>3, StartJobClaim DEF TriggerDream
  <2>4. QED
    BY <1>3, <2>1, <2>2, <2>3 DEF SweepStep
<1>4. ASSUME NEW c \in Containers, Shutdown(c)
      PROVE  ClaimIsJob'
  <2>1. ASSUME NEW j \in Jobs
        PROVE  /\ Running(j)' <=> Running(j) /\ job[j].owner # c
               /\ Running(j)' => job'[j].owner = job[j].owner
    <3>1. CASE job[j].owner # c
      BY <1>4, <3>1 DEF Shutdown, JobsOf, Running
    <3>2. CASE job[j].owner = c
      <4>1. job'[j] \in {NoJob, [job[j] EXCEPT !.status = "draining"]}
        BY <1>4, <3>2 DEF Shutdown, JobsOf
      <4>2. job[j] \in Job
        BY DEF TypeInv, TypeOK
      <4>3. job'[j].status # "running"
        BY <4>1, <4>2, NotRunning DEF Job
      <4>4. QED
        BY <3>2, <4>3 DEF Running
    <3>3. QED
      BY <3>1, <3>2
  <2>2. inflight' = inflight \ {c}
    BY <1>4 DEF Shutdown
  <2>3. QED
    BY <2>1, <2>2, ClaimDropped
<1>5. ASSUME NEW c \in Containers, Restart(c)
      PROVE  ClaimIsJob'
  <2>1. \A j \in Jobs : /\ Running(j)' <=> Running(j) /\ job[j].owner # c
                        /\ Running(j)' => job'[j].owner = job[j].owner
    BY <1>5, NotRunning DEF Restart, JobsOf, Running
  <2>2. inflight' = inflight \ {c}
    BY <1>5 DEF Restart
  <2>3. QED
    BY <2>1, <2>2, ClaimDropped
<1>6. CASE AppendMessage \/ SetDreamScheduling \/ SetTenantActive
           \/ UNCHANGED vars
  BY <1>1, <1>6 DEF AppendMessage, SetDreamScheduling, SetTenantActive, vars
<1>7. QED
  BY <1>2, <1>3, <1>4, <1>5, <1>6, JobStepClaim DEF Next

\* The in-process claim is held exactly while a job of the container runs, and
\* by one job, for any number of containers and jobs: no path of the loop, the
\* heartbeat, the shutdown or the restart strands it or lets two share it.
THEOREM ClaimHeld == Spec => []ClaimIsJob
<1>1. Init => ClaimIsJob
  BY DEF Init, ClaimIsJob, Running, NoJob
<1>2. QED
  BY <1>1, TypeInvariant, ClaimStep, PTL DEF Spec

-------------------------------------------------------------------------------
(* Requests: what a caller is told, and what the limiter's table knows         *)

\* What may be under way in a request, and what its caller may be told.
Failures ==
  {"none", "invalid_key", "forbidden", "domain", "host_port", "limited"} \cup StorageFaults
Tellings == {"none", "ok", "local"} \cup Refusals \cup {"503", "500"}

Stages == {"none", "front", "delegate", "failing", "audit", "usage", "answered", "lost"}

RequestType ==
  [pc : Stages, route : Routes \cup {"none"}, key : Keys \cup {"none"},
   at : (0 .. MaxTime) \cup {Never}, failure : Failures, told : Nat, answer : Tellings]
RowType ==
  [audit : {"none", "ok", "error", "rate_limited"}, usage : {"none", "ok", "error", "rate_limited"}]

ServiceTypes ==
  /\ now \in 0 .. MaxTime /\ nextPrune \in Nat
  /\ req \in [Requests -> RequestType]
  /\ effects \in [Requests -> Nat]
  /\ rows \in [Requests -> RowType]
  /\ \A r \in Requests : req[r].pc # "none" => req[r].route \in Routes /\ req[r].key \in Keys
  /\ DOMAIN buckets \subseteq Keys \X Operations
  /\ buckets \in [DOMAIN buckets -> [count : Nat, expires : Nat]]

Fresh(r) == req[r].pc \in {"none", "front", "delegate"}

\* What is known of a request at each stage.
Accounted(r) ==
  /\ Fresh(r) => effects[r] = 0 /\ rows[r] = NoRows /\ req[r].failure = "none"
  /\ req[r].pc = "failing" => /\ rows[r] = NoRows /\ req[r].failure # "none"
                              /\ req[r].failure \notin StorageFaults => effects[r] = 0
  /\ req[r].pc = "audit" => effects[r] \in Effects[req[r].route] /\ rows[r] = NoRows
  /\ req[r].pc = "usage" => /\ effects[r] \in Effects[req[r].route]
                            /\ rows[r].audit = "ok" /\ rows[r].usage = "none"
  /\ req[r].answer # "none" => req[r].pc = "answered"
  /\ req[r].answer = "ok" => rows[r].audit = "ok" /\ rows[r].usage = "ok"
  /\ req[r].answer \in Refusals => effects[r] = 0 /\ (req[r].route = "write" => rows[r].audit # "ok")
  /\ rows[r].audit = "ok" => effects[r] \in Effects[req[r].route]
  /\ rows[r].usage # "none" => rows[r].usage = rows[r].audit

AllAccounted == \A r \in Requests : Accounted(r)

Admits(b) == {r \in Requests : req[r].at # Never /\ Bucket(r) = b}
Since(b, t) == {r \in Admits(b) : req[r].at >= t}
Before(b, t) == {r \in Admits(b) : req[r].at < t /\ t < req[r].at + WindowOf(b)}

\* A bucket's window began at t with an admission, it has counted those since,
\* and of the window before it less than the allowance reaches into it.
BucketKnows(b) ==
  \E t \in 0 .. now :
    /\ buckets[b].expires = t + WindowOf(b)
    /\ Cardinality(Since(b, t)) = buckets[b].count
    /\ buckets[b].count \in 1 .. LimitOf(b)
    /\ \E r \in Since(b, t) : req[r].at = t
    /\ Cardinality(Before(b, t)) <= LimitOf(b) - 1
    /\ \A r \in Admits(b) : req[r].at < buckets[b].expires
    /\ nextPrune <= buckets[b].expires

\* A bucket that is not there has seen less than the allowance of late.
AbsentKnows(b) ==
  /\ Cardinality(Recent(b)) <= LimitOf(b) - 1
  /\ \A r \in Admits(b) : req[r].at < now

TableKnows ==
  /\ \A r \in Requests : req[r].pc \in {"none", "front"} => req[r].at = Never
  /\ IsFiniteSet({r \in Requests : req[r].at # Never})
  /\ \A b \in DOMAIN buckets : BucketKnows(b)
  /\ \A b \in (Keys \X Operations) \ DOMAIN buckets : AbsentKnows(b)

-------------------------------------------------------------------------------
LEMMA LeastOfNaturals ==
  ASSUME NEW S \in SUBSET Nat, S # {}
  PROVE  Min(S) \in S /\ \A n \in S : Min(S) <= n
<1>1. PICK m \in S : \A n \in S : ~(<<n, m>> \in OpToRel(<, Nat))
  BY NatLessThanWellFounded, WFMin
<1>2. \A n \in S : ~(n < m)
  BY <1>1 DEF OpToRel
<1>3. \A n \in S : m <= n
  BY <1>2
<1> QED
  BY <1>3 DEF Min

LEMMA AllowanceTypes ==
  /\ \A b \in Keys \X Operations : LimitOf(b) \in Nat \ {0} /\ WindowOf(b) \in Nat \ {0}
  /\ \A r \in Requests :
       req[r].route \in Routes /\ req[r].key \in Keys => Bucket(r) \in Keys \X Operations
  BY HostedAssumption DEF LimitOf, WindowOf, Bucket, Operations

LEMMA NeverComes == Never \in Nat /\ MaxTime < Never
  BY HostedAssumption DEF Never

\* What the limiter looks at is what it holds, and nothing that ran out if it
\* is due.
LEMMA TableHolds ==
  ASSUME ServiceTypes
  PROVE  /\ DOMAIN Table \subseteq DOMAIN buckets
         /\ Table \in [DOMAIN Table -> [count : Nat, expires : Nat]]
         /\ \A c \in DOMAIN Table : Table[c] = buckets[c]
         /\ Due => \A c \in DOMAIN Table : buckets[c].expires > now
         /\ \A c \in DOMAIN buckets \ DOMAIN Table : buckets[c].expires <= now
         /\ ~Due => Table = buckets
<1>1. CASE Due
  <2>1. Table = [c \in Live |-> buckets[c]] /\ Live \subseteq DOMAIN buckets
    BY <1>1 DEF Table, Live
  <2>2. \A c \in DOMAIN buckets : buckets[c].expires \in Nat
    BY DEF ServiceTypes
  <2> QED
    BY <1>1, <2>1, <2>2 DEF ServiceTypes, Live
<1>2. CASE ~Due
  BY <1>2 DEF Table, ServiceTypes
<1> QED
  BY <1>1, <1>2

LEMMA EarliestIsEarliest ==
  ASSUME ServiceTypes
  PROVE  EarliestEnd(Table) \in Nat /\ \A c \in DOMAIN Table : EarliestEnd(Table) <= Table[c].expires
<1> DEFINE ends == {Table[c].expires : c \in DOMAIN Table} \cup {Never}
<1>1. ends \in SUBSET Nat /\ ends # {}
  BY TableHolds, NeverComes
<1>2. Min(ends) \in ends /\ \A n \in ends : Min(ends) <= n
  BY <1>1, LeastOfNaturals
<1> QED
  BY <1>1, <1>2 DEF EarliestEnd

\* No window of the table ends before the time the next pruning waits for.
LEMMA DueInTime ==
  ASSUME ServiceTypes, \A b \in DOMAIN buckets : nextPrune <= buckets[b].expires
  PROVE  TableDue \in Nat /\ \A c \in DOMAIN Table : TableDue <= Table[c].expires
<1>1. CASE Due
  BY <1>1, EarliestIsEarliest DEF TableDue
<1>2. CASE ~Due
  BY <1>2, TableHolds DEF TableDue, ServiceTypes
<1> QED
  BY <1>1, <1>2

-------------------------------------------------------------------------------
\* The maps of the code, spelled out.
LEMMA FaultNames ==
  /\ StorageFaults = {"retryable", "operational"}
  /\ FaultAnswers = {"503", "500"}
  BY DEF StorageFaults, FaultAnswers, StorageAnswer

LEMMA AnswersTold ==
  /\ \A route \in Routes, failure \in Failures \ {"none"} :
       /\ AnswerOf(route, failure) \in Tellings \ {"none", "ok"}
       /\ failure \in StorageFaults => AnswerOf(route, failure) \notin Refusals
  /\ \A route \in Routes :
       /\ Refuses[route] \subseteq Refusals
       /\ Given[route] \subseteq {"ok", "400", "tool_error"}
       /\ Effects[route] \subseteq {0, 1}
  /\ Effects["read"] = {0} /\ Effects["mcp"] = {0} /\ Effects["write"] = {1}
  /\ Given["write"] = {"ok"} /\ Given["trigger"] = {"ok"}
<1>1. \A route \in Routes, failure \in Failures \ {"none"} :
       /\ AnswerOf(route, failure) \in Tellings \ {"none", "ok"}
       /\ failure \in StorageFaults => AnswerOf(route, failure) \notin Refusals
  BY DEF AnswerOf, Routes, Failures, StorageFaults, StorageAnswer, HttpAnswer, McpAnswer,
     Tellings, Refusals
<1>2. \A route \in Routes : Refuses[route] \subseteq Refusals
  BY DEF Routes, Refuses, Refusals, CapBody, WriteRefuses, SearchRefuses, ContextRefuses,
         McpRefuses, TriggerRefuses
<1>3. \A route \in Routes : Given[route] \subseteq {"ok", "400", "tool_error"}
  BY DEF Routes, Given
<1>4. \A route \in Routes : Effects[route] \subseteq {0, 1}
  BY DEF Routes, Effects
<1>5. Effects["read"] = {0} /\ Effects["mcp"] = {0} /\ Effects["write"] = {1}
  BY DEF Effects
<1>6. Given["write"] = {"ok"} /\ Given["trigger"] = {"ok"}
  BY DEF Given
<1> QED
  BY <1>1, <1>2, <1>3, <1>4, <1>5, <1>6

-------------------------------------------------------------------------------
(* Types *)

\* The wait that is told is that of a window that still runs.
LEMMA WaitTold ==
  ASSUME ServiceTypes, NEW b \in Keys \X Operations, IsFull(b) \/ IsSpent(b)
  PROVE  /\ RetryAfter(b) \in Nat
         /\ IsSpent(b) => RetryAfter(b) = Table[b].expires - now + 1
         /\ (~IsSpent(b) /\ \A c \in DOMAIN Table : Table[c].expires > now) =>
              \E c \in DOMAIN Table : RetryAfter(b) = Table[c].expires - now + 1
<1>1. CASE IsSpent(b)
  BY <1>1, TableHolds DEF RetryAfter, IsSpent, ServiceTypes
<1>2. CASE ~IsSpent(b)
  <2> DEFINE wait(c) == IF Table[c].expires > now THEN Table[c].expires - now + 1 ELSE 1
             waits == {wait(c) : c \in DOMAIN Table}
  <2>1. \A c \in DOMAIN Table : wait(c) \in Nat
    BY TableHolds DEF ServiceTypes
  <2>2. DOMAIN Table # {}
    <3>1. Cardinality(DOMAIN Table) >= MaxBuckets /\ MaxBuckets \in Nat \ {0}
      BY <1>2, HostedAssumption DEF IsFull
    <3>2. Cardinality({}) = 0
      BY FS_EmptySet
    <3> QED
      BY <3>1, <3>2
  <2>3. waits \in SUBSET Nat /\ waits # {}
    BY <2>1, <2>2
  <2>4. Min(waits) \in waits
    BY <2>3, LeastOfNaturals
  <2>5. RetryAfter(b) = Min(waits)
    BY <1>2 DEF RetryAfter
  <2> QED
    BY <1>2, <2>3, <2>4, <2>5
<1> QED
  BY <1>1, <1>2

LEMMA RequestsStartTyped ==
  ASSUME RequestsInit
  PROVE  ServiceTypes
<1>1. Unsent \in RequestType
  BY NeverComes DEF Unsent, RequestType, Stages, Failures, Tellings
<1>2. NoRows \in RowType
  BY DEF NoRows, RowType
<1>3. \A r \in Requests : req[r].pc = "none"
  BY DEF RequestsInit, Unsent
<1> QED
  BY <1>1, <1>2, <1>3, NeverComes, HostedAssumption DEF RequestsInit, ServiceTypes

\* What one request becomes leaves the others as they are.
LEMMA RequestTyped ==
  ASSUME ServiceTypes, NEW r \in Requests, NEW q \in RequestType, Becomes(r, q),
         q.pc # "none" => q.route \in Routes /\ q.key \in Keys
  PROVE  /\ req' \in [Requests -> RequestType]
         /\ \A s \in Requests : req'[s].pc # "none" => req'[s].route \in Routes /\ req'[s].key \in Keys
         /\ req'[r] = q
         /\ \A s \in Requests \ {r} : req'[s] = req[s]
  BY DEF ServiceTypes, Becomes

LEMMA LimiterTyped ==
  ASSUME ServiceTypes, NEW r \in Requests, Admit(r) \/ Refuse(r)
  PROVE  /\ DOMAIN buckets' \subseteq Keys \X Operations
         /\ buckets' \in [DOMAIN buckets' -> [count : Nat, expires : Nat]]
         /\ nextPrune' \in Nat
<1> DEFINE b == Bucket(r)
<1>1. b \in Keys \X Operations /\ WindowOf(b) \in Nat
  BY AllowanceTypes DEF ServiceTypes, Admit, Refuse, OnLoop
<1>2. TableDue \in Nat
  <2>1. CASE Due
    BY <2>1, EarliestIsEarliest DEF TableDue
  <2>2. CASE ~Due
    BY <2>2 DEF TableDue, ServiceTypes
  <2> QED
    BY <2>1, <2>2
<1> HIDE DEF b
<1>3. CASE Refuse(r)
  BY <1>3, <1>2, TableHolds DEF Refuse, ServiceTypes
<1>4. CASE Admit(r)
  <2>1. buckets' = [c \in DOMAIN Table \cup {b} |-> IF c = b THEN Counted(b) ELSE Table[c]]
    BY <1>4 DEF Admit, b
  <2>2. Counted(b) \in [count : Nat, expires : Nat]
    <3>1. CASE OpensWindow(b)
      BY <3>1, <1>1 DEF Counted, ServiceTypes
    <3>2. CASE ~OpensWindow(b)
      <4>1. Table[b] \in [count : Nat, expires : Nat]
        BY <3>2, TableHolds DEF OpensWindow
      <4> QED
        BY <3>2, <4>1 DEF Counted
    <3> QED
      BY <3>1, <3>2
  <2>3. DOMAIN Table \subseteq Keys \X Operations
    BY TableHolds DEF ServiceTypes
  <2>4. DOMAIN buckets' \subseteq Keys \X Operations
        /\ buckets' \in [DOMAIN buckets' -> [count : Nat, expires : Nat]]
    BY <2>1, <2>2, <2>3, <1>1, TableHolds
  <2>5. nextPrune' \in Nat
    <3>1. nextPrune' = Await(b)
      BY <1>4 DEF Admit, b
    <3>2. CASE OpensWindow(b)
      <4>1. {TableDue, now + WindowOf(b)} \in SUBSET Nat /\ {TableDue, now + WindowOf(b)} # {}
        BY <1>1, <1>2 DEF ServiceTypes
      <4>2. Min({TableDue, now + WindowOf(b)}) \in Nat
        BY <4>1, LeastOfNaturals
      <4> QED
        BY <3>1, <3>2, <4>2 DEF Await
    <3>3. CASE ~OpensWindow(b)
      BY <3>1, <3>3, <1>2 DEF Await
    <3> QED
      BY <3>2, <3>3
  <2> QED
    BY <2>4, <2>5
<1> QED
  BY <1>3, <1>4

\* The rows and effects a step leaves.
LEMMA RowsTyped ==
  ASSUME ServiceTypes, NEW r \in Requests
  PROVE  /\ \A kind \in {"audit", "usage"}, landed \in BOOLEAN :
              Row(r, kind, landed) =>
                /\ rows' \in [Requests -> RowType]
                /\ \A s \in Requests \ {r} : rows'[s] = rows[s]
                /\ rows'[r] = IF landed THEN [rows[r] EXCEPT ![kind] = "ok"] ELSE rows[r]
         /\ RecordFailure(r) =>
              /\ rows' \in [Requests -> RowType]
              /\ \A s \in Requests \ {r} : rows'[s] = rows[s]
<1>1. ASSUME NEW kind \in {"audit", "usage"}, NEW landed \in BOOLEAN, Row(r, kind, landed)
      PROVE  /\ rows' \in [Requests -> RowType]
             /\ \A s \in Requests \ {r} : rows'[s] = rows[s]
             /\ rows'[r] = IF landed THEN [rows[r] EXCEPT ![kind] = "ok"] ELSE rows[r]
  <2>1. [rows[r] EXCEPT ![kind] = "ok"] \in RowType
    BY DEF ServiceTypes, RowType
  <2>2. CASE landed
    <3>1. rows' = [rows EXCEPT ![r] = [rows[r] EXCEPT ![kind] = "ok"]]
      BY <1>1, <2>2 DEF Row
    <3> QED
      BY <2>1, <2>2, <3>1 DEF ServiceTypes
  <2>3. CASE ~landed
    BY <1>1, <2>3 DEF Row, ServiceTypes
  <2> QED
    BY <2>2, <2>3
<1>2. ASSUME RecordFailure(r)
      PROVE  /\ rows' \in [Requests -> RowType]
             /\ \A s \in Requests \ {r} : rows'[s] = rows[s]
  <2> DEFINE status == IF req[r].failure = "limited" THEN "rate_limited" ELSE "error"
  <2>1. PICK kinds \in {{}, {"audit"}, {"audit", "usage"}} :
          rows' = [rows EXCEPT ![r] = [k \in DOMAIN rows[r] |-> IF k \in kinds THEN status ELSE rows[r][k]]]
    BY <1>2 DEF RecordFailure
  <2>2. rows[r] \in RowType /\ DOMAIN rows[r] = {"audit", "usage"}
    BY DEF ServiceTypes, RowType
  <2>3. [k \in DOMAIN rows[r] |-> IF k \in kinds THEN status ELSE rows[r][k]] \in RowType
    BY <2>2 DEF RowType
  <2> QED
    BY <2>1, <2>3 DEF ServiceTypes
<1> QED
  BY <1>1, <1>2

LEMMA RequestStepTyped ==
  ASSUME ServiceTypes, NEW r \in Requests, Accounted(r), RequestStep(r)
  PROVE  /\ req' \in [Requests -> RequestType]
         /\ \A s \in Requests : req'[s].pc # "none" => req'[s].route \in Routes /\ req'[s].key \in Keys
         /\ \A s \in Requests \ {r} : req'[s] = req[s]
         /\ now' = now
<1> DEFINE q == req[r]
           Done(answer) == [q EXCEPT !.pc = "answered", !.answer = answer]
           Failed(failure) == [q EXCEPT !.pc = "failing", !.failure = failure]
           Goal == /\ req' \in [Requests -> RequestType]
                   /\ \A s \in Requests : req'[s].pc # "none" => req'[s].route \in Routes /\ req'[s].key \in Keys
                   /\ \A s \in Requests \ {r} : req'[s] = req[s]
<1>1. q \in RequestType /\ (q.pc # "none" => q.route \in Routes /\ q.key \in Keys)
  BY DEF ServiceTypes
<1>2. ASSUME NEW answer \in Tellings, q.pc # "none", Answers(r, answer) PROVE Goal
  <2>1. Done(answer) \in RequestType /\ Done(answer).route = q.route /\ Done(answer).key = q.key
    BY <1>1 DEF RequestType, Stages
  <2> QED
    BY <1>1, <1>2, <2>1, RequestTyped DEF Answers
<1>3. ASSUME NEW failure \in Failures, q.pc # "none", Fails(r, failure) PROVE Goal
  <2>1. Failed(failure) \in RequestType /\ Failed(failure).route = q.route /\ Failed(failure).key = q.key
    BY <1>1 DEF RequestType, Stages
  <2> QED
    BY <1>1, <1>3, <2>1, RequestTyped DEF Fails
<1>4. ASSUME NEW pc \in Stages, q.pc # "none", Becomes(r, [q EXCEPT !.pc = pc]) PROVE Goal
  <2>1. [q EXCEPT !.pc = pc] \in RequestType
        /\ [q EXCEPT !.pc = pc].route = q.route /\ [q EXCEPT !.pc = pc].key = q.key
    BY <1>1 DEF RequestType
  <2> QED
    BY <1>1, <1>4, <2>1, RequestTyped
<1>5. FaultAnswers \subseteq Tellings /\ StorageFaults \subseteq Failures
      /\ Refusals \subseteq Tellings /\ {"local", "tool_error", "400", "ok"} \subseteq Tellings
      /\ {"invalid_key", "forbidden", "domain", "host_port", "limited"} \subseteq Failures
      /\ {"audit", "usage"} \subseteq Stages
  BY FaultNames DEF Tellings, Failures, Refusals, Stages
<1> HIDE DEF Goal
<1>6. CASE Receive(r)
  <2>1. PICK route \in Routes, key \in Keys :
          Becomes(r, [q EXCEPT !.pc = "front", !.route = route, !.key = key])
    BY <1>6 DEF Receive
  <2> DEFINE new == [q EXCEPT !.pc = "front", !.route = route, !.key = key]
  <2>2. new \in RequestType /\ new.route = route /\ new.key = key
    BY <1>1 DEF RequestType, Stages
  <2> HIDE DEF new
  <2> QED
    BY <1>6, <2>1, <2>2, RequestTyped DEF Receive, Quiet, new, Goal
<1>7. CASE TurnAway(r)
  BY <1>7, <1>1, <1>2, <1>5, AnswersTold DEF TurnAway, OnLoop, Quiet, Goal
<1>8. CASE WriteRefused(r)
  BY <1>8, <1>3, <1>5 DEF WriteRefused, OnLoop, Quiet, Goal
<1>9. CASE AnswerLocally(r)
  BY <1>9, <1>2, <1>5 DEF AnswerLocally, OnLoop, Quiet, Goal
<1>10. CASE Admit(r)
  <2> DEFINE new == [q EXCEPT !.pc = "delegate", !.at = now]
  <2>1. new \in RequestType /\ new.route = q.route /\ new.key = q.key
    BY <1>1 DEF RequestType, Stages, ServiceTypes
  <2>2. Becomes(r, new) /\ now' = now /\ q.pc # "none"
    BY <1>10 DEF Admit, OnLoop
  <2> HIDE DEF new
  <2> QED
    BY <2>1, <2>2, <1>1, RequestTyped DEF Goal
<1>11. CASE Refuse(r)
  <2> DEFINE wait == RetryAfter(Bucket(r))
             new == [q EXCEPT !.pc = "failing", !.failure = "limited", !.told = wait]
  <2>1. wait \in Nat
    BY <1>11, AllowanceTypes, WaitTold DEF Refuse, OnLoop, ServiceTypes
  <2>2. Becomes(r, new) /\ now' = now /\ q.pc # "none"
    BY <1>11 DEF Refuse, OnLoop
  <2> HIDE DEF wait
  <2>3. new \in RequestType /\ new.route = q.route /\ new.key = q.key
    BY <1>1, <2>1 DEF RequestType, Stages, Failures
  <2> HIDE DEF new
  <2> QED
    BY <2>2, <2>3, <1>1, RequestTyped DEF Goal
<1>12. CASE CallFails(r)
  BY <1>12, <1>3, <1>5 DEF CallFails, OnLoop, Quiet, Goal
<1>13. CASE Lands(r)
  BY <1>13, <1>4, <1>5 DEF Lands, OnLoop, Goal
<1>14. CASE DelegateFails(r)
  BY <1>14, <1>3, <1>5 DEF DelegateFails, OnLoop, Quiet, Goal
<1>15. CASE LandsUnseen(r)
  BY <1>15, <1>3, <1>5 DEF LandsUnseen, OnLoop, Goal
<1>16. CASE RecordAudit(r)
  BY <1>16, <1>2, <1>4, <1>5 DEF RecordAudit, OnLoop, Goal
<1>17. CASE RecordUsage(r)
  <2>1. Given[q.route] \subseteq Tellings /\ q.pc # "none"
    BY <1>17, <1>1, <1>5, AnswersTold DEF RecordUsage, OnLoop
  <2> QED
    BY <1>17, <2>1, <1>2, <1>5 DEF RecordUsage, Goal
<1>18. CASE RecordFailure(r)
  <2>1. q.pc = "failing" /\ q.failure \in Failures \ {"none"} /\ q.route \in Routes
    BY <1>18, <1>1 DEF RecordFailure, OnLoop, Accounted, RequestType
  <2>2. AnswerOf(q.route, q.failure) \in Tellings
    BY <2>1, AnswersTold
  <2> QED
    BY <1>18, <2>1, <2>2, <1>2 DEF RecordFailure, Goal
<1> QED
  BY <1>6, <1>7, <1>8, <1>9, <1>10, <1>11, <1>12, <1>13, <1>14, <1>15, <1>16, <1>17, <1>18
     DEF RequestStep, Goal

LEMMA EffectsTyped ==
  ASSUME ServiceTypes, NEW r \in Requests, RequestStep(r)
  PROVE  /\ effects' \in [Requests -> Nat] /\ rows' \in [Requests -> RowType]
         /\ \A s \in Requests \ {r} : effects'[s] = effects[s] /\ rows'[s] = rows[s]
         /\ ~(Lands(r) \/ LandsUnseen(r)) => effects' = effects
         /\ ~(RecordAudit(r) \/ RecordUsage(r) \/ RecordFailure(r)) => rows' = rows
<1>1. CASE Lands(r)
  <2>1. req[r].route \in Routes /\ effects[r] \in Nat
    BY <1>1 DEF Lands, OnLoop, ServiceTypes
  <2>2. PICK n \in Effects[req[r].route] : effects' = [effects EXCEPT ![r] = @ + n]
    BY <1>1 DEF Lands
  <2>3. n \in Nat
    BY <2>1, <2>2, AnswersTold
  <2>4. /\ effects' \in [Requests -> Nat]
        /\ \A s \in Requests \ {r} : effects'[s] = effects[s]
    BY <2>1, <2>2, <2>3 DEF ServiceTypes
  <2>5. rows' = rows /\ rows \in [Requests -> RowType]
    BY <1>1 DEF Lands, ServiceTypes
  <2> QED
    BY <1>1, <2>4, <2>5
<1>2. CASE LandsUnseen(r)
  BY <1>2 DEF LandsUnseen, ServiceTypes
<1>3. CASE RecordAudit(r) \/ RecordUsage(r)
  BY <1>3, RowsTyped DEF RecordAudit, RecordUsage, ServiceTypes
<1>4. CASE RecordFailure(r)
  BY <1>4, RowsTyped DEF RecordFailure, ServiceTypes
<1>5. CASE effects' = effects /\ rows' = rows
  BY <1>5 DEF ServiceTypes
<1>6. CASE Receive(r) \/ TurnAway(r)
  BY <1>5, <1>6 DEF Receive, TurnAway, Quiet
<1>7. CASE WriteRefused(r) \/ AnswerLocally(r)
  BY <1>5, <1>7 DEF WriteRefused, AnswerLocally, Quiet
<1>8. CASE CallFails(r) \/ DelegateFails(r)
  BY <1>5, <1>8 DEF CallFails, DelegateFails, Quiet
<1>9. CASE Admit(r) \/ Refuse(r)
  BY <1>5, <1>9 DEF Admit, Refuse
<1> QED
  BY <1>1, <1>2, <1>3, <1>4, <1>6, <1>7, <1>8, <1>9 DEF RequestStep

LEMMA CrashTyped ==
  ASSUME ServiceTypes, Crash
  PROVE  /\ ServiceTypes' /\ effects' = effects /\ rows' = rows
         /\ \A r \in Requests :
              /\ req'[r].at = Never
              /\ req'[r].pc = IF req[r].pc \in {"none", "answered"} THEN req[r].pc ELSE "lost"
              /\ req'[r].answer = req[r].answer /\ req'[r].route = req[r].route
              /\ req'[r].failure = req[r].failure
<1> DEFINE lost(r) == [req[r] EXCEPT !.at = Never,
                         !.pc = IF req[r].pc \in {"none", "answered"} THEN req[r].pc ELSE "lost"]
<1>1. ASSUME NEW r \in Requests
      PROVE  /\ lost(r) \in RequestType
             /\ lost(r).at = Never /\ lost(r).answer = req[r].answer
             /\ lost(r).route = req[r].route /\ lost(r).key = req[r].key
             /\ lost(r).failure = req[r].failure
             /\ lost(r).pc = IF req[r].pc \in {"none", "answered"} THEN req[r].pc ELSE "lost"
  <2>1. PICK q : q = req[r]
    OBVIOUS
  <2>2. PICK pc : pc = IF q.pc \in {"none", "answered"} THEN q.pc ELSE "lost"
    OBVIOUS
  <2>3. q \in RequestType
    BY <2>1 DEF ServiceTypes
  <2>4. q.pc \in Stages
    BY <2>3 DEF RequestType
  <2>5. pc \in Stages
    BY <2>2, <2>4 DEF Stages
  <2>6. lost(r) = [q EXCEPT !.at = Never, !.pc = pc]
    BY <2>1, <2>2
  <2>7. lost(r) \in RequestType
    BY <2>3, <2>5, <2>6, NeverComes DEF RequestType
  <2>8. /\ lost(r).at = Never /\ lost(r).answer = q.answer
        /\ lost(r).route = q.route /\ lost(r).key = q.key
        /\ lost(r).failure = q.failure /\ lost(r).pc = pc
    BY <2>3, <2>6 DEF RequestType
  <2> QED
    BY <2>1, <2>2, <2>7, <2>8
<1>2. req' = [r \in Requests |-> lost(r)]
  BY DEF Crash
<1> HIDE DEF lost
<1>3. /\ req' \in [Requests -> RequestType]
      /\ \A r \in Requests : req'[r].pc # "none" => req'[r].route \in Routes /\ req'[r].key \in Keys
  <2>1. req' \in [Requests -> RequestType]
    BY <1>1, <1>2
  <2>2. ASSUME NEW r \in Requests, req'[r].pc # "none"
        PROVE  req'[r].route \in Routes /\ req'[r].key \in Keys
    <3>1. req[r].pc # "none" /\ req'[r].route = req[r].route /\ req'[r].key = req[r].key
      BY <1>1, <1>2, <2>2
    <3> QED
      BY <3>1 DEF ServiceTypes
  <2> QED
    BY <2>1, <2>2
<1>4. DOMAIN buckets' = {} /\ buckets' \in [DOMAIN buckets' -> [count : Nat, expires : Nat]]
  BY DEF Crash
<1>5. ServiceTypes'
  <2>1. /\ UNCHANGED <<now, effects, rows>> /\ DOMAIN buckets' = {} /\ nextPrune' = Never
        /\ now \in 0 .. MaxTime /\ effects \in [Requests -> Nat]
        /\ rows \in [Requests -> RowType]
    BY <1>4 DEF Crash, ServiceTypes
  <2>2. DOMAIN buckets' \subseteq Keys \X Operations /\ nextPrune' \in Nat
    BY <2>1, NeverComes
  <2> QED
    BY <1>3, <1>4, <2>1, <2>2 DEF ServiceTypes
<1>6. effects' = effects /\ rows' = rows
  BY DEF Crash
<1>7. \A r \in Requests : req'[r] = lost(r)
  BY <1>2
<1> QED
  BY <1>1, <1>5, <1>6, <1>7

-------------------------------------------------------------------------------
(* What the caller is told *)

\* Only the step's own request is any different after it.
LEMMA AccountedAlone ==
  ASSUME NEW r \in Requests, Accounted(r),
         req'[r] = req[r], effects'[r] = effects[r], rows'[r] = rows[r]
  PROVE  Accounted(r)'
  BY DEF Accounted, Fresh

\* A step that answers, one that fails, and the record each becomes.
LEMMA NewRecord ==
  ASSUME ServiceTypes, NEW r \in Requests
  PROVE  /\ \A answer : Answers(r, answer) =>
              /\ req'[r].pc = "answered" /\ req'[r].answer = answer
              /\ req'[r].route = req[r].route /\ req'[r].failure = req[r].failure
         /\ \A failure : Fails(r, failure) =>
              /\ req'[r].pc = "failing" /\ req'[r].failure = failure
              /\ req'[r].route = req[r].route /\ req'[r].answer = req[r].answer
<1>1. req \in [Requests -> RequestType] /\ req[r] \in RequestType
  BY DEF ServiceTypes
<1>2. ASSUME NEW answer, Answers(r, answer)
      PROVE  /\ req'[r].pc = "answered" /\ req'[r].answer = answer
             /\ req'[r].route = req[r].route /\ req'[r].failure = req[r].failure
  <2>1. req'[r] = [req[r] EXCEPT !.pc = "answered", !.answer = answer]
    BY <1>1, <1>2 DEF Answers, Becomes
  <2> QED
    BY <1>1, <2>1 DEF RequestType
<1>3. ASSUME NEW failure, Fails(r, failure)
      PROVE  /\ req'[r].pc = "failing" /\ req'[r].failure = failure
             /\ req'[r].route = req[r].route /\ req'[r].answer = req[r].answer
  <2>1. req'[r] = [req[r] EXCEPT !.pc = "failing", !.failure = failure]
    BY <1>1, <1>3 DEF Fails, Becomes
  <2> QED
    BY <1>1, <2>1 DEF RequestType
<1> QED
  BY <1>2, <1>3

\* A request turned away or failed before anything was done for it.
LEMMA AnsweredEmpty ==
  ASSUME ServiceTypes, NEW r \in Requests, Accounted(r), Fresh(r), effects' = effects, rows' = rows
  PROVE  /\ \A answer : answer \notin {"none", "ok"} /\ Answers(r, answer) => Accounted(r)'
         /\ \A failure \in Failures \ {"none"} : Fails(r, failure) => Accounted(r)'
<1>1. effects[r] = 0 /\ rows[r] = NoRows /\ req[r].answer = "none"
  BY DEF Accounted, Fresh
<1>2. ASSUME NEW answer, answer \notin {"none", "ok"}, Answers(r, answer) PROVE Accounted(r)'
  <2>1. req'[r].pc = "answered" /\ req'[r].answer = answer
    BY <1>2, NewRecord
  <2> QED
    BY <1>1, <1>2, <2>1 DEF Accounted, Fresh, NoRows
<1>3. ASSUME NEW failure \in Failures \ {"none"}, Fails(r, failure) PROVE Accounted(r)'
  <2>1. req'[r].pc = "failing" /\ req'[r].failure = failure /\ req'[r].answer = "none"
    BY <1>1, <1>3, NewRecord
  <2> QED
    BY <1>1, <2>1 DEF Accounted, Fresh, NoRows, Refusals
<1> QED
  BY <1>2, <1>3

\* Before the delegate nothing was done, and what it refuses undid it.
LEMMA TurnedAwayHonest ==
  ASSUME ServiceTypes, NEW r \in Requests, Accounted(r),
         TurnAway(r) \/ WriteRefused(r) \/ AnswerLocally(r) \/ CallFails(r) \/ DelegateFails(r)
  PROVE  Accounted(r)'
<1>1. Fresh(r) /\ effects' = effects /\ rows' = rows /\ req[r].route \in Routes
  BY DEF TurnAway, WriteRefused, AnswerLocally, CallFails, DelegateFails, OnLoop, Fresh, Quiet,
     ServiceTypes
<1>2. Refuses[req[r].route] \cup FaultAnswers \cup {"local", "tool_error"} \subseteq Tellings \ {"none", "ok"}
  BY <1>1, AnswersTold, FaultNames DEF Refusals, Tellings
<1>3. {"invalid_key", "forbidden", "domain", "host_port"} \cup StorageFaults \subseteq Failures \ {"none"}
  BY FaultNames DEF Failures
<1>4. \/ \E answer : answer \notin {"none", "ok"} /\ Answers(r, answer)
      \/ \E failure \in Failures \ {"none"} : Fails(r, failure)
  BY <1>2, <1>3 DEF TurnAway, WriteRefused, AnswerLocally, CallFails, DelegateFails
<1> QED
  BY <1>1, <1>4, AnsweredEmpty

LEMMA LimiterHonest ==
  ASSUME ServiceTypes, NEW r \in Requests, Accounted(r), Receive(r) \/ Admit(r) \/ Refuse(r)
  PROVE  Accounted(r)'
<1>1. Fresh(r) /\ effects' = effects /\ rows' = rows
  BY DEF Receive, Admit, Refuse, OnLoop, Fresh, Quiet
<1>2. req \in [Requests -> RequestType] /\ req[r] \in RequestType
  BY DEF ServiceTypes
<1>3. effects[r] = 0 /\ rows[r] = NoRows /\ req[r].answer = "none" /\ req[r].failure = "none"
  BY <1>1 DEF Accounted, Fresh
<1>4. CASE Receive(r)
  <2>1. PICK route \in Routes, key \in Keys :
          req' = [req EXCEPT ![r] = [req[r] EXCEPT !.pc = "front", !.route = route, !.key = key]]
    BY <1>4 DEF Receive, Becomes
  <2>2. req'[r].pc = "front" /\ req'[r].answer = "none" /\ req'[r].failure = "none"
    BY <1>2, <1>3, <2>1 DEF RequestType
  <2> QED
    BY <1>1, <1>3, <2>2 DEF Accounted, Fresh, NoRows, Refusals
<1>5. CASE Admit(r)
  <2>1. req' = [req EXCEPT ![r] = [req[r] EXCEPT !.pc = "delegate", !.at = now]]
    BY <1>5 DEF Admit, Becomes
  <2>2. req'[r].pc = "delegate" /\ req'[r].answer = "none" /\ req'[r].failure = "none"
    BY <1>2, <1>3, <2>1 DEF RequestType
  <2> QED
    BY <1>1, <1>3, <2>2 DEF Accounted, Fresh, NoRows, Refusals
<1>6. CASE Refuse(r)
  <2>1. PICK wait :
          req' = [req EXCEPT ![r] = [req[r] EXCEPT !.pc = "failing", !.failure = "limited", !.told = wait]]
    BY <1>6 DEF Refuse, Becomes
  <2>2. req'[r].pc = "failing" /\ req'[r].answer = "none" /\ req'[r].failure = "limited"
    BY <1>2, <1>3, <2>1 DEF RequestType
  <2> QED
    BY <1>1, <1>3, <2>2 DEF Accounted, Fresh, NoRows, Refusals
<1> QED
  BY <1>4, <1>5, <1>6

LEMMA LandsHonest ==
  ASSUME ServiceTypes, NEW r \in Requests, Accounted(r), Lands(r) \/ LandsUnseen(r)
  PROVE  Accounted(r)'
<1>1. Fresh(r) /\ rows' = rows /\ req[r].route \in Routes
  BY DEF Lands, LandsUnseen, OnLoop, Fresh, ServiceTypes
<1>2. effects[r] = 0 /\ rows[r] = NoRows /\ req[r].answer = "none"
  BY <1>1 DEF Accounted, Fresh
<1>3. req \in [Requests -> RequestType] /\ req[r] \in RequestType /\ effects \in [Requests -> Nat]
  BY DEF ServiceTypes
<1>4. CASE Lands(r)
  <2>1. PICK n \in Effects[req[r].route] : effects' = [effects EXCEPT ![r] = @ + n]
    BY <1>4 DEF Lands
  <2>2. effects'[r] = n
    BY <1>1, <1>2, <1>3, <2>1, AnswersTold
  <2>3. req' = [req EXCEPT ![r] = [req[r] EXCEPT !.pc = "audit"]]
    BY <1>4 DEF Lands, Becomes
  <2>4. req'[r].pc = "audit" /\ req'[r].answer = "none" /\ req'[r].route = req[r].route
    BY <1>2, <1>3, <2>3 DEF RequestType
  <2> QED
    BY <1>1, <1>2, <2>1, <2>2, <2>4 DEF Accounted, Fresh, NoRows, Refusals
<1>5. CASE LandsUnseen(r)
  <2>1. PICK failure \in StorageFaults : Fails(r, failure)
    BY <1>5 DEF LandsUnseen
  <2>2. req'[r].pc = "failing" /\ req'[r].failure = failure /\ req'[r].answer = "none"
    BY <1>2, <2>1, NewRecord
  <2> QED
    BY <1>1, <1>2, <2>1, <2>2, FaultNames DEF Accounted, Fresh, NoRows, Refusals
<1> QED
  BY <1>4, <1>5

\* The row of a kind, written or not, and the other beside it.
LEMMA RowBeside ==
  ASSUME ServiceTypes, NEW r \in Requests, NEW landed \in BOOLEAN
  PROVE  /\ Row(r, "audit", landed) =>
              /\ rows'[r].audit = IF landed THEN "ok" ELSE rows[r].audit
              /\ rows'[r].usage = rows[r].usage
         /\ Row(r, "usage", landed) =>
              /\ rows'[r].usage = IF landed THEN "ok" ELSE rows[r].usage
              /\ rows'[r].audit = rows[r].audit
<1>1. rows[r] \in RowType
  BY DEF ServiceTypes
<1>2. ASSUME NEW kind \in {"audit", "usage"}, Row(r, kind, landed)
      PROVE  rows'[r] = IF landed THEN [rows[r] EXCEPT ![kind] = "ok"] ELSE rows[r]
  BY <1>2, RowsTyped
<1>3. CASE Row(r, "audit", landed)
  BY <1>1, <1>2, <1>3 DEF RowType
<1>4. CASE Row(r, "usage", landed)
  BY <1>1, <1>2, <1>4 DEF RowType
<1> QED
  BY <1>3, <1>4

LEMMA RowsHonest ==
  ASSUME ServiceTypes, NEW r \in Requests, Accounted(r), RecordAudit(r) \/ RecordUsage(r)
  PROVE  Accounted(r)'
<1>1. req \in [Requests -> RequestType] /\ req[r] \in RequestType
  BY DEF ServiceTypes
<1>2. req[r].answer = "none" /\ req[r].route \in Routes /\ effects' = effects
      /\ effects[r] \in Effects[req[r].route]
  BY DEF RecordAudit, RecordUsage, OnLoop, Accounted, ServiceTypes
<1>3. FaultAnswers \cap (Refusals \cup {"none", "ok"}) = {}
  BY FaultNames DEF Refusals
<1>4. CASE RecordAudit(r)
  <2>1. rows[r].audit = "none" /\ rows[r].usage = "none"
    BY <1>4 DEF RecordAudit, OnLoop, Accounted, NoRows
  <2>2. CASE Row(r, "audit", TRUE) /\ Becomes(r, [req[r] EXCEPT !.pc = "usage"])
    <3>1. rows'[r].audit = "ok" /\ rows'[r].usage = "none"
      BY <2>1, <2>2, RowBeside
    <3>2. req'[r].pc = "usage" /\ req'[r].answer = "none" /\ req'[r].route = req[r].route
      BY <1>1, <1>2, <2>2 DEF Becomes, RequestType
    <3> QED
      BY <1>2, <3>1, <3>2 DEF Accounted, Fresh, Refusals
  <2>3. ASSUME NEW landed \in BOOLEAN, NEW answer \in FaultAnswers,
               Row(r, "audit", landed), Answers(r, answer)
        PROVE  Accounted(r)'
    <3>1. rows'[r].audit \in {"none", "ok"} /\ rows'[r].usage = "none"
      BY <2>1, <2>3, RowBeside
    <3>2. req'[r].pc = "answered" /\ req'[r].answer = answer /\ req'[r].route = req[r].route
      BY <2>3, NewRecord
    <3> QED
      BY <1>2, <1>3, <2>3, <3>1, <3>2 DEF Accounted, Fresh
  <2> QED
    BY <1>4, <2>2, <2>3 DEF RecordAudit
<1>5. CASE RecordUsage(r)
  <2>1. rows[r].audit = "ok" /\ rows[r].usage = "none"
    BY <1>5 DEF RecordUsage, OnLoop, Accounted
  <2>2. ASSUME NEW answer \in Given[req[r].route], Row(r, "usage", TRUE), Answers(r, answer)
        PROVE  Accounted(r)'
    <3>1. rows'[r].audit = "ok" /\ rows'[r].usage = "ok"
      BY <2>1, <2>2, RowBeside
    <3>2. req'[r].pc = "answered" /\ req'[r].answer = answer /\ req'[r].route = req[r].route
      BY <2>2, NewRecord
    <3>3. answer # "none" /\ (answer \in Refusals => effects[r] = 0 /\ req[r].route # "write")
      BY <1>2, <2>2, AnswersTold DEF Routes, Refusals
    <3> QED
      BY <1>2, <3>1, <3>2, <3>3 DEF Accounted, Fresh
  <2>3. ASSUME NEW landed \in BOOLEAN, NEW answer \in FaultAnswers,
               Row(r, "usage", landed), Answers(r, answer)
        PROVE  Accounted(r)'
    <3>1. rows'[r].usage \in {"none", "ok"} /\ rows'[r].audit = "ok"
      BY <2>1, <2>3, RowBeside
    <3>2. req'[r].pc = "answered" /\ req'[r].answer = answer /\ req'[r].route = req[r].route
      BY <2>3, NewRecord
    <3> QED
      BY <1>2, <1>3, <2>3, <3>1, <3>2 DEF Accounted, Fresh
  <2> QED
    BY <1>5, <2>2, <2>3 DEF RecordUsage
<1> QED
  BY <1>4, <1>5

LEMMA FailureHonest ==
  ASSUME ServiceTypes, NEW r \in Requests, Accounted(r), RecordFailure(r)
  PROVE  Accounted(r)'
<1> DEFINE status == IF req[r].failure = "limited" THEN "rate_limited" ELSE "error"
           told == AnswerOf(req[r].route, req[r].failure)
<1>1. PICK kinds \in {{}, {"audit"}, {"audit", "usage"}} :
        rows' = [rows EXCEPT ![r] = [k \in DOMAIN rows[r] |-> IF k \in kinds THEN status ELSE rows[r][k]]]
  BY DEF RecordFailure
<1>2. /\ req[r].pc = "failing" /\ req[r].failure \in Failures \ {"none"} /\ req[r].route \in Routes
      /\ rows[r] = NoRows /\ effects' = effects
      /\ req[r].failure \notin StorageFaults => effects[r] = 0
  BY DEF RecordFailure, OnLoop, Accounted, ServiceTypes, RequestType
<1>3. rows \in [Requests -> RowType] /\ status # "ok" /\ status # "none"
  BY DEF ServiceTypes
<1> HIDE DEF status
<1>4. /\ rows'[r].audit = IF "audit" \in kinds THEN status ELSE "none"
      /\ rows'[r].usage = IF "usage" \in kinds THEN status ELSE "none"
  BY <1>1, <1>2, <1>3 DEF NoRows
<1>5. told \notin {"none", "ok"} /\ (req[r].failure \in StorageFaults => told \notin Refusals)
  BY <1>2, AnswersTold
<1>6. req'[r].pc = "answered" /\ req'[r].answer = told /\ req'[r].route = req[r].route
  BY NewRecord DEF RecordFailure
<1> HIDE DEF told
<1>7. rows'[r].audit # "ok" /\ (rows'[r].usage # "none" => rows'[r].usage = rows'[r].audit)
  BY <1>1, <1>3, <1>4
<1>8. told \in Refusals => effects'[r] = 0
  BY <1>2, <1>5
<1> QED
  BY <1>5, <1>6, <1>7, <1>8 DEF Accounted, Fresh

LEMMA StepAccounted ==
  ASSUME ServiceTypes, AllAccounted, RequestsNext
  PROVE  AllAccounted'
<1>1. ASSUME NEW r \in Requests, RequestStep(r) PROVE AllAccounted'
  <2>1. Accounted(r)'
    BY <1>1, TurnedAwayHonest, LimiterHonest, LandsHonest, RowsHonest, FailureHonest
       DEF RequestStep, AllAccounted
  <2>2. ASSUME NEW s \in Requests \ {r} PROVE Accounted(s)'
    <3>1. req'[s] = req[s] /\ effects'[s] = effects[s] /\ rows'[s] = rows[s]
      BY <1>1, RequestStepTyped, EffectsTyped DEF AllAccounted
    <3> QED
      BY <3>1, AccountedAlone DEF AllAccounted
  <2> QED
    BY <2>1, <2>2 DEF AllAccounted
<1>2. CASE Crash
  <2>1. ASSUME NEW r \in Requests PROVE Accounted(r)'
    <3>1. Accounted(r)
      BY DEF AllAccounted
    <3>2. /\ effects' = effects /\ rows' = rows
          /\ req'[r].pc = IF req[r].pc \in {"none", "answered"} THEN req[r].pc ELSE "lost"
          /\ req'[r].answer = req[r].answer /\ req'[r].route = req[r].route
          /\ req'[r].failure = req[r].failure
      BY <1>2, CrashTyped
    <3> QED
      BY <3>1, <3>2 DEF Accounted, Fresh
  <2> QED
    BY <2>1 DEF AllAccounted
<1>3. CASE SecondPasses
  BY <1>3 DEF SecondPasses, AllAccounted, Accounted, Fresh
<1> QED
  BY <1>1, <1>2, <1>3 DEF RequestsNext

LEMMA StepTyped ==
  ASSUME ServiceTypes, AllAccounted, RequestsNext
  PROVE  ServiceTypes'
<1>1. ASSUME NEW r \in Requests, RequestStep(r) PROVE ServiceTypes'
  <2>1. /\ req' \in [Requests -> RequestType] /\ now' = now
        /\ \A s \in Requests : req'[s].pc # "none" => req'[s].route \in Routes /\ req'[s].key \in Keys
    BY <1>1, RequestStepTyped DEF AllAccounted
  <2>2. effects' \in [Requests -> Nat] /\ rows' \in [Requests -> RowType]
    BY <1>1, EffectsTyped
  <2>3. CASE Admit(r) \/ Refuse(r)
    BY <2>1, <2>2, <2>3, LimiterTyped DEF ServiceTypes
  <2>4. CASE ~(Admit(r) \/ Refuse(r))
    <3>1. buckets' = buckets /\ nextPrune' = nextPrune
      BY <1>1, <2>4
         DEF RequestStep, Receive, TurnAway, WriteRefused, AnswerLocally, CallFails, Lands,
             DelegateFails,
             LandsUnseen, RecordAudit, RecordUsage, RecordFailure, Quiet
    <3> QED
      BY <2>1, <2>2, <3>1 DEF ServiceTypes
  <2> QED
    BY <2>3, <2>4
<1>2. CASE Crash
  BY <1>2, CrashTyped
<1>3. CASE SecondPasses
  BY <1>3, HostedAssumption DEF SecondPasses, ServiceTypes
<1> QED
  BY <1>1, <1>2, <1>3 DEF RequestsNext

\* A caller is told what became of its request: with success come its effect,
\* once, and both rows, and with a refusal nothing was done
\* (hosted.py _call, hosted_http.py _handle_payload).
THEOREM AnswersAreHonest == RequestsSpec => []AnswerHonest
<1>1. RequestsInit => ServiceTypes /\ AllAccounted
  <2> SUFFICES ASSUME RequestsInit PROVE AllAccounted
    BY RequestsStartTyped
  <2> QED
    BY DEF RequestsInit, AllAccounted, Accounted, Fresh, Unsent, NoRows, Refusals
<1>2. ServiceTypes /\ AllAccounted /\ [RequestsNext]_serviceVars => (ServiceTypes /\ AllAccounted)'
  <2> SUFFICES ASSUME ServiceTypes, AllAccounted, [RequestsNext]_serviceVars
               PROVE  (ServiceTypes /\ AllAccounted)'
    OBVIOUS
  <2>1. CASE RequestsNext
    BY <2>1, StepTyped, StepAccounted
  <2>2. CASE UNCHANGED serviceVars
    BY <2>2 DEF serviceVars, ServiceTypes, AllAccounted, Accounted, Fresh
  <2> QED
    BY <2>1, <2>2
<1>3. AllAccounted => AnswerHonest
  BY DEF AllAccounted, Accounted, AnswerHonest
<1> QED
  BY <1>1, <1>2, <1>3, PTL DEF RequestsSpec

-------------------------------------------------------------------------------
(* What the limiter's table knows *)

LEMMA AdmittedFinite ==
  ASSUME TableKnows, NEW b, NEW t
  PROVE  /\ IsFiniteSet(Admits(b)) /\ IsFiniteSet(Since(b, t))
         /\ IsFiniteSet(Before(b, t)) /\ IsFiniteSet(Recent(b))
         /\ Since(b, t) \subseteq Admits(b) /\ Before(b, t) \subseteq Admits(b)
         /\ Recent(b) \subseteq Admits(b)
<1> DEFINE all == {r \in Requests : req[r].at # Never}
<1>1. IsFiniteSet(all)
  BY DEF TableKnows
<1>2. Admits(b) \subseteq all
  BY DEF Admits
<1>3. /\ Since(b, t) \subseteq Admits(b) /\ Before(b, t) \subseteq Admits(b)
      /\ Recent(b) \subseteq Admits(b)
  BY DEF Since, Before, Recent, Admits
<1> HIDE DEF all
<1>4. /\ Since(b, t) \subseteq all /\ Before(b, t) \subseteq all /\ Recent(b) \subseteq all
  BY <1>2, <1>3
<1> QED
  BY <1>1, <1>2, <1>3, <1>4, FS_Subset

LEMMA AdmittedThen ==
  ASSUME ServiceTypes, NEW b, NEW r \in Admits(b)
  PROVE  r \in Requests /\ req[r].at \in 0 .. MaxTime /\ req[r].at \in Nat
BY HostedAssumption DEF Admits, ServiceTypes, RequestType

\* A window that ran out has the admission that opened it behind it, and so less
\* than the allowance of late.
LEMMA SpentWindowIsPast ==
  ASSUME ServiceTypes, TableKnows, NEW b \in Keys \X Operations,
         b \in DOMAIN buckets => buckets[b].expires <= now
  PROVE  AbsentKnows(b)
<1>1. CASE b \notin DOMAIN buckets
  BY <1>1 DEF TableKnows
<1>2. CASE b \in DOMAIN buckets
  <2>1. PICK t \in 0 .. now :
          /\ buckets[b].expires = t + WindowOf(b)
          /\ Cardinality(Since(b, t)) = buckets[b].count
          /\ buckets[b].count \in 1 .. LimitOf(b)
          /\ \E r \in Since(b, t) : req[r].at = t
          /\ \A r \in Admits(b) : req[r].at < buckets[b].expires
    BY <1>2 DEF TableKnows, BucketKnows
  <2>2. PICK o \in Since(b, t) : req[o].at = t
    BY <2>1
  <2>3. t \in Nat /\ now \in Nat /\ WindowOf(b) \in Nat /\ LimitOf(b) \in Nat
    BY AllowanceTypes, HostedAssumption DEF ServiceTypes
  <2>4. Recent(b) \subseteq Since(b, t) \ {o}
    <3> SUFFICES ASSUME NEW r \in Recent(b) PROVE r \in Since(b, t) \ {o}
      OBVIOUS
    <3>1. r \in Admits(b) /\ now < req[r].at + WindowOf(b)
      BY DEF Recent, Admits
    <3>2. req[r].at \in Nat
      BY <3>1, AdmittedThen
    <3>3. req[r].at > t
      BY <1>2, <2>1, <2>3, <3>1, <3>2
    <3> QED
      BY <2>2, <2>3, <3>1, <3>2, <3>3 DEF Since
  <2>5. Cardinality(Since(b, t) \ {o}) = Cardinality(Since(b, t)) - 1
        /\ IsFiniteSet(Since(b, t) \ {o})
    BY <2>2, AdmittedFinite, FS_RemoveElement
  <2>6. Cardinality(Recent(b)) <= Cardinality(Since(b, t) \ {o})
    BY <2>4, <2>5, FS_Subset
  <2>7. Cardinality(Recent(b)) \in Nat
    BY AdmittedFinite, FS_CardinalityType
  <2>8. Cardinality(Recent(b)) <= LimitOf(b) - 1
    BY <2>1, <2>3, <2>5, <2>6, <2>7
  <2>9. ASSUME NEW r \in Admits(b) PROVE req[r].at < now
    <3>1. req[r].at \in Nat /\ req[r].at < buckets[b].expires /\ buckets[b].expires \in Nat
      BY <1>2, <2>1, AdmittedThen DEF ServiceTypes
    <3> QED
      BY <1>2, <2>3, <3>1
  <2> QED
    BY <2>8, <2>9 DEF AbsentKnows
<1> QED
  BY <1>1, <1>2

\* While it runs, those it counted are all recent, and of the others recent
\* there are less than the allowance.
LEMMA RunningWindow ==
  ASSUME ServiceTypes, TableKnows, NEW b \in DOMAIN buckets, buckets[b].expires > now
  PROVE  /\ buckets[b].count <= Cardinality(Recent(b))
         /\ Cardinality(Recent(b)) <= buckets[b].count + LimitOf(b) - 1
         /\ \E o \in Recent(b) : req[o].at + WindowOf(b) = buckets[b].expires
<1>1. PICK t \in 0 .. now :
        /\ buckets[b].expires = t + WindowOf(b)
        /\ Cardinality(Since(b, t)) = buckets[b].count
        /\ \E r \in Since(b, t) : req[r].at = t
        /\ Cardinality(Before(b, t)) <= LimitOf(b) - 1
  BY DEF TableKnows, BucketKnows
<1>2. /\ b \in Keys \X Operations /\ t \in Nat /\ now \in Nat /\ WindowOf(b) \in Nat
      /\ LimitOf(b) \in Nat /\ buckets[b].count \in Nat
  BY AllowanceTypes, HostedAssumption DEF ServiceTypes
<1>3. Since(b, t) \subseteq Recent(b)
  <2> SUFFICES ASSUME NEW r \in Since(b, t) PROVE r \in Recent(b)
    OBVIOUS
  <2>1. r \in Admits(b) /\ req[r].at >= t
    BY DEF Since
  <2>2. req[r].at \in Nat
    BY <2>1, AdmittedThen
  <2>3. now < req[r].at + WindowOf(b)
    BY <1>1, <1>2, <2>1, <2>2
  <2> QED
    BY <2>1, <2>3 DEF Recent, Admits
<1>4. Recent(b) \subseteq Since(b, t) \cup Before(b, t)
  <2> SUFFICES ASSUME NEW r \in Recent(b) PROVE r \in Since(b, t) \cup Before(b, t)
    OBVIOUS
  <2>1. r \in Admits(b) /\ now < req[r].at + WindowOf(b)
    BY DEF Recent, Admits
  <2>2. req[r].at \in Nat
    BY <2>1, AdmittedThen
  <2>3. req[r].at >= t \/ (req[r].at < t /\ t < req[r].at + WindowOf(b))
    BY <1>1, <1>2, <2>1, <2>2
  <2> QED
    BY <2>1, <2>3 DEF Since, Before
<1>5. IsFiniteSet(Since(b, t)) /\ IsFiniteSet(Before(b, t)) /\ IsFiniteSet(Recent(b))
  BY AdmittedFinite
<1>6. /\ Cardinality(Since(b, t)) \in Nat /\ Cardinality(Before(b, t)) \in Nat
      /\ Cardinality(Recent(b)) \in Nat
  BY <1>5, FS_CardinalityType
<1>7. Cardinality(Since(b, t)) <= Cardinality(Recent(b))
  BY <1>3, <1>5, FS_Subset
<1>8. /\ IsFiniteSet(Since(b, t) \cup Before(b, t))
      /\ Cardinality(Since(b, t) \cup Before(b, t)) <= Cardinality(Since(b, t)) + Cardinality(Before(b, t))
      /\ Cardinality(Since(b, t) \cup Before(b, t)) \in Nat
  <2>1. IsFiniteSet(Since(b, t) \cap Before(b, t))
    BY <1>5, FS_Intersection
  <2>2. Cardinality(Since(b, t) \cap Before(b, t)) \in Nat
    BY <2>1, FS_CardinalityType
  <2>3. /\ IsFiniteSet(Since(b, t) \cup Before(b, t))
        /\ Cardinality(Since(b, t) \cup Before(b, t))
             = Cardinality(Since(b, t)) + Cardinality(Before(b, t)) - Cardinality(Since(b, t) \cap Before(b, t))
    BY <1>5, FS_Union
  <2>4. Cardinality(Since(b, t) \cup Before(b, t)) \in Nat
    BY <2>3, FS_CardinalityType
  <2> QED
    BY <1>6, <2>2, <2>3, <2>4
<1>9. Cardinality(Recent(b)) <= Cardinality(Since(b, t) \cup Before(b, t))
  BY <1>4, <1>8, FS_Subset
<1>10. Cardinality(Recent(b)) <= buckets[b].count + LimitOf(b) - 1
  BY <1>1, <1>2, <1>6, <1>8, <1>9
<1>11. \E o \in Recent(b) : req[o].at + WindowOf(b) = buckets[b].expires
  BY <1>1, <1>3
<1> QED
  BY <1>1, <1>7, <1>10, <1>11

\* Steps that leave the limiter alone admit nobody: time may pass meanwhile.
LEMMA LimiterUntouched ==
  ASSUME ServiceTypes, ServiceTypes', TableKnows,
         buckets' = buckets, nextPrune' = nextPrune, now' \in {now, now + 1},
         \A r \in Requests :
           /\ req'[r].at = req[r].at
           /\ req[r].at # Never => req'[r].route = req[r].route /\ req'[r].key = req[r].key
           /\ req'[r].pc \in {"none", "front"} => req[r].pc \in {"none", "front"}
  PROVE  TableKnows'
<1>0. now \in Nat /\ now' \in Nat /\ now <= now'
  BY HostedAssumption DEF ServiceTypes
<1>1. ASSUME NEW b PROVE Admits(b)' = Admits(b)
  BY DEF Admits, Bucket
<1>2. ASSUME NEW b, NEW t
      PROVE  Since(b, t)' = Since(b, t) /\ Before(b, t)' = Before(b, t)
  <2>1. Admits(b) \subseteq Requests /\ WindowOf(b)' = WindowOf(b)
    BY DEF Admits, WindowOf
  <2> QED
    BY <1>1, <2>1 DEF Since, Before
<1>3. ASSUME NEW b \in Keys \X Operations
      PROVE  IsFiniteSet(Recent(b)) /\ Recent(b)' \subseteq Recent(b)
  <2>1. WindowOf(b) \in Nat /\ WindowOf(b)' = WindowOf(b)
    BY AllowanceTypes DEF WindowOf
  <2>2. ASSUME NEW r \in Recent(b)' PROVE r \in Recent(b)
    <3>1. r \in Admits(b)' /\ now' < req'[r].at + WindowOf(b)
      BY <2>1, <2>2 DEF Recent, Admits
    <3>2. r \in Admits(b)
      BY <3>1, <1>1
    <3>3. req[r].at \in Nat /\ req'[r].at = req[r].at
      BY <3>2, AdmittedThen
    <3>4. now < req[r].at + WindowOf(b)
      BY <1>0, <2>1, <3>1, <3>3
    <3> QED
      BY <3>2, <3>4 DEF Recent, Admits
  <2> QED
    BY <2>2, AdmittedFinite
<1>4. ASSUME NEW b \in DOMAIN buckets PROVE BucketKnows(b)'
  <2>1. PICK t \in 0 .. now :
          /\ buckets[b].expires = t + WindowOf(b)
          /\ Cardinality(Since(b, t)) = buckets[b].count
          /\ buckets[b].count \in 1 .. LimitOf(b)
          /\ \E r \in Since(b, t) : req[r].at = t
          /\ Cardinality(Before(b, t)) <= LimitOf(b) - 1
          /\ \A r \in Admits(b) : req[r].at < buckets[b].expires
          /\ nextPrune <= buckets[b].expires
    BY DEF TableKnows, BucketKnows
  <2>2. t \in 0 .. now'
    BY <1>0
  <2>3. Since(b, t)' = Since(b, t) /\ Before(b, t)' = Before(b, t) /\ Admits(b)' = Admits(b)
    BY <1>1, <1>2
  <2>4. Admits(b) \subseteq Requests /\ Since(b, t) \subseteq Requests
    BY DEF Admits, Since
  <2>5. WindowOf(b)' = WindowOf(b) /\ LimitOf(b)' = LimitOf(b)
    BY DEF WindowOf, LimitOf
  <2> QED
    BY <2>1, <2>2, <2>3, <2>4, <2>5 DEF BucketKnows
<1>5. ASSUME NEW b \in (Keys \X Operations) \ DOMAIN buckets PROVE AbsentKnows(b)'
  <2>1. Cardinality(Recent(b)) <= LimitOf(b) - 1 /\ \A r \in Admits(b) : req[r].at < now
    BY DEF TableKnows, AbsentKnows
  <2>2. Cardinality(Recent(b)') <= Cardinality(Recent(b)) /\ IsFiniteSet(Recent(b)')
    BY <1>3, FS_Subset
  <2>3. Cardinality(Recent(b)') \in Nat /\ Cardinality(Recent(b)) \in Nat
    BY <1>3, <2>2, FS_CardinalityType
  <2>4. LimitOf(b) \in Nat /\ LimitOf(b)' = LimitOf(b)
    BY AllowanceTypes DEF LimitOf
  <2>5. ASSUME NEW r \in Admits(b)' PROVE req'[r].at < now'
    <3>1. r \in Admits(b)
      BY <1>1
    <3> QED
      BY <3>1, <2>1, <1>0, AdmittedThen
  <2> QED
    BY <2>1, <2>2, <2>3, <2>4, <2>5 DEF AbsentKnows
<1>6. {r \in Requests : req'[r].at # Never} = {r \in Requests : req[r].at # Never}
  OBVIOUS
<1>7. \A r \in Requests : req'[r].pc \in {"none", "front"} => req'[r].at = Never
  BY DEF TableKnows
<1> QED
  BY <1>4, <1>5, <1>6, <1>7 DEF TableKnows

\* The buckets an asking leaves as they are: those that live, and those that are
\* gone.
LEMMA OtherBuckets ==
  ASSUME ServiceTypes, ServiceTypes', TableKnows, now' = now,
         NEW b \in Keys \X Operations,
         b \in DOMAIN buckets' <=> b \in DOMAIN Table,
         b \in DOMAIN Table => buckets'[b] = Table[b] /\ nextPrune' <= Table[b].expires,
         Admits(b)' = Admits(b),
         \A r \in Admits(b) : req'[r].at = req[r].at
  PROVE  IF b \in DOMAIN buckets' THEN BucketKnows(b)' ELSE AbsentKnows(b)'
<1>1. \A t : /\ Since(b, t)' = Since(b, t) /\ Before(b, t)' = Before(b, t)
             /\ Since(b, t) \subseteq Admits(b)
  <2>1. WindowOf(b)' = WindowOf(b)
    BY DEF WindowOf
  <2> QED
    BY <2>1 DEF Since, Before
<1>2. Recent(b)' = Recent(b)
  <2>1. WindowOf(b)' = WindowOf(b)
    BY DEF WindowOf
  <2>2. Recent(b) = {r \in Admits(b) : now < req[r].at + WindowOf(b)}
    BY DEF Recent, Admits
  <2>3. Recent(b)' = {r \in Admits(b)' : now' < req'[r].at + WindowOf(b)'}
    BY DEF Recent, Admits
  <2> QED
    BY <2>1, <2>2, <2>3
<1>3. CASE b \in DOMAIN Table
  <2>1. b \in DOMAIN buckets /\ buckets'[b] = buckets[b] /\ nextPrune' <= buckets[b].expires
    BY <1>3, TableHolds
  <2>2. PICK t \in 0 .. now :
          /\ buckets[b].expires = t + WindowOf(b)
          /\ Cardinality(Since(b, t)) = buckets[b].count
          /\ buckets[b].count \in 1 .. LimitOf(b)
          /\ \E r \in Since(b, t) : req[r].at = t
          /\ Cardinality(Before(b, t)) <= LimitOf(b) - 1
          /\ \A r \in Admits(b) : req[r].at < buckets[b].expires
    BY <2>1 DEF TableKnows, BucketKnows
  <2>3. WindowOf(b)' = WindowOf(b) /\ LimitOf(b)' = LimitOf(b)
    BY DEF WindowOf, LimitOf
  <2>4. BucketKnows(b)'
    BY <1>1, <2>1, <2>2, <2>3 DEF BucketKnows
  <2> QED
    BY <1>3, <2>4
<1>4. CASE b \notin DOMAIN Table
  <2>1. b \in DOMAIN buckets => buckets[b].expires <= now
    BY <1>4, TableHolds
  <2>2. AbsentKnows(b)
    BY <2>1, SpentWindowIsPast
  <2>3. LimitOf(b)' = LimitOf(b)
    BY DEF LimitOf
  <2> QED
    BY <1>2, <1>4, <2>2, <2>3 DEF AbsentKnows
<1> QED
  BY <1>3, <1>4

LEMMA RefuseKnows ==
  ASSUME ServiceTypes, ServiceTypes', TableKnows, NEW r \in Requests, Refuse(r)
  PROVE  TableKnows'
<1>1. /\ buckets' = Table /\ nextPrune' = TableDue /\ now' = now /\ req[r].pc = "front"
      /\ req' = [req EXCEPT ![r] = [req[r] EXCEPT !.pc = "failing", !.failure = "limited",
                                                  !.told = RetryAfter(Bucket(r))]]
  BY DEF Refuse, OnLoop, Becomes
<1>2. req \in [Requests -> RequestType] /\ req[r] \in RequestType
  BY DEF ServiceTypes
<1>3. /\ req'[r].pc = "failing" /\ req'[r].at = req[r].at
      /\ req'[r].route = req[r].route /\ req'[r].key = req[r].key
      /\ \A s \in Requests \ {r} : req'[s] = req[s]
  BY <1>1, <1>2 DEF RequestType
<1>4. \A s \in Requests : req'[s].at = req[s].at /\ req'[s].route = req[s].route /\ req'[s].key = req[s].key
  BY <1>3
<1>5. ASSUME NEW b PROVE Admits(b)' = Admits(b) /\ Admits(b) \subseteq Requests
  BY <1>4 DEF Admits, Bucket
<1>6. \A b \in DOMAIN Table : nextPrune' <= Table[b].expires
  BY <1>1, DueInTime DEF TableKnows, BucketKnows
<1>7. ASSUME NEW b \in Keys \X Operations
      PROVE  IF b \in DOMAIN buckets' THEN BucketKnows(b)' ELSE AbsentKnows(b)'
  BY <1>1, <1>4, <1>5, <1>6, OtherBuckets
<1>8. DOMAIN buckets' \subseteq Keys \X Operations
  BY DEF ServiceTypes
<1>9. {s \in Requests : req'[s].at # Never} = {s \in Requests : req[s].at # Never}
  BY <1>4
<1>10. \A s \in Requests : req'[s].pc \in {"none", "front"} => req'[s].at = Never
  BY <1>3 DEF TableKnows
<1> QED
  BY <1>7, <1>8, <1>9, <1>10 DEF TableKnows

LEMMA AdmitKnows ==
  ASSUME ServiceTypes, ServiceTypes', TableKnows, NEW r \in Requests, Admit(r)
  PROVE  TableKnows'
<1>0. PICK b : b = Bucket(r)
  OBVIOUS
<1>1. /\ buckets' = [c \in DOMAIN Table \cup {b} |-> IF c = b THEN Counted(b) ELSE Table[c]]
      /\ nextPrune' = Await(b) /\ now' = now /\ req[r].pc = "front"
      /\ ~IsSpent(b)
      /\ req' = [req EXCEPT ![r] = [req[r] EXCEPT !.pc = "delegate", !.at = now]]
  BY <1>0 DEF Admit, OnLoop, Becomes
<1>2. req \in [Requests -> RequestType] /\ req[r] \in RequestType
  BY DEF ServiceTypes
<1>3. /\ req'[r].pc = "delegate" /\ req'[r].at = now
      /\ req'[r].route = req[r].route /\ req'[r].key = req[r].key
      /\ \A s \in Requests \ {r} : req'[s] = req[s]
  BY <1>1, <1>2 DEF RequestType
<1>4. req[r].at = Never /\ now # Never /\ now \in Nat
  BY <1>1, NeverComes, HostedAssumption DEF TableKnows, ServiceTypes
<1>5. /\ b \in Keys \X Operations /\ WindowOf(b) \in Nat \ {0} /\ LimitOf(b) \in Nat \ {0}
      /\ WindowOf(b)' = WindowOf(b) /\ LimitOf(b)' = LimitOf(b)
      /\ Bucket(r)' = b
  <2>1. b \in Keys \X Operations
    BY <1>0, <1>1, AllowanceTypes DEF ServiceTypes
  <2>2. Bucket(r)' = b
    BY <1>0, <1>3 DEF Bucket
  <2>3. Limit' = Limit /\ Window' = Window
    OBVIOUS
  <2>4. \A c : WindowOf(c)' = WindowOf(c) /\ LimitOf(c)' = LimitOf(c)
    BY DEF WindowOf, LimitOf
  <2> QED
    BY <2>1, <2>2, <2>4, AllowanceTypes
<1>6. ASSUME NEW c, c # b PROVE Admits(c)' = Admits(c) /\ \A s \in Admits(c) : req'[s].at = req[s].at
  BY <1>0, <1>3, <1>4, <1>6 DEF Admits, Bucket
<1>7. /\ Admits(b)' = Admits(b) \cup {r} /\ r \notin Admits(b)
      /\ \A s \in Admits(b) : s \in Requests /\ req'[s].at = req[s].at
  <2>1. \A s \in Requests \ {r} : Bucket(s)' = Bucket(s) /\ req'[s] = req[s]
    BY <1>3 DEF Bucket
  <2>2. r \notin Admits(b) /\ r \in Admits(b)'
    BY <1>3, <1>4, <1>5 DEF Admits
  <2>3. \A s \in Requests \ {r} : s \in Admits(b)' <=> s \in Admits(b)
    BY <2>1 DEF Admits
  <2>4. Admits(b) \subseteq Requests /\ Admits(b)' \subseteq Requests
    BY DEF Admits
  <2> QED
    BY <2>1, <2>2, <2>3, <2>4
<1>8. TableDue \in Nat /\ \A c \in DOMAIN Table : TableDue <= Table[c].expires
  BY DueInTime DEF TableKnows, BucketKnows
<1>9. DOMAIN Table \subseteq Keys \X Operations
      /\ Table \in [DOMAIN Table -> [count : Nat, expires : Nat]]
  BY TableHolds DEF ServiceTypes
<1>10. ASSUME OpensWindow(b) PROVE BucketKnows(b)' /\ nextPrune' <= TableDue
  <2>0. PICK t : t = now
    OBVIOUS
  <2>1. /\ buckets'[b].count = 1 /\ buckets'[b].expires = t + WindowOf(b)
        /\ nextPrune' = Min({TableDue, now + WindowOf(b)})
    BY <1>1, <1>10, <2>0 DEF Counted, Await
  <2>2. nextPrune' <= TableDue /\ nextPrune' <= now + WindowOf(b) /\ nextPrune' \in Nat
    <3>1. {TableDue, now + WindowOf(b)} \in SUBSET Nat /\ {TableDue, now + WindowOf(b)} # {}
      BY <1>4, <1>5, <1>8
    <3> QED
      BY <2>1, <3>1, LeastOfNaturals
  <2>3. AbsentKnows(b)
    <3>1. b \in DOMAIN buckets => buckets[b].expires <= now
      BY <1>10, TableHolds DEF OpensWindow
    <3> QED
      BY <3>1, <1>5, SpentWindowIsPast
  <2>4. \A s \in Admits(b) : req'[s].at \in Nat /\ req'[s].at < t
    BY <1>7, <2>0, <2>3, AdmittedThen DEF AbsentKnows
  <2>5. Since(b, t)' = {r}
    <3>1. Since(b, t)' = {s \in Admits(b)' : req'[s].at >= t}
      BY DEF Since
    <3> QED
      BY <1>3, <1>4, <1>7, <2>0, <2>4, <3>1
  <2>6. Before(b, t)' = Recent(b)
    <3>1. Before(b, t)' = {s \in Admits(b)' : req'[s].at < t /\ t < req'[s].at + WindowOf(b)}
      BY <1>5 DEF Before
    <3>2. Recent(b) = {s \in Admits(b) : t < req[s].at + WindowOf(b)}
      BY <2>0 DEF Recent, Admits
    <3>3. ~(req'[r].at < t)
      BY <1>3, <1>4, <2>0
    <3>4. \A s \in Admits(b) : s \in Recent(b) <=> t < req'[s].at + WindowOf(b)
      BY <1>7, <3>2
    <3>5. \A s \in Admits(b)' : s \in Before(b, t)' <=> s # r /\ t < req'[s].at + WindowOf(b)
      BY <1>7, <2>4, <3>1, <3>3
    <3>6. Before(b, t)' \subseteq Admits(b)' /\ Recent(b) \subseteq Admits(b)
      BY <3>1, <3>2
    <3> QED
      BY <1>7, <3>4, <3>5, <3>6
  <2>7. Cardinality(Since(b, t)') = 1
    BY <2>5, FS_Singleton
  <2>8. \A s \in Admits(b)' : req'[s].at < t + WindowOf(b)
    BY <1>3, <1>4, <1>5, <1>7, <2>0, <2>4
  <2>9. /\ t \in 0 .. now'
        /\ \E s \in Since(b, t)' : req'[s].at = t
        /\ 1 \in 1 .. LimitOf(b)'
        /\ Cardinality(Before(b, t)') <= LimitOf(b)' - 1
    BY <1>1, <1>3, <1>4, <1>5, <2>0, <2>3, <2>5, <2>6 DEF AbsentKnows
  <2>10. BucketKnows(b)'
    BY <1>5, <2>0, <2>1, <2>2, <2>7, <2>8, <2>9 DEF BucketKnows
  <2> QED
    BY <2>2, <2>10
<1>11. ASSUME ~OpensWindow(b) PROVE BucketKnows(b)' /\ nextPrune' <= TableDue
  <2>1. b \in DOMAIN Table /\ b \in DOMAIN buckets /\ Table[b] = buckets[b] /\ buckets[b].expires > now
    BY <1>11, TableHolds DEF OpensWindow, ServiceTypes
  <2>2. buckets[b] \in [count : Nat, expires : Nat]
    BY <2>1 DEF ServiceTypes
  <2>3. /\ buckets'[b].count = buckets[b].count + 1 /\ buckets'[b].expires = buckets[b].expires
        /\ nextPrune' = TableDue
    BY <1>1, <1>11, <2>1, <2>2 DEF Counted, Await
  <2>4. buckets[b].count < LimitOf(b)
    BY <1>1, <1>5, <2>1, <2>2 DEF IsSpent
  <2>5. PICK t \in 0 .. now :
          /\ buckets[b].expires = t + WindowOf(b)
          /\ Cardinality(Since(b, t)) = buckets[b].count
          /\ buckets[b].count \in 1 .. LimitOf(b)
          /\ \E s \in Since(b, t) : req[s].at = t
          /\ Cardinality(Before(b, t)) <= LimitOf(b) - 1
          /\ \A s \in Admits(b) : req[s].at < buckets[b].expires
    BY <2>1 DEF TableKnows, BucketKnows
  <2>6. Since(b, t)' = Since(b, t) \cup {r} /\ r \notin Since(b, t)
    <3>1. Since(b, t)' = {s \in Admits(b)' : req'[s].at >= t}
      BY DEF Since
    <3> QED
      BY <1>3, <1>4, <1>7, <2>5, <3>1 DEF Since
  <2>7. Before(b, t)' = Before(b, t)
    <3>1. Before(b, t)' = {s \in Admits(b)' : req'[s].at < t /\ t < req'[s].at + WindowOf(b)}
      BY <1>5 DEF Before
    <3>2. ~(req'[r].at < t)
      BY <1>3, <1>4, <2>5
    <3> QED
      BY <1>7, <3>1, <3>2 DEF Before
  <2>8. Cardinality(Since(b, t)') = buckets[b].count + 1
    BY <2>5, <2>6, AdmittedFinite, FS_AddElement
  <2>9. \A s \in Admits(b)' : req'[s].at < buckets[b].expires
    BY <1>3, <1>7, <2>1, <2>5
  <2>10. /\ t \in 0 .. now'
         /\ \E s \in Since(b, t)' : req'[s].at = t
         /\ buckets[b].count + 1 \in 1 .. LimitOf(b)'
         /\ Cardinality(Before(b, t)') <= LimitOf(b)' - 1
    BY <1>1, <1>5, <1>7, <2>2, <2>4, <2>5, <2>6, <2>7 DEF Since
  <2>11. nextPrune' <= buckets[b].expires
    BY <1>8, <2>1, <2>3
  <2>12. BucketKnows(b)'
    BY <1>5, <2>3, <2>5, <2>8, <2>9, <2>10, <2>11 DEF BucketKnows
  <2> QED
    BY <1>8, <2>3, <2>12
<1>12. ASSUME NEW c \in Keys \X Operations, c # b
       PROVE  IF c \in DOMAIN buckets' THEN BucketKnows(c)' ELSE AbsentKnows(c)'
  <2>1. (c \in DOMAIN buckets' <=> c \in DOMAIN Table)
        /\ (c \in DOMAIN Table => buckets'[c] = Table[c])
    BY <1>1, <1>12
  <2>2. c \in DOMAIN Table => nextPrune' <= Table[c].expires
    <3>1. nextPrune' \in Nat
      BY DEF ServiceTypes
    <3> QED
      BY <1>8, <1>9, <1>10, <1>11, <3>1
  <2> QED
    BY <1>1, <1>6, <1>12, <2>1, <2>2, OtherBuckets
<1>13. b \in DOMAIN buckets' /\ DOMAIN buckets' \subseteq Keys \X Operations
  BY <1>1 DEF ServiceTypes
<1>14. IsFiniteSet({s \in Requests : req'[s].at # Never})
  <2>1. IsFiniteSet({s \in Requests : req[s].at # Never} \cup {r})
    BY FS_AddElement DEF TableKnows
  <2>2. {s \in Requests : req'[s].at # Never} \subseteq {s \in Requests : req[s].at # Never} \cup {r}
    BY <1>3
  <2> QED
    BY <2>1, <2>2, FS_Subset
<1>15. \A s \in Requests : req'[s].pc \in {"none", "front"} => req'[s].at = Never
  BY <1>3 DEF TableKnows
<1> QED
  BY <1>10, <1>11, <1>12, <1>13, <1>14, <1>15 DEF TableKnows

LEMMA StepKnows ==
  ASSUME ServiceTypes, ServiceTypes', AllAccounted, TableKnows, RequestsNext
  PROVE  TableKnows'
<1>1. ASSUME NEW r \in Requests, RequestStep(r), ~Admit(r), ~Refuse(r) PROVE TableKnows'
  <2>1. buckets' = buckets /\ nextPrune' = nextPrune /\ now' = now
    BY <1>1
       DEF RequestStep, Receive, TurnAway, WriteRefused, AnswerLocally, CallFails, Lands,
           DelegateFails,
           LandsUnseen, RecordAudit, RecordUsage, RecordFailure, Quiet
  <2>2. req \in [Requests -> RequestType] /\ req[r] \in RequestType
    BY DEF ServiceTypes
  <2>3. \A s \in Requests \ {r} : req'[s] = req[s]
    BY <1>1, RequestStepTyped DEF AllAccounted
  <2>4. ASSUME NEW answer, Answers(r, answer)
        PROVE  /\ req'[r].at = req[r].at /\ req'[r].route = req[r].route /\ req'[r].key = req[r].key
               /\ req'[r].pc \notin {"none", "front"}
    <3>1. req'[r] = [req[r] EXCEPT !.pc = "answered", !.answer = answer]
      BY <2>2, <2>4 DEF Answers, Becomes
    <3> QED
      BY <2>2, <3>1 DEF RequestType
  <2>5. ASSUME NEW failure, Fails(r, failure)
        PROVE  /\ req'[r].at = req[r].at /\ req'[r].route = req[r].route /\ req'[r].key = req[r].key
               /\ req'[r].pc \notin {"none", "front"}
    <3>1. req'[r] = [req[r] EXCEPT !.pc = "failing", !.failure = failure]
      BY <2>2, <2>5 DEF Fails, Becomes
    <3> QED
      BY <2>2, <3>1 DEF RequestType
  <2>6. ASSUME NEW pc \in {"audit", "usage"}, Becomes(r, [req[r] EXCEPT !.pc = pc])
        PROVE  /\ req'[r].at = req[r].at /\ req'[r].route = req[r].route /\ req'[r].key = req[r].key
               /\ req'[r].pc \notin {"none", "front"}
    <3>1. req'[r] = [req[r] EXCEPT !.pc = pc]
      BY <2>2, <2>6 DEF Becomes
    <3> QED
      BY <2>2, <3>1 DEF RequestType
  <2>7. ASSUME Receive(r)
        PROVE  /\ req'[r].at = req[r].at /\ req[r].at = Never
               /\ req[r].pc \in {"none", "front"}
    <3>1. PICK route \in Routes, key \in Keys :
            req' = [req EXCEPT ![r] = [req[r] EXCEPT !.pc = "front", !.route = route, !.key = key]]
      BY <2>7 DEF Receive, Becomes
    <3>2. req[r].pc = "none"
      BY <2>7 DEF Receive, OnLoop
    <3> QED
      BY <2>2, <3>1, <3>2 DEF RequestType, TableKnows
  <2>8. CASE Receive(r)
    BY <2>1, <2>3, <2>7, <2>8, LimiterUntouched
  <2>9. CASE ~Receive(r)
    <3>1. /\ req'[r].at = req[r].at /\ req'[r].route = req[r].route /\ req'[r].key = req[r].key
          /\ req'[r].pc \notin {"none", "front"}
      BY <1>1, <2>4, <2>5, <2>6, <2>9
         DEF RequestStep, TurnAway, WriteRefused, AnswerLocally, CallFails, Lands,
             DelegateFails,
             LandsUnseen, RecordAudit, RecordUsage, RecordFailure
    <3> QED
      BY <2>1, <2>3, <3>1, LimiterUntouched
  <2> QED
    BY <2>8, <2>9
<1>2. CASE Crash
  <2>1. \A s \in Requests : req'[s].at = Never
    BY <1>2, CrashTyped
  <2>2. {s \in Requests : req'[s].at # Never} = {} /\ IsFiniteSet({})
    BY <2>1, FS_EmptySet
  <2>3. DOMAIN buckets' = {}
    BY <1>2 DEF Crash
  <2>4. ASSUME NEW b \in Keys \X Operations PROVE AbsentKnows(b)'
    <3>1. Recent(b)' = {} /\ Admits(b)' = {}
      BY <2>1 DEF Recent, Admits
    <3>2. LimitOf(b) \in Nat \ {0} /\ LimitOf(b)' = LimitOf(b)
      BY AllowanceTypes DEF LimitOf
    <3>3. Cardinality(Recent(b)') = 0
      BY <3>1, FS_EmptySet
    <3>4. Cardinality(Recent(b)') <= LimitOf(b) - 1
      BY <3>2, <3>3
    <3> QED
      BY <3>1, <3>2, <3>4 DEF AbsentKnows
  <2> QED
    BY <2>1, <2>2, <2>3, <2>4 DEF TableKnows
<1>3. CASE SecondPasses
  BY <1>3, LimiterUntouched DEF SecondPasses
<1> QED
  BY <1>1, <1>2, <1>3, AdmitKnows, RefuseKnows DEF RequestsNext

LEMMA TableStartsKnown ==
  ASSUME RequestsInit
  PROVE  TableKnows
<1>1. \A s \in Requests : req[s].at = Never
  BY DEF RequestsInit, Unsent
<1>2. {s \in Requests : req[s].at # Never} = {} /\ IsFiniteSet({})
  BY <1>1, FS_EmptySet
<1>3. DOMAIN buckets = {}
  BY DEF RequestsInit
<1>4. ASSUME NEW b \in Keys \X Operations PROVE AbsentKnows(b)
  <2>1. Recent(b) = {} /\ Admits(b) = {}
    BY <1>1 DEF Recent, Admits
  <2>2. Cardinality(Recent(b)) = 0 /\ LimitOf(b) \in Nat \ {0}
    BY <2>1, FS_EmptySet, AllowanceTypes
  <2>3. Cardinality(Recent(b)) <= LimitOf(b) - 1
    BY <2>2
  <2> QED
    BY <2>1, <2>3 DEF AbsentKnows
<1> QED
  BY <1>1, <1>2, <1>3, <1>4 DEF TableKnows

-------------------------------------------------------------------------------
(* Who is turned away, and who is let in *)

\* At the step that refuses one, the window it waits for is there to be named.
LEMMA RefusalIsFair ==
  ASSUME ServiceTypes, TableKnows, NEW r \in Requests, Refuse(r)
  PROVE  FairTo(r)
<1>0. PICK b : b = Bucket(r)
  OBVIOUS
<1> DEFINE spent == Cardinality(Recent(b)) >= LimitOf(b)
           full == {c \in Keys \X Operations : c # b /\ Recent(c) # {}}
           asked == UNION {Recent(c) : c \in IF spent THEN {b} ELSE full}
           wait == RetryAfter(b)
<1>1. req[r].pc = "front" /\ (IsFull(b) \/ IsSpent(b)) /\ b \in Keys \X Operations
  BY <1>0, AllowanceTypes DEF Refuse, OnLoop, ServiceTypes
<1>2. req'[r].pc = "failing" /\ req'[r].told = wait
  <2>1. req \in [Requests -> RequestType] /\ req[r] \in RequestType
    BY DEF ServiceTypes
  <2>2. req'[r] = [req[r] EXCEPT !.pc = "failing", !.failure = "limited", !.told = wait]
    BY <1>0, <2>1 DEF Refuse, Becomes
  <2> QED
    BY <2>1, <2>2 DEF RequestType
<1>3. LimitOf(b) \in Nat \ {0} /\ now \in Nat
  BY <1>1, AllowanceTypes, HostedAssumption DEF ServiceTypes
<1>4. IsFiniteSet(Recent(b)) /\ Cardinality(Recent(b)) \in Nat
  BY AdmittedFinite, FS_CardinalityType
<1>5. CASE IsSpent(b)
  <2>1. b \in DOMAIN buckets /\ buckets[b].expires > now /\ buckets[b].count >= LimitOf(b)
        /\ wait = buckets[b].expires - now + 1 /\ buckets[b].count \in Nat
    <3>1. b \in DOMAIN Table /\ Table[b].expires > now /\ Table[b].count >= LimitOf(b)
      BY <1>5 DEF IsSpent
    <3>2. Table[b] = buckets[b] /\ b \in DOMAIN buckets
      BY <3>1, TableHolds
    <3>3. wait = Table[b].expires - now + 1
      BY <1>1, <1>5, WaitTold
    <3> QED
      BY <3>1, <3>2, <3>3 DEF ServiceTypes
  <2>2. buckets[b].count <= Cardinality(Recent(b))
    BY <2>1, RunningWindow
  <2>3. PICK o \in Recent(b) : req[o].at + WindowOf(b) = buckets[b].expires
    BY <2>1, RunningWindow
  <2>4. spent
    BY <1>3, <1>4, <2>1, <2>2
  <2>5. o \in asked
    BY <2>3, <2>4
  <2>6. wait = req[o].at + WindowOf(Bucket(o)) - now + 1
    <3>1. Bucket(o) = b
      BY <2>3 DEF Recent
    <3>2. req[o].at \in Nat /\ WindowOf(Bucket(o)) \in Nat
      BY <1>1, <3>1, AdmittedFinite, AdmittedThen, AllowanceTypes
    <3> QED
      BY <1>3, <2>1, <2>3, <3>1, <3>2
  <2> QED
    BY <1>0, <1>2, <2>4, <2>5, <2>6 DEF FairTo, Admitted
<1>6. CASE ~IsSpent(b)
  <2>1. b \notin DOMAIN Table /\ Cardinality(DOMAIN Table) >= MaxBuckets
    BY <1>1, <1>6 DEF IsFull
  <2>2. ~spent
    <3>1. b \in DOMAIN buckets => buckets[b].expires <= now
      BY <2>1, TableHolds
    <3>2. Cardinality(Recent(b)) <= LimitOf(b) - 1
      BY <1>1, <3>1, SpentWindowIsPast DEF AbsentKnows
    <3> QED
      BY <1>3, <1>4, <3>2
  <2>3. \A c \in DOMAIN Table : Table[c].expires > now /\ Table[c] = buckets[c] /\ c \in DOMAIN buckets
    <3>1. CASE Due
      BY <3>1, TableHolds
    <3>2. CASE ~Due
      <4>1. now < nextPrune /\ nextPrune \in Nat
        BY <1>3, <3>2 DEF Due, ServiceTypes
      <4>2. Table = buckets
        BY <3>2, TableHolds
      <4>3. \A c \in DOMAIN buckets : nextPrune <= buckets[c].expires /\ buckets[c].expires \in Nat
        BY DEF TableKnows, BucketKnows, ServiceTypes
      <4> QED
        BY <1>3, <4>1, <4>2, <4>3
    <3> QED
      BY <3>1, <3>2
  <2>4. ASSUME NEW c \in DOMAIN Table
        PROVE  /\ c \in full
               /\ \E o \in Recent(c) : req[o].at + WindowOf(c) = Table[c].expires
    <3>1. \E o \in Recent(c) : req[o].at + WindowOf(c) = buckets[c].expires
      BY <2>3, RunningWindow
    <3>2. c \in Keys \X Operations /\ c # b
      BY <2>1, <2>3 DEF ServiceTypes
    <3> QED
      BY <2>3, <3>1, <3>2
  <2>5. IsFiniteSet(full)
    <3> DEFINE all == {q \in Requests : req[q].at # Never}
    <3>1. IsFiniteSet(all)
      BY DEF TableKnows
    <3> DEFINE asks == {Bucket(q) : q \in all}
    <3>2. [q \in all |-> Bucket(q)] \in Surjection(all, asks)
      BY DEF Surjection
    <3>3. IsFiniteSet(asks)
      BY <3>1, <3>2, FS_Surjection
    <3>4. full \subseteq asks
      <4> SUFFICES ASSUME NEW c \in full PROVE c \in asks
        OBVIOUS
      <4>1. PICK q \in Recent(c) : TRUE
        OBVIOUS
      <4>2. q \in all /\ Bucket(q) = c
        BY <4>1 DEF Recent
      <4> QED
        BY <4>2
    <3> QED
      BY <3>3, <3>4, FS_Subset
  <2>6. Cardinality(full) >= MaxBuckets
    <3>1. DOMAIN Table \subseteq full
      BY <2>4
    <3>2. Cardinality(DOMAIN Table) <= Cardinality(full) /\ IsFiniteSet(DOMAIN Table)
      BY <2>5, <3>1, FS_Subset
    <3>3. Cardinality(full) \in Nat /\ Cardinality(DOMAIN Table) \in Nat /\ MaxBuckets \in Nat
      BY <2>5, <3>2, FS_CardinalityType, HostedAssumption
    <3> HIDE DEF full
    <3> QED
      BY <2>1, <3>2, <3>3
  <2>7. PICK c \in DOMAIN Table : wait = Table[c].expires - now + 1
    BY <1>1, <1>6, <2>3, WaitTold
  <2>8. PICK o \in Recent(c) : req[o].at + WindowOf(c) = Table[c].expires
    BY <2>4
  <2>9. o \in asked
    BY <2>2, <2>4, <2>8
  <2>10. wait = req[o].at + WindowOf(Bucket(o)) - now + 1
    <3>1. Bucket(o) = c
      BY <2>8 DEF Recent
    <3>2. req[o].at \in Nat /\ WindowOf(Bucket(o)) \in Nat
      BY <2>4, <3>1, AdmittedFinite, AdmittedThen, AllowanceTypes
    <3> QED
      BY <1>3, <2>7, <2>8, <3>1, <3>2
  <2> HIDE DEF wait
  <2> QED
    BY <1>0, <1>2, <2>2, <2>6, <2>9, <2>10 DEF FairTo, Admitted
<1> QED
  BY <1>5, <1>6

LEMMA AdmissionIsFair ==
  ASSUME ServiceTypes, TableKnows, NEW r \in Requests, Admit(r), req[r].failure = "none"
  PROVE  FairTo(r)
<1>0. PICK b : b = Bucket(r)
  OBVIOUS
<1>1. b \in Keys \X Operations /\ ~IsSpent(b)
  BY <1>0, AllowanceTypes DEF Admit, OnLoop, ServiceTypes
<1>2. req'[r].failure = "none"
  <2>1. req \in [Requests -> RequestType] /\ req[r] \in RequestType
    BY DEF ServiceTypes
  <2>2. req'[r] = [req[r] EXCEPT !.pc = "delegate", !.at = now]
    BY <2>1 DEF Admit, Becomes
  <2> QED
    BY <2>1, <2>2 DEF RequestType
<1>3. LimitOf(b) \in Nat \ {0} /\ now \in Nat
  BY <1>1, AllowanceTypes, HostedAssumption DEF ServiceTypes
<1>4. Cardinality(Recent(b)) \in Nat
  BY AdmittedFinite, FS_CardinalityType
<1>5. Cardinality(Recent(b)) <= 2 * (LimitOf(b) - 1)
  <2>1. CASE b \in DOMAIN buckets /\ buckets[b].expires > now
    <3>1. buckets[b].count < LimitOf(b) /\ buckets[b].count \in Nat
      <4>1. b \in DOMAIN Table /\ Table[b] = buckets[b]
        BY <2>1, TableHolds DEF ServiceTypes
      <4> QED
        BY <1>1, <1>3, <2>1, <4>1 DEF IsSpent, ServiceTypes
    <3>2. Cardinality(Recent(b)) <= buckets[b].count + LimitOf(b) - 1
      BY <2>1, RunningWindow
    <3> QED
      BY <1>3, <1>4, <3>1, <3>2
  <2>2. CASE ~(b \in DOMAIN buckets /\ buckets[b].expires > now)
    <3>1. b \in DOMAIN buckets => buckets[b].expires <= now
      BY <1>3, <2>2 DEF ServiceTypes
    <3>2. Cardinality(Recent(b)) <= LimitOf(b) - 1
      BY <1>1, <3>1, SpentWindowIsPast DEF AbsentKnows
    <3> QED
      BY <1>3, <1>4, <3>2
  <2> QED
    BY <2>1, <2>2
<1> QED
  BY <1>0, <1>2, <1>5 DEF FairTo, Refused

\* Other steps refuse nobody and admit nobody.
LEMMA OthersAreFair ==
  ASSUME ServiceTypes, AllAccounted, RequestsNext, NEW r \in Requests, ~Admit(r), ~Refuse(r)
  PROVE  ~Refused(r) /\ ~Admitted(r)
<1>0. req \in [Requests -> RequestType] /\ req[r] \in RequestType
  BY DEF ServiceTypes
<1>1. ASSUME NEW s \in Requests, s # r, RequestStep(s) PROVE req'[r] = req[r]
  BY <1>1, RequestStepTyped DEF AllAccounted
<1>2. ASSUME RequestStep(r)
      PROVE  req'[r].pc # "delegate" /\ (req'[r].failure = "limited" => req[r].failure = "limited")
  <2>1. ASSUME NEW answer, Answers(r, answer)
        PROVE  req'[r].pc # "delegate" /\ req'[r].failure = req[r].failure
    BY <2>1, NewRecord
  <2>2. ASSUME NEW failure, Fails(r, failure), failure # "limited"
        PROVE  req'[r].pc # "delegate" /\ req'[r].failure # "limited"
    BY <2>2, NewRecord
  <2>3. ASSUME NEW pc \in {"audit", "usage"}, Becomes(r, [req[r] EXCEPT !.pc = pc])
        PROVE  req'[r].pc # "delegate" /\ req'[r].failure = req[r].failure
    <3>1. req'[r] = [req[r] EXCEPT !.pc = pc]
      BY <1>0, <2>3 DEF Becomes
    <3> QED
      BY <1>0, <3>1 DEF RequestType
  <2>4. ASSUME Receive(r)
        PROVE  req'[r].pc # "delegate" /\ req'[r].failure = req[r].failure
    <3>1. PICK route \in Routes, key \in Keys :
            req'[r] = [req[r] EXCEPT !.pc = "front", !.route = route, !.key = key]
      BY <1>0, <2>4 DEF Receive, Becomes
    <3> QED
      BY <1>0, <3>1 DEF RequestType
  <2>5. "limited" \notin StorageFaults
    BY FaultNames
  <2> QED
    BY <1>2, <2>1, <2>2, <2>3, <2>4, <2>5
       DEF RequestStep, TurnAway, WriteRefused, AnswerLocally, CallFails, Lands, DelegateFails,
           LandsUnseen, RecordAudit, RecordUsage, RecordFailure
<1>3. CASE Crash
  BY <1>3, CrashTyped DEF Refused, Admitted
<1>4. CASE SecondPasses
  BY <1>4 DEF SecondPasses, Refused, Admitted
<1> QED
  BY <1>1, <1>2, <1>3, <1>4 DEF RequestsNext, Refused, Admitted

\* Whoever is turned away has used its allowance or finds the table full of
\* others, and is told when to come back; and less than twice the allowance is
\* let in within any window of time (hosted.py HostedInMemoryRateLimiter).
THEOREM LimiterIsFair == RequestsSpec => LimiterFair
<1> DEFINE Inv == ServiceTypes /\ AllAccounted /\ TableKnows
<1>1. RequestsInit => Inv
  <2> SUFFICES ASSUME RequestsInit PROVE AllAccounted
    BY RequestsStartTyped, TableStartsKnown
  <2> QED
    BY DEF RequestsInit, AllAccounted, Accounted, Fresh, Unsent, NoRows, Refusals
<1>2. Inv /\ [RequestsNext]_serviceVars => Inv'
  <2> SUFFICES ASSUME ServiceTypes, AllAccounted, TableKnows, [RequestsNext]_serviceVars PROVE Inv'
    OBVIOUS
  <2>1. CASE RequestsNext
    <3>1. ServiceTypes'
      BY <2>1, StepTyped
    <3> QED
      BY <2>1, <3>1, StepAccounted, StepKnows
  <2>2. CASE UNCHANGED serviceVars
    <3>1. ServiceTypes' /\ AllAccounted'
      BY <2>2 DEF serviceVars, ServiceTypes, AllAccounted, Accounted, Fresh
    <3>2. TableKnows'
      BY <2>2, <3>1, LimiterUntouched DEF serviceVars
    <3> QED
      BY <3>1, <3>2
  <2> QED
    BY <2>1, <2>2
<1>3. Inv /\ [RequestsNext]_serviceVars => [\A r \in Requests : FairTo(r)]_serviceVars
  <2> SUFFICES ASSUME ServiceTypes, AllAccounted, TableKnows, RequestsNext, NEW r \in Requests
               PROVE  FairTo(r)
    OBVIOUS
  <2>1. CASE Refuse(r)
    BY <2>1, RefusalIsFair
  <2>2. CASE Admit(r)
    <3>1. req[r].failure = "none"
      BY <2>2 DEF Admit, OnLoop, AllAccounted, Accounted, Fresh
    <3> QED
      BY <2>2, <3>1, AdmissionIsFair
  <2>3. CASE ~Refuse(r) /\ ~Admit(r)
    BY <2>3, OthersAreFair DEF FairTo
  <2> QED
    BY <2>1, <2>2, <2>3
<1> QED
  BY <1>1, <1>2, <1>3, PTL DEF RequestsSpec, LimiterFair
===============================================================================
