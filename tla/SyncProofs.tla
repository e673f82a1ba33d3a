---------------------------- MODULE SyncProofs ----------------------------
(***************************************************************************)
(* Type correctness and safety of the scheduler, for every number of rows    *)
(* and jobs and every limit, and of a student's rows, which the scheduler's   *)
(* jobs, the student and a registration write, for every number of workers,   *)
(* notices, edits and registrations.                                         *)
(*                                                                         *)
(* The scheduler's argument: a row at which no writer was left when its claim went        *)
(* (failed[r] # None) has at most one writer, which holds the claim, and the  *)
(* failures counted in the table are no more than those that happened.        *)
(***************************************************************************)
EXTENDS Scheduler, Student, FiniteSetTheorems, TLAPS

USE DEF Loop, JobIds, Writers

RowOK(r) ==
    failed[r] # None =>
        /\ \A u, v \in Writers : job[u].row = r /\ job[v].row = r => u = v
        /\ \A u \in Writers : job[u].row = r => r \in claimed /\ r \notin disabled /\ r \notin batch
        /\ r \in batch => r \in claimed /\ r \notin disabled
        /\ r \in disabled <=> failures[r] = Limit
        /\ failures[r] <= failed[r]
        /\ \A u \in Writers : job[u].row = r =>
               /\ job[u].phase \in {"failed", "again"} => failures[r] < failed[r]
               /\ job[u].read # None => job[u].read = failures[r]

RowsOK == \A r \in Rows : RowOK(r)

LoopOK == batch # {} => job[Loop] = NoJob

IInv == TypeOK /\ LoopOK /\ RowsOK

LEMMA NoneIsNew == None \notin Rows /\ None \notin Nat /\ None \notin Phases
BY RowsAssumption, NamesAssumption DEF Phases

-----------------------------------------------------------------------------
\* The jobs' type, and a job that is none.
LEMMA NoJobType == NoJob \in JobType /\ NoJob.row = None /\ NoJob.phase = None /\ NoJob.read = None
BY BoundsAssumption DEF NoJob, JobType

LEMMA FreshFields ==
    ASSUME NEW r, NEW p
    PROVE  [NoJob EXCEPT !.row = r, !.phase = p]
               \in [row : {r}, phase : {p}, read : {None}, retries : {0}]
<1>1. NoJob \in [row : {None}, phase : {None}, read : {None}, retries : {0}]
  BY DEF NoJob
<1> QED
  BY <1>1

LEMMA FreshJob ==
    ASSUME NEW r \in Rows, NEW p \in Phases
    PROVE  LET next == [NoJob EXCEPT !.row = r, !.phase = p]
           IN /\ next \in JobType /\ next.row = r /\ next.phase = p /\ next.read = None
              /\ next # NoJob
<1>1. [NoJob EXCEPT !.row = r, !.phase = p] \in [row : {r}, phase : {p}, read : {None}, retries : {0}]
  BY FreshFields
<1>2. 0 \in 0..MaxRetries
  BY BoundsAssumption
<1> QED
  BY <1>1, <1>2, NoneIsNew, NoJobType DEF JobType

LEMMA GoesOnType ==
    ASSUME TypeOK, NEW u \in Writers, job[u].row # None, NEW next \in GoesOn(u),
           job[u].phase \in {"failed", "again", "succeeded"}
    PROVE  /\ next \in JobType
           /\ next = NoJob \/ (next.row = job[u].row /\ next.phase \in {"again", "sleeping"})
           /\ next.read = None
           /\ u = Loop => next = NoJob
           /\ next.phase = "again" => job[u].phase = "failed"
<1>1. job[u] \in JobType
  BY DEF TypeOK
<1>2. NoJob \in JobType /\ NoJob.row = None /\ NoJob.phase = None /\ NoJob.read = None
  BY NoJobType
<1> DEFINE to(phase) == [job[u] EXCEPT !.phase = phase, !.read = None]
           asleep == to("sleeping")
           slept == [asleep EXCEPT !.retries = @ + 1]
<1>3. /\ to("again") \in JobType /\ to("again").row = job[u].row
      /\ to("again").phase = "again" /\ to("again").read = None
  BY <1>1 DEF JobType, Phases
<1>4. job[u].retries < MaxRetries =>
        /\ slept \in JobType /\ slept.row = job[u].row
        /\ slept.phase = "sleeping" /\ slept.read = None
  <2>1. /\ asleep \in JobType /\ asleep.row = job[u].row /\ asleep.phase = "sleeping"
        /\ asleep.read = None /\ asleep.retries = job[u].retries
    BY <1>1 DEF JobType, Phases
  <2> HIDE DEF asleep
  <2>2. asleep.retries < MaxRetries => asleep.retries + 1 \in 0..MaxRetries
    BY <2>1, BoundsAssumption DEF JobType
  <2> QED
    BY <2>1, <2>2 DEF JobType
<1>5. \/ next = to("again") /\ u # Loop /\ job[u].phase = "failed"
      \/ next = slept /\ u # Loop /\ job[u].retries < MaxRetries
      \/ next = NoJob
  BY DEF GoesOn
<1> HIDE DEF to, slept
<1> QED
  BY <1>2, <1>3, <1>4, <1>5, NoneIsNew DEF Phases

-----------------------------------------------------------------------------
\* What may become of writer u's job: the type survives.
JobTypeOK ==
    /\ job \in [Writers -> JobType]
    /\ \A u \in Writers : (job[u].row = None) <=> (job[u] = NoJob)
    /\ \A u \in Writers : (job[u].row = None) <=> (job[u].phase = None)
    /\ \A u \in Writers : job[u].read # None => job[u].phase \in {"failed", "again"}
    /\ job[Loop].phase \in {None, "failed"}

LEMMA JobStep ==
    ASSUME JobTypeOK, NEW u \in Writers, NEW next \in JobType,
           job' = [job EXCEPT ![u] = next],
           next.row = None <=> next = NoJob,
           next.row = None <=> next.phase = None,
           next.read # None => next.phase \in {"failed", "again"},
           u = Loop => next.phase \in {None, "failed"}
    PROVE  JobTypeOK'
BY DEF JobTypeOK

LEMMA TypeInit == Init => TypeOK
<1> SUFFICES ASSUME Init PROVE TypeOK
  OBVIOUS
<1>1. job \in [Writers -> JobType] /\ \A u \in Writers : job[u] = NoJob
  BY NoJobType DEF Init
<1>2. \A u \in Writers : job[u].row = None /\ job[u].phase = None /\ job[u].read = None
  BY <1>1, NoJobType
<1>3. failures \in [Rows -> 0..Limit] /\ failed \in [Rows -> (0..Limit) \cup {None}]
  BY BoundsAssumption DEF Init
<1>4. ahead \in [Rows -> SUBSET Rows] /\ faults \in 0..Faults
  BY BoundsAssumption DEF Init
<1>6. circuitOpen \in BOOLEAN
  BY DEF Init
<1>5. due \subseteq Rows /\ disabled \subseteq Rows \ due /\ claimed \subseteq Rows /\ batch \subseteq Rows
  BY DEF Init
<1> QED
  BY <1>1, <1>2, <1>3, <1>4, <1>5, <1>6 DEF TypeOK

LEMMA OneMoreType == ASSUME NEW n \in 0..Limit PROVE OneMore(n) \in 0..Limit
BY BoundsAssumption DEF OneMore

LEMMA FailedType ==
    ASSUME TypeOK, NEW r \in Rows, Failure(r) \/ Loosened(r) \/ UNCHANGED failed
    PROVE  failed' \in [Rows -> (0..Limit) \cup {None}]
BY OneMoreType DEF TypeOK, Failure, Loosened

\* The variables other than job.
RestOK ==
    /\ due \subseteq Rows /\ ahead \in [Rows -> SUBSET Rows]
    /\ disabled \subseteq Rows \ due /\ failures \in [Rows -> 0..Limit]
    /\ claimed \subseteq Rows /\ batch \subseteq Rows
    /\ circuitOpen \in BOOLEAN /\ failed \in [Rows -> (0..Limit) \cup {None}]
    /\ faults \in 0..Faults

LEMMA TypeParts == TypeOK <=> RestOK /\ JobTypeOK
BY DEF TypeOK, RestOK, JobTypeOK

LEMMA FaultType == ASSUME TypeOK, Fault \/ UNCHANGED faults PROVE faults' \in 0..Faults
BY BoundsAssumption DEF TypeOK, Fault

LEMMA WrittenType ==
    ASSUME TypeOK, NEW u \in Writers, NEW next \in JobType, Written(u, next)
    PROVE  /\ job[u].row \in Rows /\ job[u].phase \in {"failed", "again", "succeeded"}
           /\ due' \subseteq Rows /\ ahead' \in [Rows -> SUBSET Rows]
           /\ disabled' \subseteq Rows \ due' /\ failures' \in [Rows -> 0..Limit]
           /\ claimed' \subseteq Rows /\ failed' \in [Rows -> (0..Limit) \cup {None}]
<1> DEFINE r == job[u].row
<1>1. job[u] \in JobType
  BY DEF TypeOK
<1>2. job[u].phase \in {"failed", "again", "succeeded"}
  BY DEF Written, FailureWritten, SuccessWritten, TypeOK
<1>3. r \in Rows
  BY <1>1, <1>2, NoneIsNew DEF TypeOK, JobType, Phases
<1>4. Rescheduled(r)
  BY DEF Written, FailureWritten, SuccessWritten
<1>5. due' \subseteq Rows /\ ahead' \in [Rows -> SUBSET Rows] /\ claimed' \subseteq Rows
  BY <1>4 DEF Rescheduled, TypeOK
<1>6. disabled' \subseteq Rows \ due'
  BY <1>3, <1>4 DEF Written, FailureWritten, SuccessWritten, Rescheduled, TypeOK
<1>7. failures' \in [Rows -> 0..Limit]
  <2>1. CASE FailureWritten(u)
    <3>1. job[u].read \in 0..Limit
      BY <2>1, <1>1 DEF FailureWritten, JobType
    <3>2. OneMore(job[u].read) \in 0..Limit
      BY <3>1, OneMoreType
    <3> QED
      BY <2>1, <3>2 DEF FailureWritten, TypeOK
  <2>2. CASE SuccessWritten(u)
    <3>1. 0 \in 0..Limit
      BY BoundsAssumption
    <3> QED
      BY <2>2, <3>1 DEF SuccessWritten, TypeOK
  <2> QED
    BY <2>1, <2>2 DEF Written
<1>8. failed' \in [Rows -> (0..Limit) \cup {None}]
  BY BoundsAssumption DEF Written, Loosened, TypeOK
<1> QED
  BY <1>2, <1>3, <1>5, <1>6, <1>7, <1>8

-----------------------------------------------------------------------------
\* Steps that give writer u another job, or the same in another phase.
LEMMA JobStepType ==
    ASSUME TypeOK, NEW u \in Writers, NEW next \in JobType,
           job' = [job EXCEPT ![u] = next],
           next = NoJob \/ (next.row \in Rows /\ next.phase \in Phases),
           next.read # None => next.phase \in {"failed", "again"},
           u = Loop => next = NoJob \/ next.phase = "failed"
    PROVE  JobTypeOK'
<1>1. JobTypeOK
  BY TypeParts
<1>2. (next.row = None <=> next = NoJob) /\ (next.row = None <=> next.phase = None)
  BY NoJobType, NoneIsNew
<1>3. u = Loop => next.phase \in {None, "failed"}
  BY NoJobType
<1> QED
  BY <1>1, <1>2, <1>3, JobStep

LEMMA TypeStep == ASSUME TypeOK, [Next]_vars PROVE TypeOK'
<1> USE DEF row
<1>0. RestOK /\ JobTypeOK
  BY TypeParts
<1> SUFFICES RestOK' /\ JobTypeOK'
  BY TypeParts DEF TypeOK, RestOK, JobTypeOK
<1>1. CASE ClaimDue \/ ClaimLost
  <2>1. Oldest \subseteq Rows /\ faults' \in 0..Faults
    BY <1>1, FaultType DEF Oldest, TypeOK, ClaimDue, ClaimLost
  <2> QED
    BY <1>0, <1>1, <2>1 DEF ClaimDue, ClaimLost, Claims, RestOK, JobTypeOK
<1>2. ASSUME NEW r \in batch, Enqueue(r) PROVE RestOK' /\ JobTypeOK'
  <2>1. PICK j \in JobIds : job' = [job EXCEPT ![j] = [NoJob EXCEPT !.row = r, !.phase = "queued"]]
    BY <1>2 DEF Enqueue
  <2> DEFINE next == [NoJob EXCEPT !.row = r, !.phase = "queued"]
  <2>2. r \in Rows
    BY DEF TypeOK
  <2>3. /\ next \in JobType /\ next.row \in Rows /\ next.phase \in Phases /\ next.read = None
    BY <2>2, FreshJob DEF Phases
  <2>4. job' = [job EXCEPT ![j] = next] /\ j \in Writers /\ j # Loop
    BY <2>1
  <2> HIDE DEF next
  <2>5. JobTypeOK'
    BY <2>3, <2>4, JobStepType
  <2> QED
    BY <1>0, <1>2, <2>5 DEF Enqueue, RestOK
<1>3. ASSUME NEW r \in batch, Refused(r) PROVE RestOK' /\ JobTypeOK'
  <2> DEFINE next == [NoJob EXCEPT !.row = r, !.phase = "failed"]
  <2>1. r \in Rows
    BY DEF TypeOK
  <2>2. next \in JobType /\ next.row \in Rows /\ next.phase = "failed" /\ next.read = None
    BY <2>1, FreshJob DEF Phases
  <2>3. job' = [job EXCEPT ![Loop] = next] /\ Loop \in Writers
    BY <1>3 DEF Refused
  <2> HIDE DEF next
  <2>4. JobTypeOK'
    BY <2>2, <2>3, JobStepType DEF Phases
  <2>5. failed' \in [Rows -> (0..Limit) \cup {None}] /\ faults' \in 0..Faults
    BY <1>3, <2>1, FailedType, FaultType DEF Refused
  <2> QED
    BY <1>0, <1>3, <2>4, <2>5 DEF Refused, RestOK
<1>4. ASSUME NEW u \in Writers, ReadFailures(u) PROVE RestOK' /\ JobTypeOK'
  <2>1. job[u].row # None /\ job[u].row \in Rows /\ job[u] \in JobType
    BY <1>4, NoneIsNew DEF ReadFailures, TypeOK, JobType, Phases
  <2> DEFINE next == [job[u] EXCEPT !.read = failures[job[u].row]]
  <2>2. /\ next \in JobType /\ next.row \in Rows
        /\ next.phase = job[u].phase /\ next.phase \in Phases
    BY <1>4, <2>1 DEF ReadFailures, TypeOK, JobType, Phases
  <2>3. job' = [job EXCEPT ![u] = next]
    BY <1>4 DEF ReadFailures
  <2>4. u = Loop => next.phase = "failed"
    BY <1>4, <2>2, NoneIsNew DEF ReadFailures, TypeOK, Phases
  <2>5. next.phase \in {"failed", "again"}
    BY <1>4, <2>2 DEF ReadFailures
  <2> HIDE DEF next
  <2>6. JobTypeOK'
    BY <2>2, <2>3, <2>4, <2>5, JobStepType
  <2> QED
    BY <1>0, <1>4, <2>6 DEF ReadFailures, RestOK
<1>5. ASSUME NEW u \in Writers, NEW next \in {NoJob} \cup GoesOn(u), Written(u, next)
      PROVE  JobTypeOK'
  <2>1. NoJob \in JobType /\ NoJob.read = None
    BY NoJobType
  <2>2. job[u].row \in Rows /\ job[u].phase \in {"failed", "again", "succeeded"}
    <3>1. job[u].phase \in {"failed", "again", "succeeded"}
      BY <1>5 DEF Written, FailureWritten, SuccessWritten, TypeOK
    <3> QED
      BY <3>1, NoneIsNew DEF TypeOK, JobType, Phases
  <2>3. next \in GoesOn(u) =>
          /\ next \in JobType /\ next.read = None
          /\ next = NoJob \/ (next.row \in Rows /\ next.phase \in Phases)
          /\ u = Loop => next = NoJob
    BY <2>2, GoesOnType, NoneIsNew DEF Phases
  <2>4. job' = [job EXCEPT ![u] = next]
    BY <1>5 DEF Written
  <2> QED
    BY <2>1, <2>3, <2>4, JobStepType
<1>6. ASSUME NEW u \in Writers, Writes(u) PROVE RestOK' /\ JobTypeOK'
  <2>1. Written(u, NoJob) /\ NoJob \in JobType
    BY <1>6, NoJobType DEF Writes
  <2>2. JobTypeOK'
    BY <1>5, <2>1
  <2> QED
    BY <1>0, <1>6, <2>1, <2>2, WrittenType DEF Writes, RestOK
<1>7. ASSUME NEW u \in Writers, WriteFails(u) PROVE RestOK' /\ JobTypeOK'
  <2>1. job[u].row \in Rows /\ job[u].phase \in {"failed", "again", "succeeded"}
    BY <1>7, NoneIsNew DEF WriteFails, TypeOK, JobType, Phases
  <2>2. PICK next \in GoesOn(u) : job' = [job EXCEPT ![u] = next]
    BY <1>7 DEF WriteFails
  <2>3. /\ next \in JobType /\ next.read = None
        /\ next = NoJob \/ (next.row \in Rows /\ next.phase \in Phases)
        /\ u = Loop => next = NoJob
    BY <2>1, GoesOnType, NoneIsNew DEF Phases
  <2>4. JobTypeOK'
    BY <2>2, <2>3, JobStepType
  <2>5. faults' \in 0..Faults
    BY <1>7, FaultType DEF WriteFails
  <2> QED
    BY <1>0, <1>7, <2>4, <2>5 DEF WriteFails, RestOK
<1>8. ASSUME NEW u \in Writers, AnswerLost(u) PROVE RestOK' /\ JobTypeOK'
  <2>1. PICK next \in GoesOn(u) : Written(u, next)
    BY <1>8 DEF AnswerLost
  <2>2. job[u].row # None /\ job[u].phase \in {"failed", "again", "succeeded"}
    <3>1. job[u].phase \in {"failed", "again", "succeeded"}
      BY <2>1 DEF Written, FailureWritten, SuccessWritten, TypeOK
    <3> QED
      BY <3>1, NoneIsNew DEF TypeOK, Phases
  <2>3. next \in JobType
    BY <2>2, GoesOnType
  <2>4. JobTypeOK'
    BY <1>5, <2>1
  <2>5. faults' \in 0..Faults
    BY <1>8, FaultType DEF AnswerLost
  <2> QED
    BY <1>0, <1>8, <2>1, <2>3, <2>4, <2>5, WrittenType DEF AnswerLost, RestOK
<1>9. ASSUME NEW j \in JobIds, Run(j) PROVE RestOK' /\ JobTypeOK'
  <2>1. job[j].phase \in {"queued", "sleeping"} /\ j # Loop /\ j \in Writers
    BY <1>9 DEF Run, Fails, Succeeds, Wakes, RetryRefused
  <2>2. job[j].row \in Rows /\ job[j].read = None /\ job[j] \in JobType
    BY <2>1, NoneIsNew DEF TypeOK, JobType, Phases
  <2>3. NoJob \in JobType /\ NoJob.read = None
    BY NoJobType
  <2> DEFINE to(p) == [job[j] EXCEPT !.phase = p]
  <2>4. \A p \in Phases : to(p) \in JobType /\ to(p).row \in Rows /\ to(p).phase = p /\ to(p).read = None
    BY <2>2 DEF JobType
  <2>5. \/ \E p \in Phases : job' = [job EXCEPT ![j] = to(p)]
        \/ job' = [job EXCEPT ![j] = NoJob]
    BY <1>9 DEF Run, Fails, Succeeds, Wakes, RetryRefused, Phases
  <2> HIDE DEF to
  <2>6. JobTypeOK'
    BY <2>1, <2>3, <2>4, <2>5, JobStepType
  <2>7. failed' \in [Rows -> (0..Limit) \cup {None}] /\ faults' \in 0..Faults
    BY <1>9, <2>2, FailedType, FaultType DEF Run, Fails, Succeeds, Wakes, RetryRefused
  <2> QED
    BY <1>0, <1>9, <2>6, <2>7 DEF Run, Fails, Succeeds, Wakes, RetryRefused, RestOK
<1>10. ASSUME NEW r \in Rows, BecomesDue(r) PROVE RestOK' /\ JobTypeOK'
  BY <1>0, <1>10 DEF BecomesDue, RestOK, JobTypeOK
<1>11. ASSUME NEW r \in Rows, ClaimAges(r) PROVE RestOK' /\ JobTypeOK'
  <2>1. failed' \in [Rows -> (0..Limit) \cup {None}]
    BY <1>11, FailedType DEF ClaimAges
  <2> QED
    BY <1>0, <1>11, <2>1 DEF ClaimAges, RestOK, JobTypeOK
<1>12. ASSUME NEW r \in Rows, ReArm(r) PROVE RestOK' /\ JobTypeOK'
  <2>1. 0 \in 0..Limit
    BY BoundsAssumption
  <2>2. failed' \in [Rows -> (0..Limit) \cup {None}] /\ failures' \in [Rows -> 0..Limit]
    BY <1>0, <1>12, <2>1 DEF ReArm, RestOK
  <2>3. due' \subseteq Rows /\ ahead' \in [Rows -> SUBSET Rows] /\ disabled' \subseteq Rows \ due'
    BY <1>0, <1>12 DEF ReArm, RestOK
  <2> QED
    BY <1>0, <1>12, <2>2, <2>3 DEF ReArm, RestOK, JobTypeOK
<1>13. CASE CircuitOpens \/ CircuitCools
  <2>1. faults' \in 0..Faults
    BY <1>13, FaultType DEF CircuitOpens, CircuitCools
  <2>2. circuitOpen' \in BOOLEAN
    BY <1>13 DEF CircuitOpens, CircuitCools
  <2> QED
    BY <1>0, <1>13, <2>1, <2>2 DEF CircuitOpens, CircuitCools, RestOK, JobTypeOK
<1>14. CASE Restart
  <2>1. faults' \in 0..Faults
    BY <1>14, FaultType DEF Restart
  <2>2. JobTypeOK'
    BY <1>14, NoJobType DEF Restart, JobTypeOK
  <2> QED
    BY <1>0, <1>14, <2>1, <2>2 DEF Restart, RestOK
<1>15. CASE UNCHANGED vars
  BY <1>0, <1>15 DEF vars, RestOK, JobTypeOK
<1> QED
  BY <1>1, <1>2, <1>3, <1>4, <1>6, <1>7, <1>8, <1>9, <1>10, <1>11, <1>12, <1>13, <1>14, <1>15
  DEF Next, Cycle, Update

\* Every variable keeps its type.
THEOREM TypeCorrect == Spec => []TypeOK
BY TypeInit, TypeStep, PTL DEF Spec

-----------------------------------------------------------------------------
\* A row keeps what RowOK says of it if no step touches it but to take it out of the
\* batch, to claim it, or to end a job there or give it a phase without failures.
LEMMA RowFrame ==
    ASSUME TypeOK, NEW r \in Rows, RowOK(r),
           failed'[r] = failed[r], failures'[r] = failures[r],
           r \in disabled' <=> r \in disabled,
           r \in claimed => r \in claimed',
           r \in batch' => r \in batch,
           \A u \in Writers : job'[u].row = r =>
               /\ job[u].row = r
               /\ job'[u].phase \in {"failed", "again"} => job[u].phase \in {"failed", "again"}
               /\ job'[u].read # None => job'[u].read = job[u].read
    PROVE  RowOK(r)'
BY DEF RowOK

\* A row at which nobody is left.
LEMMA RowFree ==
    ASSUME NEW r \in Rows,
           \A u \in Writers : job'[u].row # r, r \notin batch',
           r \in disabled' <=> failures'[r] = Limit,
           failed'[r] # None => failures'[r] <= failed'[r]
    PROVE  RowOK(r)'
BY DEF RowOK

LEMMA RowLoose == ASSUME NEW r \in Rows, failed'[r] = None PROVE RowOK(r)'
BY DEF RowOK

\* A failure of a row that is not disabled can still be counted.
LEMMA FailureCounts ==
    ASSUME TypeOK, NEW r \in Rows, RowOK(r), failed[r] # None, r \notin disabled, Failure(r)
    PROVE  /\ failed'[r] \in 0..Limit /\ failures[r] < failed'[r]
           /\ \A d \in Rows \ {r} : failed'[d] = failed[d]
<1>1. failures[r] \in 0..Limit /\ failed[r] \in 0..Limit /\ failures[r] # Limit /\ failures[r] <= failed[r]
  BY DEF TypeOK, RowOK
<1>2. failed'[r] = OneMore(failed[r]) /\ \A d \in Rows \ {r} : failed'[d] = failed[d]
  BY DEF Failure, TypeOK
<1> QED
  BY <1>1, <1>2, BoundsAssumption DEF OneMore

LEMMA FailureElsewhere ==
    ASSUME TypeOK, NEW r \in Rows, Failure(r)
    PROVE  /\ \A d \in Rows \ {r} : failed'[d] = failed[d]
           /\ failed[r] = None => failed'[r] = None
BY DEF TypeOK, Failure

\* The claimed rows had no writer.
LEMMA SafeClaims == ASSUME IInv, ClaimDue \/ ClaimLost PROVE RowsOK' /\ LoopOK'
<1>1. LoopOK'
  BY DEF ClaimDue, ClaimLost, Claims, LoopOK
<1>2. ASSUME NEW r \in Rows PROVE RowOK(r)'
  <2>1. RowOK(r) /\ TypeOK
    BY DEF IInv, RowsOK
  <2>2. CASE r \in Oldest
    <3>1. r \notin disabled /\ r \notin claimed
      BY <2>2 DEF Oldest, Claimable
    <3>2. r \in claimed'
      BY <2>2 DEF ClaimDue, ClaimLost, Claims
    <3>3. failed[r] # None => \A u \in Writers : job[u].row # r
      BY <2>1, <3>1 DEF RowOK
    <3> QED
      BY <2>1, <3>1, <3>2, <3>3 DEF ClaimDue, ClaimLost, Claims, RowOK
  <2>3. CASE r \notin Oldest
    BY <2>1, <2>3, RowFrame DEF ClaimDue, ClaimLost, Claims
  <2> QED
    BY <2>2, <2>3
<1> QED
  BY <1>1, <1>2 DEF RowsOK

LEMMA SafeEnqueue == ASSUME IInv, NEW r \in batch, Enqueue(r) PROVE RowsOK' /\ LoopOK'
<1> DEFINE next == [NoJob EXCEPT !.row = r, !.phase = "queued"]
<1>1. r \in Rows /\ TypeOK /\ LoopOK
  BY DEF IInv, TypeOK
<1>2. PICK j \in JobIds : job[j] = NoJob /\ job' = [job EXCEPT ![j] = next]
  BY DEF Enqueue
<1>3. next.row = r /\ next.phase = "queued" /\ next.read = None
  <2>1. next \in [row : {r}, phase : {"queued"}, read : {None}, retries : {0}]
    BY FreshFields
  <2> QED
    BY <2>1
<1> HIDE DEF next
<1>4. /\ job'[j] = next /\ \A u \in Writers \ {j} : job'[u] = job[u]
  BY <1>1, <1>2 DEF TypeOK
<1>5. LoopOK'
  BY <1>1, <1>4 DEF LoopOK, Enqueue
<1>6. RowOK(r)'
  <2>1. RowOK(r)
    BY <1>1 DEF IInv, RowsOK
  <2>2. failed[r] # None => /\ r \in claimed /\ r \notin disabled
                            /\ \A u \in Writers : job[u].row # r
    BY <2>1 DEF RowOK
  <2>3. UNCHANGED <<disabled, failures, claimed, failed>> /\ r \notin batch'
    BY DEF Enqueue, row
  <2>4. failed[r] # None => \A u \in Writers : job'[u].row = r => u = j
    BY <1>4, <2>2
  <2> QED
    BY <1>1, <1>3, <1>4, <2>1, <2>2, <2>3, <2>4 DEF RowOK
<1>7. ASSUME NEW d \in Rows, d # r PROVE RowOK(d)'
  <2>1. RowOK(d)
    BY DEF IInv, RowsOK
  <2> QED
    BY <1>1, <1>3, <1>4, <1>7, <2>1, RowFrame DEF Enqueue, row
<1> QED
  BY <1>5, <1>6, <1>7 DEF RowsOK

LEMMA SafeRefused == ASSUME IInv, NEW r \in batch, Refused(r) PROVE RowsOK' /\ LoopOK'
<1> DEFINE next == [NoJob EXCEPT !.row = r, !.phase = "failed"]
<1>1. r \in Rows /\ TypeOK /\ job[Loop] = NoJob
  BY DEF IInv, TypeOK, LoopOK
<1>2. next.row = r /\ next.phase = "failed" /\ next.read = None
  <2>1. next \in [row : {r}, phase : {"failed"}, read : {None}, retries : {0}]
    BY FreshFields
  <2> QED
    BY <2>1
<1>3. job' = [job EXCEPT ![Loop] = next]
  BY DEF Refused
<1> HIDE DEF next
<1>4. job'[Loop] = next /\ \A u \in Writers \ {Loop} : job'[u] = job[u]
  BY <1>1, <1>3 DEF TypeOK
<1>5. LoopOK'
  BY DEF LoopOK, Refused
<1>6. RowOK(r)'
  <2>1. RowOK(r) /\ Failure(r)
    BY <1>1 DEF IInv, RowsOK, Refused
  <2>2. CASE failed[r] = None
    BY <1>1, <2>1, <2>2, FailureElsewhere, RowLoose
  <2>3. CASE failed[r] # None
    <3>1. r \in claimed /\ r \notin disabled /\ \A u \in Writers : job[u].row # r
      BY <2>1, <2>3 DEF RowOK
    <3>2. failed'[r] \in 0..Limit /\ failures[r] < failed'[r]
      BY <1>1, <2>1, <2>3, <3>1, FailureCounts
    <3>3. r \in disabled <=> failures[r] = Limit
      BY <2>1, <2>3 DEF RowOK
    <3>4. failures[r] \in 0..Limit /\ failures' = failures /\ disabled' = disabled
          /\ claimed' = claimed /\ batch' = {}
      BY <1>1 DEF Refused, row, TypeOK
    <3> QED
      BY <1>2, <1>4, <3>1, <3>2, <3>3, <3>4 DEF RowOK
  <2> QED
    BY <2>2, <2>3
<1>7. ASSUME NEW d \in Rows, d # r PROVE RowOK(d)'
  <2>1. RowOK(d) /\ failed'[d] = failed[d]
    BY <1>1, <1>7, FailureElsewhere DEF IInv, RowsOK, Refused
  <2> QED
    BY <1>1, <1>2, <1>4, <1>7, <2>1, RowFrame DEF Refused, row
<1> QED
  BY <1>5, <1>6, <1>7 DEF RowsOK

LEMMA SafeRun == ASSUME IInv, NEW j \in JobIds, Run(j) PROVE RowsOK' /\ LoopOK'
<1>1. TypeOK /\ LoopOK /\ j \in Writers /\ j # Loop
  BY DEF IInv
<1>2. job[j].phase \in {"queued", "sleeping"}
  BY DEF Run, Fails, Succeeds, Wakes, RetryRefused
<1>3. job[j].row \in Rows /\ job[j].read = None /\ job[j] \in JobType
  BY <1>1, <1>2, NoneIsNew DEF TypeOK, JobType, Phases
<1>4. \A u \in Writers \ {j} : job'[u] = job[u]
  BY <1>1 DEF Run, Fails, Succeeds, Wakes, RetryRefused, TypeOK
<1>5. LoopOK'
  BY <1>1, <1>4 DEF LoopOK, Run, Fails, Succeeds, Wakes, RetryRefused
<1>6. UNCHANGED <<row, batch>>
  BY DEF Run, Fails, Succeeds, Wakes, RetryRefused
<1>7. CASE Fails(j)
  <2>0. PICK r \in Rows : r = job[j].row
    BY <1>3
  <2>1. Failure(r) /\ job'[j] = [job[j] EXCEPT !.phase = "failed"]
    BY <1>1, <1>7, <2>0 DEF Fails, TypeOK
  <2>2. job'[j].row = r /\ job'[j].phase = "failed" /\ job'[j].read = None
    BY <1>3, <2>1, <2>0 DEF JobType
  <2>4. RowOK(r)'
    <3>1. RowOK(r)
      BY <2>0 DEF IInv, RowsOK
    <3>2. CASE failed[r] = None
      BY <1>1, <2>1, <2>0, <3>2, FailureElsewhere, RowLoose
    <3>3. CASE failed[r] # None
      <4>1. /\ r \in claimed /\ r \notin disabled /\ r \notin batch
            /\ \A u \in Writers : job[u].row = r => u = j
        BY <1>1, <2>0, <3>1, <3>3 DEF RowOK
      <4>2. failed'[r] \in 0..Limit /\ failures[r] < failed'[r]
        BY <1>1, <2>1, <2>0, <3>1, <3>3, <4>1, FailureCounts
      <4>3. (r \in disabled <=> failures[r] = Limit) /\ failures[r] \in 0..Limit
        BY <1>1, <2>0, <3>1, <3>3 DEF RowOK, TypeOK
      <4> QED
        BY <1>4, <1>6, <2>2, <4>1, <4>2, <4>3 DEF RowOK, row
    <3> QED
      BY <3>2, <3>3
  <2>5. ASSUME NEW d \in Rows, d # r PROVE RowOK(d)'
    <3>1. RowOK(d) /\ failed'[d] = failed[d]
      BY <1>1, <2>1, <2>0, <2>5, FailureElsewhere DEF IInv, RowsOK
    <3>2. \A u \in Writers : job'[u].row = d => job'[u] = job[u]
      BY <1>4, <2>2, <2>5
    <3> QED
      BY <1>1, <1>6, <3>1, <3>2, RowFrame DEF row
  <2> QED
    BY <1>5, <2>4, <2>5 DEF RowsOK
<1>8. CASE ~Fails(j)
  <2>1. NoJob.row = None
    BY NoJobType
  <2>2. /\ job'[j].row \in {None, job[j].row}
        /\ job'[j].row # None => job'[j].phase \notin {"failed", "again"} /\ job'[j].read = None
    BY <1>1, <1>3, <1>8, <2>1 DEF Run, Succeeds, Wakes, RetryRefused, TypeOK, JobType
  <2>3. failed' = failed
    BY <1>8 DEF Run, Succeeds, Wakes, RetryRefused
  <2>4. ASSUME NEW d \in Rows PROVE RowOK(d)'
    <3>1. RowOK(d) /\ d # None
      BY NoneIsNew DEF IInv, RowsOK
    <3> QED
      BY <1>1, <1>4, <1>6, <2>2, <2>3, <3>1, RowFrame DEF row
  <2> QED
    BY <1>5, <2>4 DEF RowsOK
<1> QED
  BY <1>7, <1>8

-----------------------------------------------------------------------------
\* The writes.
LEMMA SafeReadFailures == ASSUME IInv, NEW u \in Writers, ReadFailures(u) PROVE RowsOK' /\ LoopOK'
<1>1. TypeOK /\ LoopOK /\ job[u] \in JobType
  BY DEF IInv, TypeOK
<1>2. PICK r \in Rows : r = job[u].row
  BY <1>1, NoneIsNew DEF ReadFailures, TypeOK, JobType, Phases
<1>3. /\ job'[u] = [job[u] EXCEPT !.read = failures[r]]
      /\ \A v \in Writers \ {u} : job'[v] = job[v]
  BY <1>1, <1>2 DEF ReadFailures, TypeOK
<1>4. job'[u].row = r /\ job'[u].phase = job[u].phase /\ job'[u].read = failures[r]
  BY <1>1, <1>2, <1>3 DEF JobType
<1>5. LoopOK'
  <2>1. job[u] # NoJob
    BY <1>1, <1>2, NoJobType, NoneIsNew
  <2> QED
    BY <1>1, <1>3, <2>1 DEF LoopOK, ReadFailures
<1>6. UNCHANGED <<row, batch, failed>>
  BY DEF ReadFailures
<1>7. RowOK(r)'
  <2>1. RowOK(r)
    BY DEF IInv, RowsOK
  <2>2. \A v \in Writers : job'[v].row = job[v].row /\ job'[v].phase = job[v].phase
    BY <1>2, <1>3, <1>4
  <2>3. \A v \in Writers : job'[v].read = job[v].read \/ (v = u /\ job'[v].read = failures[r])
    BY <1>3, <1>4
  <2>4. UNCHANGED <<claimed, failures, disabled, batch, failed>>
    BY <1>6 DEF row
  <2>5. ASSUME failed[r] # None
        PROVE  /\ \A v, w \in Writers : job'[v].row = r /\ job'[w].row = r => v = w
               /\ \A v \in Writers : job'[v].row = r => r \in claimed /\ r \notin disabled /\ r \notin batch
               /\ r \in batch => r \in claimed /\ r \notin disabled
               /\ r \in disabled <=> failures[r] = Limit
               /\ failures[r] <= failed[r]
    BY <2>1, <2>2, <2>5 DEF RowOK
  <2>6. ASSUME failed[r] # None, NEW v \in Writers, job'[v].row = r
        PROVE  /\ job'[v].phase \in {"failed", "again"} => failures[r] < failed[r]
               /\ job'[v].read # None => job'[v].read = failures[r]
    <3>1. job[v].row = r /\ job'[v].phase = job[v].phase
      BY <2>2, <2>6
    <3>2. /\ job[v].phase \in {"failed", "again"} => failures[r] < failed[r]
          /\ job[v].read # None => job[v].read = failures[r]
      BY <2>1, <2>6, <3>1 DEF RowOK
    <3> QED
      BY <2>3, <3>1, <3>2
  <2> QED
    BY <2>4, <2>5, <2>6 DEF RowOK
<1>8. ASSUME NEW d \in Rows, d # r PROVE RowOK(d)'
  <2>1. RowOK(d)
    BY DEF IInv, RowsOK
  <2> QED
    BY <1>1, <1>3, <1>4, <1>6, <1>8, <2>1, RowFrame DEF row
<1> QED
  BY <1>5, <1>7, <1>8 DEF RowsOK

\* A recorded outcome: the row is loose afterwards, or free, or left as it was counted.
LEMMA SafeWritten ==
    ASSUME IInv, NEW u \in Writers, NEW next \in {NoJob} \cup GoesOn(u), Written(u, next),
           UNCHANGED batch
    PROVE  RowsOK' /\ LoopOK'
<1>1. TypeOK /\ LoopOK /\ job[u] \in JobType
  BY DEF IInv, TypeOK
<1>2. job[u].phase \in {"failed", "again", "succeeded"}
  BY <1>1 DEF Written, FailureWritten, SuccessWritten, TypeOK
<1>3. PICK r \in Rows : r = job[u].row
  BY <1>1, <1>2, NoneIsNew DEF TypeOK, JobType, Phases
<1>4. job'[u] = next /\ \A v \in Writers \ {u} : job'[v] = job[v]
  BY <1>1 DEF Written, TypeOK
<1>5. next = NoJob \/ next.row = r
  BY <1>1, <1>2, <1>3, NoneIsNew, GoesOnType
<1>6. Rescheduled(r)
  BY <1>3 DEF Written, FailureWritten, SuccessWritten
<1>7. LoopOK'
  <2>1. job[u] # NoJob
    BY <1>1, <1>3, NoJobType, NoneIsNew
  <2> QED
    BY <1>1, <1>4, <2>1 DEF LoopOK
<1>8. RowOK(r)'
  <2>1. RowOK(r)
    BY DEF IInv, RowsOK
  <2>2. CASE At(r) # {u} \/ next # NoJob \/ r \in batch
    <3>1. Loosened(r)
      BY <1>3, <2>2 DEF Written
    <3>2. failed'[r] = None
      BY <1>1, <3>1 DEF Loosened, TypeOK
    <3> QED
      BY <3>2, RowLoose
  <2>3. CASE At(r) = {u} /\ next = NoJob /\ r \notin batch
    <3>1. \A v \in Writers : job'[v].row # r
      BY <1>4, <2>3, NoJobType, NoneIsNew DEF At
    <3>3. CASE SuccessWritten(u)
      <4>1. failures'[r] = 0 /\ r \notin disabled' /\ failed'[r] = 0
        BY <1>1, <1>3, <2>3, <3>3 DEF Written, SuccessWritten, TypeOK
      <4> QED
        BY <2>3, <3>1, <4>1, RowFree, BoundsAssumption
    <3>4. CASE FailureWritten(u)
      <4>1. job[u].phase # "succeeded" /\ job[u].phase \in {"failed", "again"}
        BY <1>1, <1>2, <3>4 DEF FailureWritten, TypeOK
      <4>2. failed' = failed
        BY <1>3, <2>3, <4>1 DEF Written
      <4>3. job[u].read \in 0..Limit
        BY <1>1, <3>4 DEF FailureWritten, JobType
      <4>4. /\ failures'[r] = OneMore(job[u].read)
            /\ r \in disabled' <=> OneMore(job[u].read) >= Limit
        BY <1>1, <1>3, <3>4 DEF FailureWritten, TypeOK
      <4>5. r \in disabled' <=> failures'[r] = Limit
        BY <4>3, <4>4, OneMoreType, BoundsAssumption
      <4>6. failed[r] # None => failures'[r] <= failed'[r]
        <5>1. failed[r] # None => job[u].read = failures[r] /\ failures[r] < failed[r]
          BY <1>3, <2>1, <3>4, <4>1 DEF RowOK, FailureWritten
        <5>2. failed[r] # None => failed[r] \in 0..Limit
          BY <1>1 DEF TypeOK
        <5> QED
          BY <4>2, <4>3, <4>4, <5>1, <5>2, BoundsAssumption DEF OneMore
      <4> QED
        BY <2>3, <3>1, <4>2, <4>5, <4>6, RowFree
    <3> QED
      BY <3>3, <3>4 DEF Written
  <2> QED
    BY <2>2, <2>3
<1>9. ASSUME NEW d \in Rows, d # r PROVE RowOK(d)'
  <2>1. RowOK(d) /\ failed'[d] = failed[d]
    BY <1>1, <1>3, <1>9 DEF IInv, RowsOK, Written, Loosened, TypeOK
  <2>2. /\ failures'[d] = failures[d] /\ (d \in disabled' <=> d \in disabled)
        /\ d \in claimed => d \in claimed'
    BY <1>1, <1>3, <1>6, <1>9
    DEF Written, FailureWritten, SuccessWritten, Rescheduled, TypeOK
  <2>3. \A v \in Writers : job'[v].row = d => job'[v] = job[v]
    BY <1>4, <1>5, <1>9, NoJobType, NoneIsNew
  <2> QED
    BY <1>1, <2>1, <2>2, <2>3, RowFrame
<1> QED
  BY <1>7, <1>8, <1>9 DEF RowsOK

LEMMA SafeWriteFails == ASSUME IInv, NEW u \in Writers, WriteFails(u) PROVE RowsOK' /\ LoopOK'
<1>1. TypeOK /\ LoopOK /\ job[u] \in JobType
  BY DEF IInv, TypeOK
<1>2. PICK r \in Rows : r = job[u].row
  BY <1>1, NoneIsNew DEF WriteFails, TypeOK, JobType, Phases
<1>3. PICK next \in GoesOn(u) : job' = [job EXCEPT ![u] = next]
  BY DEF WriteFails
<1>4. /\ next = NoJob \/ (next.row = r /\ next.phase \in {"again", "sleeping"})
      /\ next.read = None
      /\ next.phase = "again" => job[u].phase = "failed"
  BY <1>1, <1>2, NoneIsNew, GoesOnType DEF WriteFails
<1>5. job'[u] = next /\ \A v \in Writers \ {u} : job'[v] = job[v]
  BY <1>1, <1>3 DEF TypeOK
<1>6. UNCHANGED <<row, batch, failed>>
  BY DEF WriteFails
<1>7. LoopOK'
  <2>1. job[u] # NoJob
    BY <1>1, <1>2, NoJobType, NoneIsNew
  <2> QED
    BY <1>1, <1>5, <1>6, <2>1 DEF LoopOK
<1>8. ASSUME NEW d \in Rows PROVE RowOK(d)'
  <2>1. RowOK(d) /\ d # None
    BY NoneIsNew DEF IInv, RowsOK
  <2> QED
    BY <1>1, <1>2, <1>4, <1>5, <1>6, <2>1, NoJobType, RowFrame DEF row
<1> QED
  BY <1>7, <1>8 DEF RowsOK

-----------------------------------------------------------------------------
\* Time, credentials, restarts.
LEMMA SafeClaimAges == ASSUME IInv, NEW r \in Rows, ClaimAges(r) PROVE RowsOK' /\ LoopOK'
<1>1. TypeOK /\ LoopOK'
  BY DEF IInv, LoopOK, ClaimAges
<1>2. RowOK(r)'
  <2>1. RowOK(r)
    BY DEF IInv, RowsOK
  <2>2. CASE Busy(r)
    BY <1>1, <2>2, RowLoose DEF ClaimAges, Loosened, TypeOK
  <2>3. CASE ~Busy(r)
    <3>1. r \notin batch /\ \A u \in Writers : job[u].row # r
      BY <2>3 DEF Busy, At
    <3> QED
      BY <2>1, <2>3, <3>1 DEF ClaimAges, RowOK
  <2> QED
    BY <2>2, <2>3
<1>3. ASSUME NEW d \in Rows, d # r PROVE RowOK(d)'
  <2>1. RowOK(d) /\ failed'[d] = failed[d]
    BY <1>1, <1>3 DEF IInv, RowsOK, ClaimAges, Loosened, TypeOK
  <2> QED
    BY <1>1, <1>3, <2>1, RowFrame DEF ClaimAges
<1> QED
  BY <1>1, <1>2, <1>3 DEF RowsOK

LEMMA SafeReArm == ASSUME IInv, NEW r \in Rows, ReArm(r) PROVE RowsOK' /\ LoopOK'
<1>1. TypeOK /\ LoopOK'
  BY DEF IInv, LoopOK, ReArm
<1>2. /\ failures'[r] = 0 /\ r \notin disabled' /\ job' = job /\ batch' = batch
      /\ failed'[r] = IF Busy(r) THEN None ELSE 0
  BY <1>1 DEF ReArm, TypeOK
<1>3. RowOK(r)'
  <2>1. CASE Busy(r)
    BY <1>2, <2>1, RowLoose
  <2>2. CASE ~Busy(r)
    <3>1. r \notin batch' /\ \A u \in Writers : job'[u].row # r
      BY <1>2, <2>2 DEF Busy, At
    <3> QED
      BY <1>2, <2>2, <3>1, BoundsAssumption DEF RowOK
  <2> QED
    BY <2>1, <2>2
<1>4. ASSUME NEW d \in Rows, d # r PROVE RowOK(d)'
  <2>1. RowOK(d) /\ failed'[d] = failed[d] /\ failures'[d] = failures[d]
    BY <1>1, <1>4 DEF IInv, RowsOK, ReArm, TypeOK
  <2> QED
    BY <1>1, <1>4, <2>1, RowFrame DEF ReArm
<1> QED
  BY <1>1, <1>3, <1>4 DEF RowsOK

LEMMA SafeRestart == ASSUME IInv, Restart PROVE RowsOK' /\ LoopOK'
<1>1. ASSUME NEW d \in Rows PROVE RowOK(d)'
  <2>1. RowOK(d) /\ d # None
    BY NoneIsNew DEF IInv, RowsOK
  <2>2. d \notin batch' /\ \A u \in Writers : job'[u].row # d
    BY <2>1, NoJobType DEF Restart
  <2> QED
    BY <2>1, <2>2 DEF Restart, RowOK, row
<1> QED
  BY <1>1 DEF Restart, RowsOK, LoopOK

-----------------------------------------------------------------------------
LEMMA IInit == Init => IInv
<1> SUFFICES ASSUME Init PROVE IInv
  OBVIOUS
<1>1. TypeOK
  BY TypeInit
<1>2. ASSUME NEW r \in Rows PROVE RowOK(r)
  <2>1. \A u \in Writers : job[u].row # r
    BY <1>1, NoJobType, NoneIsNew DEF Init
  <2> QED
    BY <2>1, BoundsAssumption DEF Init, RowOK
<1> QED
  BY <1>1, <1>2 DEF Init, IInv, RowsOK, LoopOK

LEMMA IStep == ASSUME IInv, [Next]_vars PROVE IInv'
<1>1. TypeOK'
  BY TypeStep DEF IInv
<1> SUFFICES RowsOK' /\ LoopOK'
  BY <1>1 DEF IInv
<1>2. CASE Cycle
  BY <1>2, SafeClaims, SafeEnqueue, SafeRefused DEF Cycle
<1>3. ASSUME NEW u \in Writers, Update(u) PROVE RowsOK' /\ LoopOK'
  <2>1. CASE Writes(u) \/ AnswerLost(u)
    BY <2>1, SafeWritten DEF Writes, AnswerLost
  <2> QED
    BY <1>3, <2>1, SafeReadFailures, SafeWriteFails DEF Update
<1>4. ASSUME NEW j \in JobIds, Run(j) PROVE RowsOK' /\ LoopOK'
  BY <1>4, SafeRun
<1>5. ASSUME NEW r \in Rows, BecomesDue(r) PROVE RowsOK' /\ LoopOK'
  BY <1>5 DEF IInv, RowsOK, RowOK, LoopOK, BecomesDue
<1>6. CASE CircuitOpens \/ CircuitCools \/ UNCHANGED vars
  BY <1>6 DEF IInv, RowsOK, RowOK, LoopOK, CircuitOpens, CircuitCools, vars, row
<1> QED
  BY <1>2, <1>3, <1>4, <1>5, <1>6, SafeClaimAges, SafeReArm, SafeRestart DEF Next

\* So the invariant of the rows and their writers holds at all times.
LEMMA Invariance == Spec => []IInv
BY IInit, IStep, PTL DEF Spec

\* A row has one job at a time, unless its claim was gone while a writer was at it.
THEOREM NoDuplicates == Spec => []OneJobPerRow
<1>1. ASSUME IInv PROVE OneJobPerRow
  <2> SUFFICES ASSUME NEW r \in Rows, failed[r] # None PROVE ~(Cardinality(JobsOf(r)) > 1)
    BY DEF OneJobPerRow
  <2>1. \A u, v \in JobsOf(r) : u = v
    BY <1>1 DEF IInv, RowsOK, RowOK, JobsOf, At
  <2>2. JobsOf(r) = {} \/ \E u : JobsOf(r) = {u}
    BY <2>1
  <2>3. CASE JobsOf(r) = {}
    BY <2>3, FS_EmptySet
  <2>4. ASSUME NEW u, JobsOf(r) = {u} PROVE ~(Cardinality(JobsOf(r)) > 1)
    BY <2>4, FS_Singleton
  <2> QED
    BY <2>2, <2>3, <2>4
<1> QED
  BY <1>1, Invariance, PTL

\* A row is not disabled after fewer failures than the limit, unless two writers met.
THEOREM DisabledJustly == Spec => []DisabledAfterFailures
<1>1. ASSUME IInv PROVE DisabledAfterFailures
  BY <1>1 DEF IInv, TypeOK, RowsOK, RowOK, DisabledAfterFailures
<1> QED
  BY <1>1, Invariance, PTL

-----------------------------------------------------------------------------
(* Student: the syncs that the scheduler queues, and what they meet.           *)
(*                                                                         *)
(* The argument: every page that a sync of the present user carries shows the   *)
(* whole backlog, so that the first page that is stored brings all of it that   *)
(* has a token; a sync that found rows when it read its page therefore finds    *)
(* nothing of the backlog to announce.  A row has the token of another notice    *)
(* only beside a guessed body, which keeps it from being opened; so a token that  *)
(* is followed leads to the notice itself, and a place that told a number gives   *)
(* the row that number.  While schedules are missing some registration is still   *)
(* making them, unless one failed.                                             *)

Accounts == 1 .. MaxUsers
Pages == [top : 0 .. MaxNotices, edition : [Notices -> 1 .. MaxEdits + 1]]
Fetched == {f \in UNION {[S -> Editions] : S \in SUBSET Notices} :
                \A n \in DOMAIN f : f[n][1] = n}
RowType == [header : Editions, token : Tokens, guessed : BOOLEAN,
            body : Editions \union {NoBody}]

\* What a worker can be doing.
Asking == [job |-> "register", at |-> "commit"]
Listing == [job : {"sync"}, at : {"list"}, uid : Accounts, quiet : BOOLEAN]
Detailing == [job : {"sync"}, at : {"details"}, uid : Accounts, quiet : BOOLEAN,
              first : BOOLEAN, list : Pages]
Saving == [job : {"sync"}, at : {"save"}, uid : Accounts, quiet : BOOLEAN,
           first : BOOLEAN, list : Pages, bodies : Fetched]
Marking == [job : {"marks"}, at : {"fetch"}, uid : Accounts]
Opening == [job : {"open"}, at : {"fetch"}, uid : Accounts, id : Ids,
            token : Tokens]
Storing == [job : {"open"}, at : {"store"}, uid : Accounts, id : Ids,
            token : Tokens, real : 0 .. MaxNotices, body : Editions]
Registering == [job : {"register"}, uid : Accounts,
                at : {"schedule attendance", "schedule inbox", "enable", "enqueue"}]
Synced == Detailing \cup Saving
Bound == Listing \cup Synced \cup Marking \cup Opening \cup Storing \cup Registering
Tasks == {Idle, Asking} \cup Bound

WorkOK == work \in [Workers -> Tasks]

\* A job is for a user that exists or existed; ids are never given out twice.
UsersKnown == \A w \in Workers : work[w] \in Bound => work[w].uid <= uids

AccountOK ==
    /\ user = 0 => DOMAIN inbox = {} /\ told = {} /\ ~flooded
    /\ user # 0 => snapshot
    /\ backlog \in 0 .. top
    /\ snapshot \in BOOLEAN /\ flooded \in BOOLEAN /\ broken \in BOOLEAN

\* The token of a message is the row's own, and a made-up id has one only if it does
\* not decode; a place in the list goes with a made-up id.
OwnToken(id, token) ==
    /\ token[1] = "place" => token[2] <= top /\ id[2] # 0
    /\ token[1] = "message" => token[2] = id[1] /\ (id[2] = 0 \/ id[1] \in Opaque)

\* What BodyOfItsId says of a row.
OwnBody(id, kept) ==
    kept.body # NoBody =>
        \/ id[2] = 0 /\ kept.body[1] = id[1]
        \/ id[2] # 0 /\ id[1] \in Opaque /\ kept.body[1] = id[1]
        \/ id[2] # 0 /\ kept.guessed

\* A row that is no guess has a token of its own; a guess has a body and a made-up id.
KeptRow(id, kept) ==
    /\ kept.guessed => kept.body # NoBody /\ id[2] # 0
    /\ kept.token[1] = "place" => kept.token[2] <= top /\ id[2] # 0
    /\ ~kept.guessed => OwnToken(id, kept.token)
    /\ OwnBody(id, kept)
InboxOK == \A id \in DOMAIN inbox : KeptRow(id, inbox[id])

\* The row that a worker opens, which may have gone meanwhile, was no guess.
OpenedRow(t) ==
    /\ OwnToken(t.id, t.token)
    /\ t.at = "store" => t.real \in {0, t.body[1]}
    /\ (t.at = "store" /\ t.token[1] = "message") => t.real = 0 /\ t.body[1] = t.id[1]
OpensOK == \A w \in Workers : work[w].job = "open" => OpenedRow(work[w])

\* The backlog that has a number is stored with the first page that is stored.
BacklogStored ==
    DOMAIN inbox # {} =>
        \A n \in (1 .. backlog) \ Opaque :
            top - n + 1 <= Dropdown => <<n, 0>> \in DOMAIN inbox

\* A page read for the present user shows the backlog, and one that was read when
\* there were rows shows nothing of the backlog with a number that is not stored.
SyncedPage(t) ==
    /\ t.list.top <= top
    /\ user = t.uid => backlog <= t.list.top
    /\ (user = t.uid /\ ~t.first) =>
           \A n \in (1 .. backlog) \ Opaque :
               Direct(t.list, n) => <<n, 0>> \in DOMAIN inbox
PagesOK == \A w \in Workers : work[w] \in Synced => SyncedPage(work[w])

\* Schedules are missing while a registration makes them, or after one that failed.
HalvesOK ==
    /\ (user # 0 /\ ~broken /\ schedules # Modules) => \E w \in Workers : Scheduling(w)
    /\ \A w \in Workers : (Doing(w, "register", "schedule inbox") /\ Mine(w)) =>
           "attendance" \in schedules

StudentInv ==
    /\ StudentTypeOK /\ WorkOK /\ UsersKnown /\ AccountOK
    /\ InboxOK /\ OpensOK /\ BacklogStored /\ PagesOK /\ HalvesOK /\ BacklogIsSilent

LEMMA StudentConstants ==
    /\ Dropdown \in Nat /\ MaxNotices \in Nat /\ MaxEdits \in Nat /\ MaxUsers \in Nat
    /\ Standing \in 0 .. MaxNotices /\ Opaque \subseteq Notices /\ NoBody \notin Editions
<1>1. NoBody \notin Editions
  BY StudentBounds DEF Editions, Notices
<1> QED BY <1>1, StudentBounds DEF Notices

\* What distinguishes the tasks.
LEMMA TaskKinds ==
    ASSUME NEW t \in Tasks
    PROVE  /\ (t.job = "sync" /\ t.at = "list") => t \in Listing
           /\ (t.job = "sync" /\ t.at = "details") => t \in Detailing
           /\ (t.job = "sync" /\ t.at = "save") => t \in Saving
           /\ t.job = "marks" => t \in Marking
           /\ (t.job = "open" /\ t.at = "fetch") => t \in Opening
           /\ (t.job = "open" /\ t.at = "store") => t \in Storing
           /\ (t.job = "register" /\ t.at # "commit") => t \in Registering
           /\ t \in Synced <=> (t.job = "sync" /\ t.at \in {"details", "save"})
           /\ t \in Bound <=> (t.job # "idle" /\ ~(t.job = "register" /\ t.at = "commit"))
           /\ t.job = "idle" <=> t = Idle
           /\ t \in Bound => t.uid \in Accounts
<1>1. /\ t = Idle => t.job = "idle"
      /\ t = Asking => t.job = "register" /\ t.at = "commit"
      /\ t \in Listing => t.job = "sync" /\ t.at = "list" /\ t.uid \in Accounts
      /\ t \in Marking => t.job = "marks" /\ t.uid \in Accounts
  BY DEF Idle, Asking, Listing, Marking
<1>2. /\ t \in Detailing => t.job = "sync" /\ t.at = "details" /\ t.uid \in Accounts
      /\ t \in Saving => t.job = "sync" /\ t.at = "save" /\ t.uid \in Accounts
  BY DEF Detailing, Saving
<1>3. /\ t \in Opening => t.job = "open" /\ t.at = "fetch" /\ t.uid \in Accounts
      /\ t \in Storing => t.job = "open" /\ t.at = "store" /\ t.uid \in Accounts
  BY DEF Opening, Storing
<1>4. t \in Registering => t.job = "register" /\ t.at # "commit" /\ t.uid \in Accounts
  BY DEF Registering
<1> QED BY <1>1, <1>2, <1>3, <1>4 DEF Tasks, Bound, Synced

LEMMA IdleTask == Idle \in Tasks /\ Idle \notin Bound /\ Idle \notin Synced /\ Idle.job = "idle"
<1>1. Idle \in Tasks /\ Idle.job = "idle"
  BY DEF Tasks, Idle
<1> QED BY <1>1, TaskKinds

LEMMA BecomesTask ==
    ASSUME WorkOK, NEW w \in Workers, NEW t \in Tasks, Becomes(w, t)
    PROVE  WorkOK' /\ work'[w] = t /\ \A v \in Workers \ {w} : work'[v] = work[v]
BY DEF WorkOK, Becomes

\* A worker that goes on to a task in order, while the rows with the portal's ids stay.
LEMMA GoesOnTask ==
    ASSUME StudentInv, NEW w \in Workers, NEW t \in Tasks, Becomes(w, t),
           top' = top, user' = user, uids' = uids, backlog' = backlog,
           \A n \in Notices : <<n, 0>> \in DOMAIN inbox => <<n, 0>> \in DOMAIN inbox',
           t \in Bound => t.uid <= uids,
           t.job = "open" => OpenedRow(t),
           t \in Synced => SyncedPage(t)
    PROVE  WorkOK' /\ UsersKnown' /\ OpensOK' /\ PagesOK'
<1>1. WorkOK' /\ work'[w] = t /\ \A v \in Workers \ {w} : work'[v] = work[v]
  BY BecomesTask DEF StudentInv
<1>2. UsersKnown'
  BY <1>1 DEF UsersKnown, StudentInv
<1>3. OpensOK'
  <2> SUFFICES ASSUME NEW v \in Workers, work'[v].job = "open"
               PROVE  OpenedRow(work[v])' 
    BY DEF OpensOK
  <2>1. OpenedRow(work'[v])
    BY <1>1 DEF StudentInv, OpensOK
  <2> QED BY <2>1 DEF OpenedRow, OwnToken
<1>4. PagesOK'
  <2> SUFFICES ASSUME NEW v \in Workers, work'[v] \in Synced
               PROVE  SyncedPage(work[v])'
    BY DEF PagesOK
  <2>1. SyncedPage(work'[v])
    BY <1>1 DEF StudentInv, PagesOK
  <2>2. 1 .. backlog \subseteq Notices
    BY StudentConstants DEF StudentInv, AccountOK, StudentTypeOK, Notices
  <2> QED BY <2>1, <2>2 DEF SyncedPage, Direct, Place
<1> QED BY <1>1, <1>2, <1>3, <1>4

\* A worker that neither makes a schedule nor begins to leaves the rest alone.
LEMMA HalvesKept ==
    ASSUME StudentInv, NEW w \in Workers, NEW t \in Tasks, Becomes(w, t),
           user' = user, schedules' = schedules, broken' = broken,
           ~Scheduling(w), ~(t.job = "register" /\ t.at = "schedule inbox")
    PROVE  HalvesOK'
<1>1. work'[w] = t /\ \A v \in Workers \ {w} : work'[v] = work[v]
  BY BecomesTask DEF StudentInv
<1>2. \A v \in Workers : Scheduling(v) => Scheduling(v)'
  BY <1>1 DEF Scheduling
<1> QED BY <1>1, <1>2 DEF StudentInv, HalvesOK, Doing, Mine

Kept == <<portal, user, uids, schedules, inbox, snapshot, outbox, history>>

LEMMA RestKept ==
    ASSUME StudentInv, UNCHANGED Kept, valid' \in BOOLEAN
    PROVE  /\ StudentTypeOK' /\ AccountOK' /\ InboxOK' /\ BacklogStored'
           /\ BacklogIsSilent'
<1> USE DEF Kept, portal, outbox, history, StudentInv
<1>1. StudentTypeOK'
  BY DEF StudentTypeOK
<1>2. AccountOK' /\ BacklogStored' /\ BacklogIsSilent'
  BY DEF AccountOK, BacklogStored, BacklogIsSilent
<1>3. InboxOK'
  BY DEF InboxOK, KeptRow, OwnToken, OwnBody
<1> QED BY <1>1, <1>2, <1>3

\* The step of a worker that changes nothing but its task.
LEMMA Retasked ==
    ASSUME StudentInv, NEW w \in Workers, NEW t \in Tasks, Becomes(w, t),
           UNCHANGED Kept, valid' \in BOOLEAN,
           t \in Bound => t.uid <= uids,
           t.job = "open" => OpenedRow(t),
           t \in Synced => SyncedPage(t),
           ~Scheduling(w), ~(t.job = "register" /\ t.at = "schedule inbox")
    PROVE  StudentInv'
<1>1. WorkOK' /\ UsersKnown' /\ OpensOK' /\ PagesOK'
  BY GoesOnTask DEF Kept, portal, history
<1>2. HalvesOK'
  BY HalvesKept DEF Kept, history
<1> QED BY <1>1, <1>2, RestKept DEF StudentInv

LEMMA InitStudent == StudentInit => StudentInv
<1> SUFFICES ASSUME StudentInit PROVE StudentInv
  OBVIOUS
<1>1. DOMAIN inbox = {}
  BY DEF StudentInit
<1>2. top \in 0 .. MaxNotices /\ edition \in [Notices -> 1 .. MaxEdits + 1]
  BY StudentConstants DEF StudentInit
<1>3. /\ user = 0 /\ uids = 0 /\ valid = FALSE /\ schedules = {} /\ told = {}
      /\ snapshot = FALSE /\ flooded = FALSE /\ broken = FALSE /\ backlog = 0
      /\ work = [w \in Workers |-> Idle]
  BY DEF StudentInit
<1>4. StudentTypeOK
  <2>1. DOMAIN inbox \subseteq Ids /\ schedules \subseteq Modules
    BY <1>1, <1>3
  <2>2. user \in 0 .. uids /\ uids \in 0 .. MaxUsers
    BY <1>3, StudentConstants
  <2>3. valid \in BOOLEAN /\ \A id \in DOMAIN inbox : FALSE
    BY <1>1, <1>3
  <2> QED BY <1>2, <2>1, <2>2, <2>3 DEF StudentTypeOK
<1>5. WorkOK /\ UsersKnown /\ OpensOK /\ PagesOK
  BY <1>3, IdleTask DEF WorkOK, UsersKnown, OpensOK, PagesOK
<1>6. AccountOK /\ InboxOK /\ BacklogStored /\ BacklogIsSilent
  <2>1. AccountOK
    <3>1. backlog \in 0 .. top
      BY <1>2, <1>3
    <3>2. snapshot \in BOOLEAN /\ flooded \in BOOLEAN /\ broken \in BOOLEAN /\ ~flooded
      BY <1>3
    <3> QED BY <1>1, <1>3, <3>1, <3>2 DEF AccountOK
  <2>2. InboxOK /\ BacklogStored /\ BacklogIsSilent
    BY <1>1, <1>3 DEF InboxOK, BacklogStored, BacklogIsSilent
  <2> QED BY <2>1, <2>2
<1>7. HalvesOK
  BY <1>3 DEF HalvesOK, Doing, Idle
<1> QED BY <1>4, <1>5, <1>6, <1>7 DEF StudentInv

\* An edit within the bound leaves an edition in range.
LEMMA EditRoom ==
    ASSUME edition \in [Notices -> 1 .. MaxEdits + 1], NEW n \in Notices,
           Edits < MaxEdits
    PROVE  edition[n] + 1 \in 1 .. MaxEdits + 1
<1> DEFINE S == {m \in Notices \X (1 .. MaxEdits) : m[2] < edition[m[1]]}
           D == {n} \X (1 .. MaxEdits)
<1> USE StudentConstants
<1> SUFFICES ASSUME edition[n] = MaxEdits + 1 PROVE FALSE
  OBVIOUS
<1>1. IsFiniteSet(Notices) /\ IsFiniteSet(1 .. MaxEdits) /\ Cardinality(1 .. MaxEdits) = MaxEdits
  <2>1. IsFiniteSet(1 .. MaxNotices)
    BY FS_Interval
  <2>2. IsFiniteSet(1 .. MaxEdits) /\ Cardinality(1 .. MaxEdits) = IF 1 > MaxEdits THEN 0 ELSE MaxEdits - 1 + 1
    BY FS_Interval
  <2> QED BY <2>1, <2>2 DEF Notices
<1>2. IsFiniteSet(S)
  BY <1>1, FS_Product, FS_Subset
<1>3. D \subseteq S
  OBVIOUS
<1>4. Cardinality(D) = MaxEdits
  <2>1. IsFiniteSet({n}) /\ Cardinality({n}) = 1
    BY FS_Singleton
  <2>2. Cardinality(D) = Cardinality({n}) * Cardinality(1 .. MaxEdits)
    BY <1>1, <2>1, FS_Product
  <2>3. 1 * MaxEdits = MaxEdits
    OBVIOUS
  <2> HIDE DEF D
  <2> QED BY <1>1, <2>1, <2>2, <2>3
<1>5. Cardinality(D) <= Cardinality(S)
  BY <1>2, <1>3, FS_Subset
<1>6. Cardinality(S) \in Nat
  BY <1>2, FS_CardinalityType
<1>7. Edits = Cardinality(S)
  BY DEF Edits
<1> QED BY <1>4, <1>5, <1>6, <1>7

LEMMA EditsCounted == ASSUME edition \in [Notices -> 1 .. MaxEdits + 1] PROVE Edits \in Nat
<1> DEFINE S == {m \in Notices \X (1 .. MaxEdits) : m[2] < edition[m[1]]}
<1>1. IsFiniteSet(Notices \X (1 .. MaxEdits))
  <2>1. IsFiniteSet(1 .. MaxNotices) /\ IsFiniteSet(1 .. MaxEdits)
    BY StudentConstants, FS_Interval
  <2> QED BY <2>1, FS_Product DEF Notices
<1>2. IsFiniteSet(S)
  BY <1>1, FS_Subset
<1>3. Cardinality(S) \in Nat
  BY <1>2, FS_CardinalityType
<1> QED BY <1>3 DEF Edits

\* Notices appear and are edited: what was on the portal stays on it.
LEMMA EnvironmentKeeps == ASSUME StudentInv, Environment PROVE StudentInv'
<1> USE StudentConstants DEF StudentInv, account, outbox, history
<1>1. /\ top' \in top .. MaxNotices
      /\ edition' \in [Notices -> 1 .. MaxEdits + 1]
      /\ UNCHANGED <<account, inbox, snapshot, outbox, onboarding, work, history>>
  <2>1. CASE Publish
    <3>1. top \in 0 .. MaxNotices /\ edition \in [Notices -> 1 .. MaxEdits + 1]
      BY DEF StudentTypeOK
    <3>2. Edits \in Nat
      BY <3>1, EditsCounted
    <3>3. top + Edits < MaxNotices /\ top' = top + 1 /\ edition' = edition
      BY <2>1 DEF Publish
    <3>4. top' \in top .. MaxNotices
      <4> HIDE DEF StudentInv
      <4> QED BY <3>1, <3>2, <3>3
    <3> QED BY <2>1, <3>1, <3>4, <3>3 DEF Publish
  <2>2. ASSUME NEW n \in Notices, Edit(n)
        PROVE  edition' \in [Notices -> 1 .. MaxEdits + 1]
    <3>1. edition \in [Notices -> 1 .. MaxEdits + 1] /\ edition' = [edition EXCEPT ![n] = @ + 1]
      BY <2>2 DEF StudentTypeOK, Edit
    <3>2. edition[n] + 1 \in 1 .. MaxEdits + 1
      BY <2>2, <3>1, EditRoom DEF Edit
    <3> QED BY <3>1, <3>2
  <2>3. ASSUME NEW n \in Notices, Edit(n)
        PROVE  UNCHANGED <<top, account, inbox, snapshot, outbox, onboarding, work, history>>
    BY <2>3 DEF Edit
  <2>4. top \in 0 .. MaxNotices /\ edition \in [Notices -> 1 .. MaxEdits + 1]
    BY DEF StudentTypeOK
  <2>5. ASSUME NEW n \in Notices, Edit(n)
        PROVE  top' \in top .. MaxNotices
    BY <2>3, <2>4, <2>5
  <2> QED BY <2>1, <2>2, <2>3, <2>5 DEF Environment
<1>2. top \in 0 .. MaxNotices
  BY DEF StudentTypeOK
<1>3. StudentTypeOK'
  BY <1>1, <1>2 DEF StudentTypeOK
<1>4. AccountOK' /\ BacklogIsSilent'
  BY <1>1, <1>2 DEF AccountOK, BacklogIsSilent
<1>5. InboxOK'
  <2> SUFFICES ASSUME NEW id \in DOMAIN inbox, KeptRow(id, inbox[id])
               PROVE  KeptRow(id, inbox[id])'
    BY <1>1 DEF InboxOK
  <2>1. inbox[id].token \in Tokens /\ inbox' = inbox
    BY <1>1 DEF StudentTypeOK
  <2> QED BY <1>1, <1>2, <2>1 DEF KeptRow, OwnToken, OwnBody, Tokens, Notices
<1>6. WorkOK' /\ UsersKnown' /\ HalvesOK'
  BY <1>1 DEF WorkOK, UsersKnown, HalvesOK, Scheduling, Doing, Mine
<1>7. OpensOK'
  <2> SUFFICES ASSUME NEW v \in Workers, work[v].job = "open", OpenedRow(work[v])
               PROVE  OpenedRow(work[v])'
    BY <1>1 DEF OpensOK
  <2>1. work[v].token \in Tokens
    <3>1. work[v] \in Opening \cup Storing
      BY TaskKinds DEF WorkOK, Tasks, Bound, Listing, Synced, Detailing, Saving, Marking,
                       Registering, Idle, Asking
    <3> QED BY <3>1 DEF Opening, Storing
  <2> QED BY <1>1, <1>2, <2>1 DEF OpenedRow, OwnToken, Tokens, Notices
<1>8. PagesOK'
  <2> SUFFICES ASSUME NEW v \in Workers, work[v] \in Synced, SyncedPage(work[v])
               PROVE  SyncedPage(work[v])'
    BY <1>1 DEF PagesOK
  <2>1. work[v].list.top \in Nat
    BY DEF Synced, Detailing, Saving, Pages
  <2> QED BY <1>1, <1>2, <2>1 DEF SyncedPage, Direct, Place
<1>9. BacklogStored'
  <2>1. backlog \in Nat /\ top' \in Nat /\ top <= top' /\ inbox' = inbox /\ backlog' = backlog
    BY <1>1, <1>2 DEF AccountOK
  <2>2. \A n \in (1 .. backlog) \ Opaque :
            top' - n + 1 <= Dropdown => top - n + 1 <= Dropdown
    <3>1. \A s, t, n \in Int : s <= t /\ t - n + 1 <= Dropdown => s - n + 1 <= Dropdown
      <4> HIDE DEF StudentInv
      <4> QED OBVIOUS
    <3>2. top \in Int /\ top' \in Int /\ top <= top' /\ \A n \in (1 .. backlog) \ Opaque : n \in Int
      <4> HIDE DEF StudentInv
      <4> QED BY <1>2, <2>1
    <3> HIDE DEF StudentInv
    <3> QED BY <3>1, <3>2
  <2> HIDE DEF StudentInv
  <2>3. BacklogStored
    BY DEF StudentInv
  <2> QED BY <2>1, <2>2, <2>3 DEF BacklogStored
<1> QED BY <1>3, <1>4, <1>5, <1>6, <1>7, <1>8, <1>9

\* What is listed, what comes with a token, and what a row gets from the list.
LEMMA PageProperties ==
    ASSUME NEW list \in Pages, NEW n \in Listed(list)
    PROVE  /\ n \in Notices /\ list.top \in 0 .. MaxNotices
           /\ PortalId(list, n) \in Ids /\ PortalId(list, n)[1] = n
           /\ PortalId(list, n)[2] = 0 <=> (Direct(list, n) /\ n \notin Opaque)
           /\ Token(list, n) \in Tokens
           /\ Direct(list, n) => Token(list, n) = <<"message", n>>
           /\ ~Direct(list, n) => Token(list, n)[1] = "place" /\ Token(list, n)[2] <= list.top
           /\ Header(list, n) \in Editions
<1> USE StudentConstants
<1>1. /\ list.top \in 0 .. MaxNotices /\ n \in 1 .. list.top
      /\ list.edition \in [Notices -> 1 .. MaxEdits + 1]
  BY DEF Pages, Listed
<1>2. n \in Notices /\ list.edition[n] \in 1 .. MaxEdits + 1
  BY <1>1 DEF Notices
<1>3. Place(list, n) \in 1 .. list.top
  BY <1>1 DEF Place
<1>4. /\ Token(list, n) \in Tokens
      /\ Direct(list, n) => Token(list, n) = <<"message", n>>
      /\ ~Direct(list, n) => Token(list, n)[1] = "place" /\ Token(list, n)[2] <= list.top
  <2>1. Place(list, n) \in Notices /\ Place(list, n) <= list.top
    BY <1>1, <1>3 DEF Notices
  <2> HIDE DEF Notices
  <2> QED BY <1>2, <2>1 DEF Token, Tokens
<1>5. Header(list, n) \in Editions
  BY <1>2 DEF Header, Editions
<1>6. /\ PortalId(list, n) \in Ids /\ PortalId(list, n)[1] = n
      /\ PortalId(list, n)[2] = 0 <=> (Direct(list, n) /\ n \notin Opaque)
  BY <1>2 DEF PortalId, Decodes, Ids
<1> QED BY <1>1, <1>2, <1>4, <1>5, <1>6

LEMMA WorkersTask ==
    ASSUME StudentInv, NEW w \in Workers
    PROVE  work[w] \in Tasks
BY DEF StudentInv, WorkOK

LEMMA UserRange ==
    ASSUME StudentInv
    PROVE  /\ user \in 0 .. uids /\ uids \in 0 .. MaxUsers
           /\ user # 0 => user \in Accounts
           /\ top \in 0 .. MaxNotices /\ backlog \in 0 .. top
           /\ edition \in [Notices -> 1 .. MaxEdits + 1]
BY StudentConstants DEF StudentInv, StudentTypeOK, AccountOK, Accounts

\* A job, a refresh, an opening or a dialogue begins.
LEMMA StartsKeep == ASSUME StudentInv, NEW w \in Workers, Starts(w) PROVE StudentInv'
<1> USE UserRange
<1>1. ASSUME NEW t \in Listing \cup Marking \cup Opening, Start(w, t), t.uid = user,
             t.job = "open" => OpenedRow(t)
      PROVE  StudentInv'
  <2>1. t \in Tasks /\ t \notin Synced /\ ~(t.job = "register" /\ t.at = "schedule inbox")
    <3>1. t \in Tasks
      BY DEF Tasks, Bound
    <3>2. t \in Listing => t.job = "sync" /\ t.at = "list"
      BY DEF Listing
    <3>3. t \in Marking \cup Opening => t.job # "sync" /\ t.job # "register"
      BY DEF Marking, Opening
    <3> QED BY <3>1, <3>2, <3>3, TaskKinds
  <2>2. ~Scheduling(w) /\ Becomes(w, t) /\ UNCHANGED Kept /\ valid' \in BOOLEAN
    <3>1. ~Scheduling(w)
      BY <1>1 DEF Start, Scheduling, Idle
    <3>2. valid' \in BOOLEAN
      BY <1>1 DEF Start, account, StudentInv, StudentTypeOK
    <3> QED BY <1>1, <3>1, <3>2 DEF Start, account, Kept
  <2>3. t.uid <= uids
    BY <1>1
  <2> QED BY <1>1, <2>1, <2>2, <2>3, Retasked
<1>2. ASSUME SyncInbox(w) \/ RefreshInbox(w) \/ Onboard(w)
      PROVE  StudentInv'
  <2>1. PICK q \in BOOLEAN : Start(w, Sync(q))
    BY <1>2 DEF SyncInbox, RefreshInbox, Onboard
  <2>2. Sync(q) \in Listing /\ Sync(q).uid = user /\ Sync(q).job = "sync"
    BY <2>1 DEF Sync, Listing, Start
  <2> QED BY <1>1, <2>1, <2>2
<1>3. ASSUME RefreshAttendance(w) PROVE StudentInv'
  <2>1. Start(w, Attendance)
    BY <1>3 DEF RefreshAttendance
  <2>2. Attendance \in Marking /\ Attendance.uid = user /\ Attendance.job = "marks"
    BY <2>1 DEF Attendance, Marking, Start
  <2> QED BY <1>1, <2>1, <2>2
<1>4. ASSUME NEW id \in DOMAIN inbox, OpenNotice(w, id) PROVE StudentInv'
  <2> DEFINE t == [job |-> "open", at |-> "fetch", uid |-> user, id |-> id,
                   token |-> inbox[id].token]
  <2>1. Start(w, t)
    BY <1>4 DEF OpenNotice
  <2>2. /\ id \in Ids /\ inbox[id].token \in Tokens /\ KeptRow(id, inbox[id])
        /\ inbox[id].body = NoBody
    BY <1>4 DEF StudentInv, StudentTypeOK, InboxOK, OpenNotice
  <2>3. t \in Opening /\ t.uid = user
    BY <2>1, <2>2 DEF Opening, Start
  <2>4. OpenedRow(t)
    BY <2>2 DEF OpenedRow, KeptRow, OwnToken
  <2> HIDE DEF t
  <2> QED BY <1>1, <2>1, <2>3, <2>4
<1>5. ASSUME Register(w) PROVE StudentInv'
  <2>1. Asking \in Tasks /\ Asking \notin Bound /\ Asking \notin Synced
    <3>1. Asking \in Tasks /\ Asking.job = "register" /\ Asking.at = "commit"
      BY DEF Tasks, Asking
    <3> QED BY <3>1, TaskKinds
  <2>2. Becomes(w, Asking) /\ UNCHANGED Kept /\ valid' \in BOOLEAN /\ ~Scheduling(w)
    <3>1. ~Scheduling(w)
      BY <1>5 DEF Register, Scheduling, Idle
    <3>2. valid' \in BOOLEAN
      BY <1>5 DEF Register, account, StudentInv, StudentTypeOK
    <3> QED BY <1>5, <3>1, <3>2 DEF Register, account, Kept, Asking
  <2>3. Asking.job = "register" /\ Asking.at = "commit"
    BY DEF Asking
  <2> QED BY <2>1, <2>2, <2>3, Retasked
<1> QED BY <1>2, <1>3, <1>4, <1>5 DEF Starts

LEMMA OnboardRefusedKeeps == ASSUME StudentInv, OnboardRefused PROVE StudentInv'
<1>1. UNCHANGED Kept /\ valid' \in BOOLEAN /\ work' = work
  BY DEF OnboardRefused, account, Kept, StudentInv, StudentTypeOK
<1>2. WorkOK' /\ UsersKnown' /\ OpensOK' /\ PagesOK' /\ HalvesOK'
  <2>1. /\ work' = work /\ uids' = uids /\ user' = user /\ top' = top /\ inbox' = inbox
        /\ backlog' = backlog /\ broken' = broken /\ schedules' = schedules
    BY <1>1 DEF Kept, portal, history
  <2>2. WorkOK' /\ UsersKnown' /\ HalvesOK'
    BY <2>1 DEF StudentInv, WorkOK, UsersKnown, HalvesOK, Scheduling, Doing, Mine
  <2>3. OpensOK' /\ PagesOK'
    BY <2>1 DEF StudentInv, OpensOK, OpenedRow, OwnToken, PagesOK, SyncedPage, Direct, Place
  <2> QED BY <2>2, <2>3
<1> QED BY <1>1, <1>2, RestKept DEF StudentInv

\* A job ends without a result, or with the portal's verdict on the password.
LEMMA EndsKeep ==
    ASSUME StudentInv, NEW w \in Workers, Ends(w), UNCHANGED Kept, valid' \in BOOLEAN,
           ~Scheduling(w)
    PROVE  StudentInv'
BY IdleTask, Retasked DEF Ends

LEMMA FailsKeep ==
    ASSUME StudentInv, NEW w \in Workers, Fail(w) \/ RejectLogin(w)
    PROVE  StudentInv'
<1>1. ~Scheduling(w)
  BY DEF Fail, RejectLogin, Scheduling, Doing
<1>2. Ends(w) /\ UNCHANGED Kept
  BY DEF Fail, RejectLogin, account, Kept
<1>3. valid' \in BOOLEAN
  BY DEF Fail, RejectLogin, account, StudentInv, StudentTypeOK
<1> QED BY <1>1, <1>2, <1>3, EndsKeep

\* The page that is read shows the backlog; whether there were rows is remembered.
LEMMA FetchListKeeps ==
    ASSUME StudentInv, NEW w \in Workers, FetchList(w) PROVE StudentInv'
<1> USE UserRange
<1>1. UNCHANGED Kept /\ valid' \in BOOLEAN /\ ~Scheduling(w)
  <2>1. valid' \in BOOLEAN
    BY DEF FetchList, account, StudentInv, StudentTypeOK
  <2> QED BY <2>1 DEF FetchList, account, Kept, Scheduling, Doing
<1>2. CASE top = 0
  BY <1>1, <1>2, EndsKeep DEF FetchList
<1>3. CASE top # 0
  <2> DEFINE page == [top |-> top, edition |-> edition]
             t == [job |-> "sync", at |-> "details", uid |-> work[w].uid,
                   quiet |-> work[w].quiet, first |-> DOMAIN inbox = {}, list |-> page]
  <2>1. Becomes(w, t)
    BY <1>3 DEF FetchList
  <2>2. work[w] \in Listing /\ work[w].uid <= uids
    BY WorkersTask, TaskKinds DEF FetchList, Doing, StudentInv, UsersKnown, Bound
  <2>3. t \in Detailing
    <3>1. page \in Pages /\ (DOMAIN inbox = {}) \in BOOLEAN
      BY DEF Pages
    <3> QED BY <2>2, <3>1 DEF Listing, Detailing
  <2>4. SyncedPage(t)
    <3>1. page.top = top /\ t.list = page /\ (~t.first => DOMAIN inbox # {})
      OBVIOUS
    <3>2. \A n \in 1 .. backlog : Direct(page, n) => top - n + 1 <= Dropdown
      BY DEF Direct, Place
    <3>3. DOMAIN inbox # {} =>
            \A n \in (1 .. backlog) \ Opaque : Direct(page, n) => <<n, 0>> \in DOMAIN inbox
      BY <3>2 DEF StudentInv, BacklogStored
    <3>4. backlog <= top /\ top <= top
      OBVIOUS
    <3> HIDE DEF page, t
    <3> QED BY <3>1, <3>3, <3>4 DEF SyncedPage
  <2>5. t.job = "sync" /\ t.uid = work[w].uid /\ t \in Tasks
    BY <2>3 DEF Tasks, Bound, Synced
  <2> HIDE DEF t
  <2> QED BY <1>1, <2>1, <2>2, <2>3, <2>4, <2>5, Retasked
<1> QED BY <1>2, <1>3

LEMMA FetchDetailsKeeps ==
    ASSUME StudentInv, NEW w \in Workers, FetchDetails(w) PROVE StudentInv'
<1> USE UserRange
<1>1. UNCHANGED Kept /\ valid' \in BOOLEAN /\ ~Scheduling(w)
  <2>1. valid' \in BOOLEAN
    BY DEF FetchDetails, account, StudentInv, StudentTypeOK
  <2> QED BY <2>1 DEF FetchDetails, account, Kept, Scheduling, Doing
<1>2. work[w] \in Detailing /\ work[w].uid <= uids /\ SyncedPage(work[w])
  BY WorkersTask, TaskKinds DEF FetchDetails, Doing, StudentInv, UsersKnown, PagesOK, Bound, Synced
<1> DEFINE page == work[w].list
<1>3. page \in Pages
  BY <1>2 DEF Detailing
<1>4. PICK got \in SUBSET Listed(page) :
         Becomes(w, [job |-> "sync", at |-> "save", uid |-> work[w].uid,
                     quiet |-> work[w].quiet, first |-> work[w].first, list |-> page,
                     bodies |-> [n \in got |-> <<n, edition[n]>>]])
  BY DEF FetchDetails
<1> DEFINE bodies == [n \in got |-> <<n, edition[n]>>]
           t == [job |-> "sync", at |-> "save", uid |-> work[w].uid,
                 quiet |-> work[w].quiet, first |-> work[w].first, list |-> page,
                 bodies |-> bodies]
<1>5. bodies \in Fetched
  <2>1. \A n \in got : n \in Notices /\ <<n, edition[n]>> \in Editions
    <3>1. got \subseteq Notices
      BY <1>3, <1>4, PageProperties
    <3> QED BY <3>1 DEF Editions
  <2>2. got \in SUBSET Notices /\ bodies \in [got -> Editions]
    BY <2>1
  <2>3. DOMAIN bodies = got /\ \A n \in got : bodies[n][1] = n
    OBVIOUS
  <2> HIDE DEF bodies
  <2> QED BY <2>2, <2>3 DEF Fetched
<1>6. t \in Saving
  <2> HIDE DEF bodies
  <2> QED BY <1>2, <1>3, <1>5 DEF Detailing, Saving
<1>7. /\ t.job = "sync" /\ t.uid = work[w].uid /\ t.list = work[w].list
      /\ t.first = work[w].first /\ t \in Tasks
  BY <1>6 DEF Tasks, Bound, Synced
<1>8. Becomes(w, t)
  BY <1>4
<1> HIDE DEF t
<1>9. SyncedPage(t)
  BY <1>2, <1>7 DEF SyncedPage
<1> QED BY <1>1, <1>2, <1>6, <1>7, <1>8, <1>9, Retasked

\* A place is looked up in the list of now, a token is the notice itself.
LEMMA FetchBodyKeeps ==
    ASSUME StudentInv, NEW w \in Workers, FetchBody(w) PROVE StudentInv'
<1> USE UserRange, StudentConstants
<1>1. UNCHANGED Kept /\ valid' \in BOOLEAN /\ ~Scheduling(w)
  <2>1. valid' \in BOOLEAN
    BY DEF FetchBody, account, StudentInv, StudentTypeOK
  <2> QED BY <2>1 DEF FetchBody, account, Kept, Scheduling, Doing
<1>2. work[w] \in Opening /\ work[w].uid <= uids /\ OpenedRow(work[w])
  BY WorkersTask, TaskKinds DEF FetchBody, Doing, StudentInv, UsersKnown, OpensOK, Bound
<1> DEFINE token == work[w].token
           n == IF token[1] = "message" THEN token[2] ELSE top - token[2] + 1
<1>3. PICK real \in {0, n} :
         /\ token[1] = "message" => real = 0
         /\ Becomes(w, [job |-> "open", at |-> "store", uid |-> work[w].uid, id |-> work[w].id,
                         token |-> token, real |-> real, body |-> <<n, edition[n]>>])
  BY DEF FetchBody
<1> DEFINE t == [job |-> "open", at |-> "store", uid |-> work[w].uid, id |-> work[w].id,
                 token |-> token, real |-> real, body |-> <<n, edition[n]>>]
<1>4. n \in Notices
  <2>1. token \in Tokens /\ (token[1] = "place" => token[2] <= top)
    BY <1>2 DEF Opening, OpenedRow, OwnToken
  <2>2. token[1] \in {"message", "place"} /\ token[2] \in Notices
    BY <2>1 DEF Tokens
  <2>3. token[1] = "place" => top - token[2] + 1 \in Notices
    <3>1. \A k \in Nat : k <= top /\ k # 0 => top - k + 1 \in 1 .. MaxNotices
      <4> HIDE DEF n, t, token
      <4> QED OBVIOUS
    <3> HIDE DEF n, t, token
    <3>2. token[2] \in Nat /\ token[2] # 0
      <4>1. \A k \in 1 .. MaxNotices : k \in Nat /\ k # 0
        OBVIOUS
      <4> QED BY <2>2, <4>1 DEF Notices
    <3> QED BY <2>1, <3>1, <3>2 DEF Notices
  <2> QED BY <2>2, <2>3
<1>5. <<n, edition[n]>> \in Editions /\ real \in 0 .. MaxNotices
  <2>1. real \in {0, n} /\ n \in Notices
    BY <1>3, <1>4
  <2>2. n \in 1 .. MaxNotices => n \in 0 .. MaxNotices
    <3> HIDE DEF n, token
    <3> QED OBVIOUS
  <2>3. edition[n] \in 1 .. MaxEdits + 1
    <3> HIDE DEF n, token
    <3> QED BY <1>4
  <2>4. <<n, edition[n]>> \in Editions
    <3> HIDE DEF n, token, Notices
    <3> QED BY <1>4, <2>3 DEF Editions
  <2> HIDE DEF n, token
  <2> QED BY <2>1, <2>2, <2>4, StudentConstants DEF Notices
<1>6. t \in Storing
  <2> HIDE DEF n
  <2> QED BY <1>2, <1>5 DEF Opening, Storing
<1>7. /\ t.job = "open" /\ t.uid = work[w].uid /\ t.id = work[w].id /\ t.at = "store"
      /\ t.token = token /\ t.body[1] = n /\ t.real = real /\ t \in Tasks
  BY <1>6 DEF Tasks, Bound
<1>8. OpenedRow(t)
  <2>1. OwnToken(t.id, t.token)
    BY <1>2, <1>7 DEF OpenedRow
  <2>2. token[1] = "message" => n = work[w].id[1]
    BY <1>2 DEF OpenedRow, OwnToken
  <2> HIDE DEF t, n, token
  <2> QED BY <1>3, <1>7, <2>1, <2>2 DEF OpenedRow
<1>9. t \notin Synced
  <2> HIDE DEF t
  <2> QED BY <1>7, TaskKinds
<1>10. Becomes(w, t)
  BY <1>3
<1> HIDE DEF t
<1> QED BY <1>1, <1>2, <1>7, <1>8, <1>9, <1>10, Retasked

\* A row that a sync writes is in order: it has the body of the notice it shows.
LEMMA ListedToken ==
    ASSUME StudentInv, NEW list \in Pages, list.top <= top, NEW n \in Listed(list)
    PROVE  OwnToken(PortalId(list, n), Token(list, n))
<1> USE PageProperties, UserRange
<1>1. CASE Direct(list, n)
  BY <1>1 DEF OwnToken
<1>2. CASE ~Direct(list, n)
  <2>1. Token(list, n)[2] <= top
    <3>1. Token(list, n)[2] <= list.top /\ Token(list, n)[2] \in Notices
      BY <1>2 DEF Tokens
    <3> QED BY <3>1 DEF Notices
  <2> QED BY <1>2, <2>1 DEF OwnToken
<1> QED BY <1>1, <1>2

LEMMA NewRowKept ==
    ASSUME StudentInv, NEW list \in Pages, list.top <= top, NEW n \in Listed(list),
           NEW bodies \in Fetched
    PROVE  /\ NewRow(list, n, bodies) \in RowType
           /\ KeptRow(PortalId(list, n), NewRow(list, n, bodies))
<1> DEFINE body == IF Direct(list, n) /\ n \in DOMAIN bodies THEN bodies[n] ELSE NoBody
<1> USE PageProperties, UserRange
<1>1. body \in Editions \union {NoBody} /\ (body # NoBody => Direct(list, n) /\ body[1] = n)
  <2>1. n \in DOMAIN bodies => bodies[n] \in Editions /\ bodies[n][1] = n
    BY DEF Fetched
  <2> QED BY <2>1
<1>2. NewRow(list, n, bodies) = [header |-> Header(list, n), token |-> Token(list, n),
                                 guessed |-> FALSE, body |-> body]
  BY DEF NewRow
<1> HIDE DEF body
<1>3. NewRow(list, n, bodies) \in RowType
  BY <1>1, <1>2 DEF RowType
<1>4. OwnToken(PortalId(list, n), Token(list, n))
  BY ListedToken
<1>5. OwnBody(PortalId(list, n), NewRow(list, n, bodies))
  BY <1>1, <1>2 DEF OwnBody
<1>6. KeptRow(PortalId(list, n), NewRow(list, n, bodies))
  BY <1>2, <1>4, <1>5 DEF KeptRow, OwnToken
<1> QED BY <1>3, <1>6

LEMMA ResyncedKept ==
    ASSUME StudentInv, NEW list \in Pages, list.top <= top, NEW n \in Listed(list),
           NEW kept \in RowType, KeptRow(PortalId(list, n), kept)
    PROVE  /\ Resynced(kept, list, n) \in RowType
           /\ KeptRow(PortalId(list, n), Resynced(kept, list, n))
<1>1. Token(list, n) \in Tokens /\ Header(list, n) \in Editions
  BY PageProperties
<1>2. OwnToken(PortalId(list, n), Token(list, n))
  BY ListedToken
<1>3. CASE kept.header = Header(list, n)
  <2>1. Resynced(kept, list, n) = [kept EXCEPT !.token = Token(list, n)]
    BY <1>3 DEF Resynced
  <2>2. Resynced(kept, list, n) \in RowType
    BY <1>1, <2>1 DEF RowType
  <2>3. /\ Resynced(kept, list, n).token = Token(list, n)
        /\ Resynced(kept, list, n).body = kept.body
        /\ Resynced(kept, list, n).guessed = kept.guessed
    BY <2>1 DEF RowType
  <2> QED BY <1>2, <2>2, <2>3 DEF KeptRow, OwnToken, OwnBody
<1>4. CASE kept.header # Header(list, n)
  <2>1. Resynced(kept, list, n) = [header |-> Header(list, n), token |-> Token(list, n),
                                   guessed |-> FALSE, body |-> NoBody]
    BY <1>4 DEF Resynced
  <2>2. Resynced(kept, list, n) \in RowType
    BY <1>1, <2>1 DEF RowType
  <2> QED BY <1>2, <2>1, <2>2 DEF KeptRow, OwnToken, OwnBody
<1> QED BY <1>3, <1>4

LEMMA InboxRows ==
    ASSUME StudentInv, NEW id \in DOMAIN inbox
    PROVE  id \in Ids /\ inbox[id] \in RowType /\ KeptRow(id, inbox[id])
BY DEF StudentInv, StudentTypeOK, InboxOK, RowType

\* What is left to show of a step that writes the inbox.
LEMMA InboxWritten ==
    ASSUME StudentInv, UNCHANGED <<portal, account>>,
           \A id \in DOMAIN inbox' :
               id \in Ids /\ inbox'[id] \in RowType /\ KeptRow(id, inbox'[id])
    PROVE  StudentTypeOK' /\ InboxOK'
<1>1. StudentTypeOK'
  BY DEF StudentInv, StudentTypeOK, RowType, portal, account
<1>2. InboxOK'
  BY DEF InboxOK, KeptRow, OwnToken, OwnBody, portal
<1> QED BY <1>1, <1>2

LEMMA PersistInboxKeeps ==
    ASSUME StudentInv, NEW w \in Workers, PersistInbox(w) PROVE StudentInv'
<1> USE UserRange
<1>1. Ends(w) /\ ~Scheduling(w)
  BY DEF PersistInbox, Scheduling, Doing
<1>2. CASE ~Mine(w)
  <2>1. UNCHANGED Kept /\ valid' \in BOOLEAN
    BY <1>2 DEF PersistInbox, Kept, account, outbox, StudentInv, StudentTypeOK
  <2> QED BY <1>1, <2>1, EndsKeep
<1>3. CASE Mine(w)
  <2> DEFINE list == work[w].list
             bodies == work[w].bodies
             ids == {PortalId(list, n) : n \in Listed(list)}
             new == ids \ DOMAIN inbox
  <2>1. /\ work[w] \in Saving /\ SyncedPage(work[w]) /\ user = work[w].uid /\ user # 0
        /\ list \in Pages /\ bodies \in Fetched /\ list.top <= top /\ backlog <= list.top
    <3>1. work[w] \in Saving
      BY WorkersTask, TaskKinds DEF PersistInbox, Doing
    <3>2. SyncedPage(work[w])
      BY <3>1 DEF StudentInv, PagesOK, Synced
    <3>3. user = work[w].uid /\ user # 0
      BY <1>3, <3>1 DEF Mine, Saving, Accounts
    <3> QED BY <3>1, <3>2, <3>3 DEF Saving, SyncedPage
  <2>2. /\ inbox' = [id \in DOMAIN inbox \union ids |->
                        IF id \in new THEN NewRow(list, id[1], bodies)
                        ELSE IF id \in ids THEN Resynced(inbox[id], list, id[1])
                        ELSE inbox[id]]
        /\ told' = told \union
               IF Silent(work[w].quiet) THEN {}
               ELSE {[notice |-> id[1], overlap |-> work[w].first /\ DOMAIN inbox # {}] :
                        id \in {i \in new : Direct(list, i[1])}}
        /\ UNCHANGED <<portal, account, snapshot, flooded, onboarding, history>>
    BY <1>3 DEF PersistInbox
  <2>3. \A id \in ids : \E n \in Listed(list) : id = PortalId(list, n) /\ id[1] = n /\ id \in Ids
    BY <2>1, PageProperties
  <2>4. DOMAIN inbox' = DOMAIN inbox \union ids
    BY <2>2
  <2>5. ASSUME NEW id \in DOMAIN inbox'
        PROVE  id \in Ids /\ inbox'[id] \in RowType /\ KeptRow(id, inbox'[id])
    <3> HIDE DEF ids, list, bodies
    <3>1. CASE id \in new
      <4>1. PICK n \in Listed(list) : id = PortalId(list, n) /\ id[1] = n /\ id \in Ids
        BY <2>3, <3>1
      <4>2. inbox'[id] = NewRow(list, n, bodies)
        BY <2>2, <2>4, <3>1, <4>1
      <4> QED BY <2>1, <4>1, <4>2, NewRowKept
    <3>2. CASE id \in ids /\ id \notin new
      <4>1. PICK n \in Listed(list) : id = PortalId(list, n) /\ id[1] = n /\ id \in Ids
        BY <2>3, <3>2
      <4>2. inbox'[id] = Resynced(inbox[id], list, n)
        BY <2>2, <2>4, <3>2, <4>1
      <4>3. id \in DOMAIN inbox
        BY <3>2
      <4>4. inbox[id] \in RowType /\ KeptRow(PortalId(list, n), inbox[id])
        BY <4>1, <4>3, InboxRows
      <4> QED BY <2>1, <4>1, <4>2, <4>4, ResyncedKept
    <3>3. CASE id \notin ids
      <4>1. inbox'[id] = inbox[id] /\ id \in DOMAIN inbox
        BY <2>2, <2>4, <3>3
      <4> QED BY <4>1, InboxRows
    <3> QED BY <3>1, <3>2, <3>3
  <2>6. StudentTypeOK' /\ InboxOK'
    BY <2>2, <2>5, InboxWritten
  <2>7. AccountOK'
    BY <2>1, <2>2 DEF AccountOK, StudentInv, account, history, portal
  <2>8. WorkOK' /\ UsersKnown' /\ OpensOK' /\ PagesOK'
    <3>1. /\ top' = top /\ user' = user /\ uids' = uids /\ backlog' = backlog
          /\ \A n \in Notices : <<n, 0>> \in DOMAIN inbox => <<n, 0>> \in DOMAIN inbox'
      BY <2>2, <2>4 DEF account, history, portal
    <3> HIDE DEF ids, new, list, bodies
    <3> QED BY <1>1, <3>1, IdleTask, GoesOnTask DEF Ends
  <2>9. HalvesOK'
    BY <1>1, <2>2, IdleTask, HalvesKept DEF Ends, account, history
  <2>10. \A n \in (1 .. backlog) \ Opaque : Direct(list, n) => <<n, 0>> \in ids
    <3> SUFFICES ASSUME NEW n \in (1 .. backlog) \ Opaque, Direct(list, n)
                 PROVE  <<n, 0>> \in ids
      OBVIOUS
    <3>1. n \in Listed(list)
      BY <2>1 DEF Listed, Pages
    <3>2. PortalId(list, n) = <<n, 0>>
      BY DEF PortalId, Decodes
    <3> QED BY <3>1, <3>2
  <2>11. BacklogStored'
    <3>1. ASSUME NEW n \in (1 .. backlog) \ Opaque, top - n + 1 <= Dropdown
          PROVE  Direct(list, n)
      BY <2>1, <3>1, StudentConstants DEF Direct, Place, Pages
    <3> HIDE DEF ids, list, bodies
    <3>2. \A n \in (1 .. backlog) \ Opaque :
              top - n + 1 <= Dropdown => <<n, 0>> \in DOMAIN inbox'
      BY <2>4, <2>10, <3>1
    <3> QED BY <2>2, <3>2 DEF BacklogStored, history, portal
  <2>12. BacklogIsSilent'
    <3>1. ASSUME NEW news \in told', news.notice <= backlog, news.notice \notin Opaque
          PROVE  news.overlap
      <4>1. CASE news \in told
        BY <3>1, <4>1 DEF StudentInv, BacklogIsSilent
      <4>2. CASE news \notin told
        <5>1. PICK id \in new : /\ Direct(list, id[1]) /\ ~Silent(work[w].quiet)
                               /\ news = [notice |-> id[1],
                                          overlap |-> work[w].first /\ DOMAIN inbox # {}]
          <6> HIDE DEF new
          <6> QED BY <2>2, <4>2
        <5>2. DOMAIN inbox # {}
          BY <5>1 DEF Silent
        <5>3. CASE work[w].first
          BY <5>1, <5>2, <5>3
        <5>4. CASE ~work[w].first
          <6>1. PICK n \in Listed(list) : id = PortalId(list, n) /\ id[1] = n /\ id \in Ids
            BY <2>3
          <6>2. n \in (1 .. backlog) \ Opaque
            <7>1. news.notice = n
              BY <5>1, <6>1
            <7> QED BY <2>1, <3>1, <6>1, <7>1 DEF Listed, Pages
          <6>3. <<n, 0>> \in DOMAIN inbox
            BY <2>1, <5>1, <5>4, <6>1, <6>2 DEF SyncedPage
          <6>4. id = <<n, 0>>
            BY <5>1, <6>1, <6>2 DEF PortalId, Decodes
          <6> QED BY <6>3, <6>4
        <5> QED BY <5>3, <5>4
      <4> QED BY <4>1, <4>2
    <3>2. ~flooded' /\ backlog' = backlog
      BY <2>2 DEF StudentInv, BacklogIsSilent, history
    <3> HIDE DEF ids, new, list, bodies
    <3> QED BY <3>1, <3>2 DEF BacklogIsSilent
  <2> QED BY <2>6, <2>7, <2>8, <2>9, <2>11, <2>12 DEF StudentInv
<1> QED BY <1>2, <1>3

LEMMA OpenedFields ==
    ASSUME NEW kept \in RowType, NEW t \in Storing, NEW numbered \in BOOLEAN
    PROVE  /\ Opened(kept, t, numbered).body = t.body
           /\ Opened(kept, t, numbered).token =
                  (IF t.real = 0 THEN kept.token ELSE <<"message", t.real>>)
           /\ Opened(kept, t, numbered).guessed =
                  (IF t.token[1] = "place" THEN ~numbered ELSE kept.guessed)
           /\ Opened(kept, t, numbered) \in RowType
<1>1. t.body \in Editions /\ t.real \in 0 .. MaxNotices
  BY DEF Storing
<1> DEFINE token == IF t.real = 0 THEN kept.token ELSE <<"message", t.real>>
           guessed == IF t.token[1] = "place" THEN ~numbered ELSE kept.guessed
<1>2. token \in Tokens
  <2>1. t.real # 0 => t.real \in Notices
    BY <1>1, StudentConstants DEF Notices
  <2>2. kept.token \in Tokens
    BY DEF RowType
  <2> QED BY <2>1, <2>2 DEF Tokens
<1>3. guessed \in BOOLEAN
  BY DEF RowType
<1>4. Opened(kept, t, numbered) =
          [kept EXCEPT !.body = t.body, !.token = token, !.guessed = guessed]
  BY DEF Opened, RowType
<1> HIDE DEF token, guessed
<1>5. /\ Opened(kept, t, numbered) \in RowType
      /\ Opened(kept, t, numbered).body = t.body
      /\ Opened(kept, t, numbered).token = token
      /\ Opened(kept, t, numbered).guessed = guessed
  BY <1>1, <1>2, <1>3, <1>4 DEF RowType
<1> QED BY <1>5 DEF token, guessed

\* What StoreBody makes of a row: the portal's number comes with that message's body.
LEMMA OpenedKept ==
    ASSUME StudentInv, NEW t \in Storing, OpenedRow(t), t.at = "store",
           NEW kept \in RowType, KeptRow(t.id, kept),
           NEW numbered \in BOOLEAN, numbered <=> (t.real # 0 /\ t.real \notin Opaque)
    PROVE  LET found == IF numbered THEN <<t.real, 0>> ELSE t.id
           IN  /\ found \in Ids /\ (found # t.id => t.id[2] # 0)
               /\ Opened(kept, t, numbered) \in RowType
               /\ KeptRow(found, Opened(kept, t, numbered))
<1> DEFINE found == IF numbered THEN <<t.real, 0>> ELSE t.id
           row1 == Opened(kept, t, numbered)
<1>1. /\ t.id \in Ids /\ t.body \in Editions /\ t.body # NoBody /\ t.token \in Tokens
      /\ t.real \in 0 .. MaxNotices
  BY StudentConstants DEF Storing
<1>2. /\ row1.body = t.body /\ row1 \in RowType
      /\ row1.token = (IF t.real = 0 THEN kept.token ELSE <<"message", t.real>>)
      /\ row1.guessed = (IF t.token[1] = "place" THEN ~numbered ELSE kept.guessed)
  BY OpenedFields
<1>3. t.token[1] \in {"message", "place"}
  BY <1>1 DEF Tokens
<1> HIDE DEF row1
<1>4. CASE t.token[1] = "message"
  <2>1. t.real = 0 /\ ~numbered /\ found = t.id /\ t.body[1] = t.id[1]
    BY <1>4 DEF OpenedRow
  <2>2. row1.token = kept.token /\ row1.guessed = kept.guessed
    BY <1>2, <1>4, <2>1
  <2>3. t.id[2] = 0 \/ t.id[1] \in Opaque
    BY <1>4 DEF OpenedRow, OwnToken
  <2>4. OwnBody(t.id, row1)
    BY <1>2, <2>1, <2>3 DEF OwnBody
  <2>5. KeptRow(t.id, row1)
    BY <1>1, <1>2, <2>2, <2>4 DEF KeptRow
  <2> QED BY <1>1, <1>2, <2>1, <2>5 DEF row1
<1>5. CASE t.token[1] = "place" /\ numbered
  <2>1. t.id[2] # 0 /\ t.real = t.body[1] /\ t.real # 0
    BY <1>5 DEF OpenedRow, OwnToken
  <2>2. /\ found = <<t.real, 0>> /\ found[1] = t.real /\ found[2] = 0
        /\ row1.token = <<"message", t.real>> /\ ~row1.guessed
    BY <1>2, <1>5, <2>1
  <2>3. found \in Ids
    <3>1. t.real \in Notices /\ 0 \in 0 .. MaxEdits + 1
      BY <1>1, <2>1, StudentConstants DEF Notices
    <3> QED BY <2>2, <3>1 DEF Ids
  <2> HIDE DEF found
  <2>4. OwnToken(found, row1.token)
    BY <2>2 DEF OwnToken
  <2>5. OwnBody(found, row1)
    BY <1>2, <2>1, <2>2 DEF OwnBody
  <2>6. KeptRow(found, row1)
    BY <2>2, <2>4, <2>5 DEF KeptRow
  <2> QED BY <1>2, <2>1, <2>3, <2>6 DEF row1, found
<1>6. CASE t.token[1] = "place" /\ ~numbered
  <2>1. t.id[2] # 0 /\ found = t.id
    BY <1>6 DEF OpenedRow, OwnToken
  <2>2. row1.guessed /\ row1.body # NoBody
    BY <1>1, <1>2, <1>6
  <2>3. row1.token[1] = "place" => row1.token = kept.token
    BY <1>2
  <2>4. KeptRow(t.id, row1)
    BY <2>1, <2>2, <2>3 DEF KeptRow, OwnBody
  <2> QED BY <1>1, <1>2, <2>1, <2>4 DEF row1
<1> QED BY <1>3, <1>4, <1>5, <1>6

\* The made-up id gives way to the portal's, and no row with the portal's id goes.
LEMMA StoreBodyKeeps ==
    ASSUME StudentInv, NEW w \in Workers, StoreBody(w) PROVE StudentInv'
<1> USE UserRange
<1> DEFINE id == work[w].id
           body == work[w].body
           numbered == work[w].real # 0 /\ Decodes(work[w].real)
           found == IF numbered THEN <<work[w].real, 0>> ELSE id
           row1 == Opened(inbox[id], work[w], numbered)
<1>1. Ends(w) /\ ~Scheduling(w) /\ UNCHANGED <<portal, account, snapshot, outbox, history>>
  BY DEF StoreBody, Scheduling, Doing
<1>2. CASE inbox' = inbox
  <2>1. UNCHANGED Kept /\ valid' \in BOOLEAN
    BY <1>1, <1>2 DEF Kept, account, StudentInv, StudentTypeOK
  <2> QED BY <1>1, <2>1, EndsKeep
<1>3. CASE inbox' # inbox
  <2>1. /\ Mine(w) /\ id \in DOMAIN inbox /\ (found = id \/ found \notin DOMAIN inbox)
        /\ inbox' = [i \in (DOMAIN inbox \ {id}) \union {found} |->
                        IF i = found THEN row1 ELSE inbox[i]]
    BY <1>3 DEF StoreBody
  <2>2. /\ work[w] \in Storing /\ OpenedRow(work[w]) /\ user # 0
        /\ work[w].at = "store"
    <3>1. work[w] \in Storing /\ work[w].job = "open" /\ work[w].at = "store"
      BY WorkersTask, TaskKinds DEF StoreBody, Doing
    <3>2. OpenedRow(work[w])
      BY <3>1 DEF StudentInv, OpensOK
    <3> QED BY <2>1, <3>1, <3>2 DEF Mine, Storing, Accounts
  <2>3. inbox[id] \in RowType /\ KeptRow(id, inbox[id])
    BY <2>1, InboxRows
  <2>4. numbered \in BOOLEAN
    OBVIOUS
  <2>5. /\ found \in Ids /\ (found # id => id[2] # 0)
        /\ row1 \in RowType /\ KeptRow(found, row1)
    BY <2>2, <2>3, <2>4, OpenedKept DEF Decodes
  <2> HIDE DEF row1, found, body, id
  <2>7. DOMAIN inbox' = (DOMAIN inbox \ {id}) \union {found}
    BY <2>1
  <2>8. ASSUME NEW i \in DOMAIN inbox'
        PROVE  i \in Ids /\ inbox'[i] \in RowType /\ KeptRow(i, inbox'[i])
    <3>1. CASE i = found
      BY <2>1, <2>5, <2>7, <3>1
    <3>2. CASE i # found
      <4>1. i \in DOMAIN inbox /\ inbox'[i] = inbox[i]
        BY <2>1, <2>7, <3>2
      <4> QED BY <4>1, InboxRows
    <3> QED BY <3>1, <3>2
  <2>9. StudentTypeOK' /\ InboxOK'
    BY <1>1, <2>8, InboxWritten
  <2>10. \A n \in Notices : <<n, 0>> \in DOMAIN inbox => <<n, 0>> \in DOMAIN inbox'
    BY <2>5, <2>7
  <2>11. WorkOK' /\ UsersKnown' /\ OpensOK' /\ PagesOK'
    BY <1>1, <2>10, IdleTask, GoesOnTask DEF Ends, account, history, portal
  <2>12. HalvesOK'
    BY <1>1, IdleTask, HalvesKept DEF Ends, account, history
  <2>13. AccountOK' /\ BacklogIsSilent'
    <3>1. AccountOK'
      BY <1>1, <2>2 DEF AccountOK, StudentInv, account, history, portal, outbox
    <3> QED BY <1>1, <3>1 DEF BacklogIsSilent, StudentInv, history, outbox
  <2>14. BacklogStored'
    <3>1. 1 .. backlog \subseteq Notices /\ DOMAIN inbox # {}
      BY <2>1, StudentConstants DEF Notices
    <3> QED BY <1>1, <2>10, <3>1 DEF BacklogStored, StudentInv, history, portal
  <2> QED BY <2>9, <2>11, <2>12, <2>13, <2>14 DEF StudentInv
<1> QED BY <1>2, <1>3

\* The rest of the state after a step that may store a snapshot or fail.
LEMMA AccountKept ==
    ASSUME StudentInv, UNCHANGED <<portal, account, inbox, told, backlog>>,
           snapshot' \in BOOLEAN, broken' \in BOOLEAN,
           user # 0 => snapshot', flooded' = flooded
    PROVE  /\ StudentTypeOK' /\ AccountOK' /\ InboxOK' /\ BacklogStored'
           /\ BacklogIsSilent'
<1> USE DEF portal, account, StudentInv
<1>1. StudentTypeOK'
  BY DEF StudentTypeOK
<1>2. AccountOK' /\ BacklogStored' /\ BacklogIsSilent'
  BY DEF AccountOK, BacklogStored, BacklogIsSilent
<1>3. InboxOK'
  BY DEF InboxOK, KeptRow, OwnToken, OwnBody
<1> QED BY <1>1, <1>2, <1>3

\* The job of a present user finds a snapshot: the registration stored it.
LEMMA SaveMarksKeeps ==
    ASSUME StudentInv, NEW w \in Workers, SaveMarks(w) PROVE StudentInv'
<1>1. Ends(w) /\ ~Scheduling(w) /\ UNCHANGED <<portal, account, inbox, told, onboarding, history>>
  BY DEF SaveMarks, Scheduling, Doing
<1>2. CASE ~Mine(w)
  <2>1. UNCHANGED Kept /\ valid' \in BOOLEAN
    BY <1>1, <1>2 DEF SaveMarks, Kept, account, outbox, StudentInv, StudentTypeOK
  <2> QED BY <1>1, <2>1, EndsKeep
<1>3. CASE Mine(w)
  <2>1. snapshot
    <3>1. work[w] \in Marking
      BY WorkersTask, TaskKinds DEF SaveMarks, Doing
    <3>2. user # 0
      BY <1>3, <3>1 DEF Mine, Marking, Accounts
    <3> QED BY <3>2 DEF StudentInv, AccountOK
  <2>2. snapshot' = TRUE /\ flooded' = flooded
    BY <1>3, <2>1 DEF SaveMarks, StudentInv, AccountOK
  <2>3. UNCHANGED Kept /\ valid' \in BOOLEAN
    BY <1>1, <2>1, <2>2 DEF Kept, account, outbox, StudentInv, StudentTypeOK, AccountOK
  <2> QED BY <1>1, <2>3, EndsKeep
<1> QED BY <1>2, <1>3

RegistrationSteps == {"schedule attendance", "schedule inbox", "enable", "enqueue"}

LEMMA RegisteringTask ==
    ASSUME NEW t \in Registering
    PROVE  t \in Tasks /\ t \notin Synced /\ t.job = "register" /\ t.at # "commit"
<1>1. t.job = "register" /\ t \in Tasks /\ t.at # "commit"
  BY DEF Registering, Tasks, Bound
<1> QED BY <1>1, TaskKinds

\* The task after a commit, and after each further step.
LEMMA RegistrationStarts ==
    ASSUME NEW u \in Accounts
    PROVE  LET t == [job |-> "register", at |-> "schedule attendance", uid |-> u]
           IN  t \in Registering /\ t.at = "schedule attendance" /\ t.uid = u
BY DEF Registering

LEMMA RegistrationMoves ==
    ASSUME NEW r \in Registering, NEW at \in RegistrationSteps
    PROVE  LET t == [r EXCEPT !.at = at]
           IN  t \in Registering /\ t.at = at /\ t.uid = r.uid
BY DEF Registering, RegistrationSteps

\* A new id: no job that is under way is the new user's.
LEMMA CommitNewKeeps ==
    ASSUME StudentInv, NEW w \in Workers, CommitNew(w) PROVE StudentInv'
<1> USE UserRange, StudentConstants
<1> DEFINE t == [job |-> "register", at |-> "schedule attendance", uid |-> uids + 1]
<1>1. /\ user = 0 /\ user' = uids + 1 /\ uids' = uids + 1 /\ uids < MaxUsers
      /\ valid' = TRUE /\ snapshot' = TRUE /\ backlog' = top /\ broken' = FALSE
      /\ Becomes(w, t)
      /\ UNCHANGED <<portal, schedules, inbox, outbox, onboarding>>
  BY DEF CommitNew
<1>2. /\ t \in Tasks /\ t \in Registering /\ t \notin Synced /\ t.uid = uids + 1
      /\ t.job = "register" /\ t.at = "schedule attendance"
  <2>1. uids + 1 \in Accounts
    <3>1. uids < MaxUsers
      BY <1>1
    <3>2. uids \in Nat
      <4>1. uids \in 0 .. MaxUsers
        BY UserRange
      <4> QED BY <4>1
    <3> QED BY <3>1, <3>2 DEF Accounts
  <2>2. t \in Registering /\ t.at = "schedule attendance" /\ t.uid = uids + 1
    BY <2>1, RegistrationStarts
  <2> HIDE DEF t
  <2> QED BY <2>2, RegisteringTask
<1> HIDE DEF t
<1>3. WorkOK' /\ work'[w] = t /\ \A v \in Workers \ {w} : work'[v] = work[v]
  BY <1>1, <1>2, BecomesTask DEF StudentInv
<1>4. /\ DOMAIN inbox = {} /\ told = {} /\ ~flooded
      /\ inbox' = inbox /\ told' = told /\ flooded' = flooded /\ top' = top
  BY <1>1 DEF StudentInv, AccountOK, outbox, portal
<1>5. StudentTypeOK'
  <2>1. top' \in 0 .. MaxNotices /\ edition' \in [Notices -> 1 .. MaxEdits + 1]
    BY <1>1 DEF portal
  <2>2. user' \in 0 .. uids' /\ uids' \in 0 .. MaxUsers
    BY <1>1
  <2>3. valid' \in BOOLEAN /\ schedules' \subseteq Modules
    BY <1>1 DEF StudentInv, StudentTypeOK
  <2> QED BY <1>4, <2>1, <2>2, <2>3 DEF StudentTypeOK
<1>6. AccountOK'
  <2>1. backlog' \in 0 .. top'
    BY <1>1, <1>4
  <2>2. snapshot' \in BOOLEAN /\ broken' \in BOOLEAN /\ snapshot'
    BY <1>1
  <2>3. flooded' \in BOOLEAN
    BY <1>4 DEF StudentInv, AccountOK
  <2>4. user' # 0
    BY <1>1
  <2> QED BY <2>1, <2>2, <2>3, <2>4 DEF AccountOK
<1>7. UsersKnown'
  <2>1. \A v \in Workers \ {w} : work[v] \in Bound => work[v].uid <= uids /\ work[v].uid \in Accounts
    BY TaskKinds, WorkersTask DEF StudentInv, UsersKnown
  <2>2. \A v \in Workers \ {w} : work[v] \in Bound => work[v].uid <= uids + 1
    <3>1. uids \in Nat /\ \A u \in Accounts : u \in Nat
      BY UserRange DEF Accounts
    <3> QED BY <2>1, <3>1
  <2>3. uids' = uids + 1 /\ t.uid <= uids + 1
    <3>1. uids \in Nat
      BY UserRange
    <3>2. uids' = uids + 1
      BY <1>1
    <3>3. t.uid = uids + 1
      BY <1>2
    <3> QED BY <3>1, <3>2, <3>3
  <2>4. \A v \in Workers : work'[v] \in Bound => work'[v].uid <= uids + 1
    BY <1>3, <2>2, <2>3
  <2> QED BY <2>3, <2>4 DEF UsersKnown
<1>8. InboxOK' /\ BacklogStored' /\ BacklogIsSilent'
  BY <1>4 DEF InboxOK, BacklogStored, BacklogIsSilent
<1>9. OpensOK'
  BY <1>2, <1>3, <1>4 DEF StudentInv, OpensOK, OpenedRow, OwnToken
<1>10. PagesOK'
  <2> SUFFICES ASSUME NEW v \in Workers, work'[v] \in Synced
               PROVE  SyncedPage(work[v])'
    BY DEF PagesOK
  <2>1. v # w /\ work'[v] = work[v] /\ SyncedPage(work[v])
    BY <1>2, <1>3 DEF StudentInv, PagesOK
  <2>2. work[v].uid <= uids /\ work[v].uid \in Accounts
    BY <2>1, WorkersTask, TaskKinds DEF StudentInv, UsersKnown, Bound
  <2>3. user' # work'[v].uid
    BY <1>1, <2>1, <2>2 DEF Accounts
  <2> QED BY <1>4, <2>1, <2>3 DEF SyncedPage
<1>11. HalvesOK'
  <2>1. Scheduling(w)'
    BY <1>2, <1>3 DEF Scheduling
  <2>2. ASSUME NEW v \in Workers, Doing(v, "register", "schedule inbox")'
        PROVE  ~Mine(v)'
    <3>1. v # w /\ work'[v] = work[v]
      BY <1>2, <1>3, <2>2 DEF Doing
    <3>2. work[v] \in Registering /\ work[v].uid <= uids /\ work[v].uid \in Accounts
      BY <2>2, <3>1, WorkersTask, TaskKinds DEF StudentInv, UsersKnown, Bound, Doing
    <3> QED BY <1>1, <3>1, <3>2 DEF Mine, Accounts
  <2> QED BY <2>1, <2>2 DEF HalvesOK
<1> QED BY <1>3, <1>5, <1>6, <1>7, <1>8, <1>9, <1>10, <1>11 DEF StudentInv

\* The update of a user makes the schedules that an earlier registration did not.
LEMMA CommitUpdateKeeps ==
    ASSUME StudentInv, NEW w \in Workers, CommitUpdate(w) PROVE StudentInv'
<1> USE UserRange
<1> DEFINE t == [job |-> "register", at |-> "schedule attendance", uid |-> user]
<1>1. /\ user \in Accounts /\ user <= uids /\ snapshot' = TRUE /\ broken' = FALSE
      /\ Becomes(w, t)
      /\ UNCHANGED <<portal, account, inbox, outbox, onboarding, backlog>>
  <2>1. user # 0
    BY DEF CommitUpdate
  <2>2. user \in Accounts /\ user <= uids
    BY <2>1
  <2> QED BY <2>2 DEF CommitUpdate
<1>2. /\ t \in Tasks /\ t \notin Synced /\ t.uid = user
      /\ t.job = "register" /\ t.at = "schedule attendance"
  <2>1. t \in Registering /\ t.at = "schedule attendance" /\ t.uid = user
    BY <1>1, RegistrationStarts
  <2> HIDE DEF t
  <2> QED BY <2>1, RegisteringTask
<1> HIDE DEF t
<1>3. /\ StudentTypeOK' /\ AccountOK' /\ InboxOK' /\ BacklogStored' /\ BacklogIsSilent'
  BY <1>1, AccountKept DEF outbox
<1>4. WorkOK' /\ UsersKnown' /\ OpensOK' /\ PagesOK'
  BY <1>1, <1>2, GoesOnTask DEF portal, account
<1>5. HalvesOK'
  <2>1. work'[w] = t /\ \A v \in Workers \ {w} : work'[v] = work[v]
    BY <1>1, <1>2, BecomesTask DEF StudentInv
  <2>2. Scheduling(w)'
    BY <1>2, <2>1 DEF Scheduling
  <2> QED BY <1>1, <1>2, <2>1, <2>2 DEF StudentInv, HalvesOK, Doing, Mine, account
<1> QED BY <1>3, <1>4, <1>5 DEF StudentInv

\* ensure_schedule_exists adds a row, and the registration goes on.
LEMMA SchedulesKeep ==
    ASSUME StudentInv, NEW w \in Workers, ScheduleAttendance(w) \/ ScheduleInbox(w)
    PROVE  StudentInv'
<1> USE UserRange
<1> DEFINE module == IF work[w].at = "schedule attendance" THEN "attendance" ELSE "inbox"
           next == IF work[w].at = "schedule attendance" THEN "schedule inbox" ELSE "enable"
           t == [work[w] EXCEPT !.at = next]
<1>1. /\ work[w] \in Registering /\ Mine(w) /\ schedules' = schedules \union {module}
      /\ work[w].at \in {"schedule attendance", "schedule inbox"}
      /\ Becomes(w, t)
      /\ UNCHANGED <<portal, user, uids, valid, inbox, snapshot, outbox, onboarding, history>>
  <2>1. work[w] \in Registering
    BY WorkersTask, TaskKinds DEF ScheduleAttendance, ScheduleInbox, Doing
  <2> QED BY <2>1 DEF ScheduleAttendance, ScheduleInbox, Schedule, Doing
<1>2. work[w].uid \in Accounts /\ work[w].uid <= uids /\ user # 0
  <2>1. work[w].uid \in Accounts
    BY <1>1 DEF Registering
  <2>2. work[w].uid <= uids
    BY <1>1 DEF StudentInv, UsersKnown, Bound
  <2>3. user = work[w].uid
    BY <1>1 DEF Mine
  <2>4. 0 \notin Accounts
    BY DEF Accounts
  <2> QED BY <2>1, <2>2, <2>3, <2>4
<1>3. /\ t \in Tasks /\ t \notin Synced /\ t.uid = work[w].uid
      /\ t.job = "register" /\ t.at = next
  <2>1. next \in RegistrationSteps
    BY DEF RegistrationSteps
  <2> HIDE DEF next
  <2>2. t \in Registering /\ t.at = next /\ t.uid = work[w].uid
    BY <1>1, <2>1, RegistrationMoves
  <2> HIDE DEF t
  <2> QED BY <2>2, RegisteringTask
<1> HIDE DEF t
<1>5. StudentTypeOK'
  BY <1>1 DEF StudentInv, StudentTypeOK, portal, Modules
<1>6. AccountOK' /\ BacklogStored' /\ BacklogIsSilent'
  BY <1>1 DEF StudentInv, AccountOK, BacklogStored, BacklogIsSilent, portal, outbox, history
<1>7. InboxOK'
  BY <1>1 DEF StudentInv, InboxOK, KeptRow, OwnToken, OwnBody, portal
<1>8. WorkOK' /\ UsersKnown' /\ OpensOK' /\ PagesOK'
  BY <1>1, <1>2, <1>3, GoesOnTask DEF portal, history
<1>9. HalvesOK'
  <2>1. work'[w] = t /\ \A v \in Workers \ {w} : work'[v] = work[v]
    BY <1>1, <1>3, BecomesTask DEF StudentInv
  <2>2. CASE work[w].at = "schedule attendance"
    <3>1. Scheduling(w)' /\ "attendance" \in schedules'
      BY <1>1, <1>3, <2>1, <2>2 DEF Scheduling
    <3> QED BY <3>1 DEF HalvesOK
  <2>3. CASE work[w].at = "schedule inbox"
    <3>1. "attendance" \in schedules
      BY <1>1, <2>3 DEF StudentInv, HalvesOK, Doing, Registering
    <3>2. schedules' = Modules
      BY <1>1, <2>3, <3>1 DEF StudentInv, StudentTypeOK, Modules
    <3> QED BY <3>2 DEF HalvesOK, Modules
  <2> QED BY <1>1, <2>2, <2>3
<1> QED BY <1>5, <1>6, <1>7, <1>8, <1>9 DEF StudentInv

\* The gate is opened and the onboarding queued, or the gate's error is logged.
LEMMA RegistrationEnds ==
    ASSUME StudentInv, NEW w \in Workers, EnableLogins(w) \/ EnqueueOnboarding(w)
    PROVE  StudentInv'
<1>1. ~Scheduling(w) /\ work[w] \in Registering
  BY WorkersTask, TaskKinds DEF EnableLogins, EnqueueOnboarding, Scheduling, Doing
<1>2. CASE EnqueueOnboarding(w)
  <2>1. UNCHANGED Kept /\ valid' \in BOOLEAN
    BY <1>2 DEF EnqueueOnboarding, Kept, account, StudentInv, StudentTypeOK
  <2> QED BY <1>1, <1>2, <2>1, EndsKeep DEF EnqueueOnboarding
<1>3. CASE EnableLogins(w)
  <2> DEFINE t == [work[w] EXCEPT !.at = "enqueue"]
  <2>1. Becomes(w, t)
    BY <1>3 DEF EnableLogins
  <2>2. work[w].uid <= uids
    BY <1>1 DEF StudentInv, UsersKnown, Bound
  <2>3. /\ t \in Tasks /\ t \notin Synced /\ t.uid = work[w].uid
        /\ t.job = "register" /\ t.at = "enqueue"
    <3>1. t \in Registering /\ t.at = "enqueue" /\ t.uid = work[w].uid
      BY <1>1, RegistrationMoves DEF RegistrationSteps
    <3> HIDE DEF t
    <3> QED BY <3>1, RegisteringTask
  <2> HIDE DEF t
  <2>4. valid' \in BOOLEAN
    BY <1>3 DEF EnableLogins, StudentInv, StudentTypeOK
  <2>5. UNCHANGED Kept
    BY <1>3 DEF EnableLogins, Kept
  <2> QED BY <1>1, <2>1, <2>2, <2>3, <2>4, <2>5, Retasked
<1> QED BY <1>2, <1>3

LEMMA FailRegistrationKeeps ==
    ASSUME StudentInv, NEW w \in Workers, FailRegistration(w) PROVE StudentInv'
<1>1. /\ Ends(w) /\ UNCHANGED <<portal, account, inbox, snapshot, outbox, onboarding, backlog>>
      /\ broken' = (broken \/ (Scheduling(w) /\ schedules # Modules))
  BY DEF FailRegistration
<1>2. StudentTypeOK' /\ AccountOK' /\ InboxOK' /\ BacklogStored' /\ BacklogIsSilent'
  <2>1. snapshot' \in BOOLEAN /\ broken' \in BOOLEAN /\ (user # 0 => snapshot')
    BY <1>1 DEF StudentInv, AccountOK
  <2> QED BY <1>1, <2>1, AccountKept DEF outbox
<1>3. WorkOK' /\ UsersKnown' /\ OpensOK' /\ PagesOK'
  BY <1>1, IdleTask, GoesOnTask DEF portal, account, Ends
<1>4. HalvesOK'
  <2>1. work'[w] = Idle /\ \A v \in Workers \ {w} : work'[v] = work[v]
    BY <1>1, IdleTask, BecomesTask DEF StudentInv, Ends
  <2>2. user' = user /\ schedules' = schedules
    BY <1>1 DEF account
  <2>3. ASSUME user' # 0, ~broken', schedules' # Modules'
        PROVE  \E v \in Workers : Scheduling(v)'
    <3>1. ~broken /\ ~Scheduling(w) /\ schedules # Modules /\ user # 0
      BY <1>1, <2>2, <2>3 DEF Modules
    <3>2. PICK v \in Workers : Scheduling(v)
      BY <3>1 DEF StudentInv, HalvesOK
    <3> QED BY <2>1, <3>1, <3>2 DEF Scheduling
  <2>4. ASSUME NEW v \in Workers, (Doing(v, "register", "schedule inbox") /\ Mine(v))'
        PROVE  "attendance" \in schedules'
    <3>1. v # w /\ work'[v] = work[v]
      BY <2>1, <2>4, IdleTask DEF Doing
    <3> QED BY <2>2, <2>4, <3>1 DEF StudentInv, HalvesOK, Doing, Mine
  <2> QED BY <2>3, <2>4 DEF HalvesOK
<1> QED BY <1>2, <1>3, <1>4 DEF StudentInv

LEMMA DeregisterKeeps == ASSUME StudentInv, Deregister PROVE StudentInv'
<1> USE UserRange
<1>1. /\ user' = 0 /\ valid' = FALSE /\ schedules' = {} /\ DOMAIN inbox' = {}
      /\ snapshot' = FALSE /\ told' = {} /\ flooded' = FALSE /\ broken' = FALSE
      /\ backlog' = 0 /\ UNCHANGED <<top, edition, uids, work>>
  BY DEF Deregister, portal
<1>2. StudentTypeOK'
  <2>1. top' \in 0 .. MaxNotices /\ edition' \in [Notices -> 1 .. MaxEdits + 1]
    BY <1>1
  <2>2. user' \in 0 .. uids' /\ uids' \in 0 .. MaxUsers
    BY <1>1
  <2>3. valid' \in BOOLEAN /\ schedules' \subseteq Modules
    BY <1>1
  <2> QED BY <1>1, <2>1, <2>2, <2>3 DEF StudentTypeOK
<1>3. AccountOK'
  <2>1. backlog' \in 0 .. top'
    BY <1>1
  <2>2. snapshot' \in BOOLEAN /\ flooded' \in BOOLEAN /\ broken' \in BOOLEAN /\ ~flooded'
    BY <1>1
  <2> QED BY <1>1, <2>1, <2>2 DEF AccountOK
<1>4. InboxOK' /\ BacklogStored' /\ BacklogIsSilent'
  BY <1>1 DEF InboxOK, BacklogStored, BacklogIsSilent
<1>5. WorkOK' /\ UsersKnown' /\ OpensOK'
  BY <1>1 DEF StudentInv, WorkOK, UsersKnown, OpensOK, OpenedRow, OwnToken
<1>6. \A v \in Workers : work[v] \in Bound => ~Mine(v)'
  BY <1>1, WorkersTask, TaskKinds DEF Mine, Accounts
<1>7. PagesOK'
  <2> SUFFICES ASSUME NEW v \in Workers, work[v] \in Synced
               PROVE  SyncedPage(work[v])'
    BY <1>1 DEF PagesOK
  <2>1. SyncedPage(work[v]) /\ user' # work'[v].uid
    BY <1>1, <1>6 DEF StudentInv, PagesOK, Bound, Mine
  <2> QED BY <1>1, <2>1 DEF SyncedPage
<1>8. HalvesOK'
  <2>1. ASSUME NEW v \in Workers, Doing(v, "register", "schedule inbox")'
        PROVE  ~Mine(v)'
    <3>1. work[v] \in Registering
      BY <1>1, <2>1, WorkersTask, TaskKinds DEF Doing
    <3> QED BY <1>6, <3>1 DEF Bound
  <2> QED BY <1>1, <2>1 DEF HalvesOK
<1> QED BY <1>2, <1>3, <1>4, <1>5, <1>7, <1>8 DEF StudentInv

LEMMA StudentStep == ASSUME StudentInv, [StudentNext]_studentVars PROVE StudentInv'
<1>1. CASE UNCHANGED studentVars
  <2>1. UNCHANGED Kept /\ valid' \in BOOLEAN /\ work' = work
    BY <1>1 DEF studentVars, account, Kept, StudentInv, StudentTypeOK
  <2>2. /\ uids' = uids /\ user' = user /\ top' = top /\ inbox' = inbox
        /\ backlog' = backlog /\ broken' = broken /\ schedules' = schedules
    BY <2>1 DEF Kept, portal, history
  <2>3. WorkOK' /\ UsersKnown' /\ HalvesOK'
    BY <2>1, <2>2 DEF StudentInv, WorkOK, UsersKnown, HalvesOK, Scheduling, Doing, Mine
  <2>4. OpensOK' /\ PagesOK'
    BY <2>1, <2>2 DEF StudentInv, OpensOK, OpenedRow, OwnToken, PagesOK, SyncedPage, Direct, Place
  <2> QED BY <2>1, <2>3, <2>4, RestKept DEF StudentInv
<1>2. ASSUME NEW w \in Workers, Proceeds(w) PROVE StudentInv'
  BY <1>2, FetchListKeeps, FetchDetailsKeeps, PersistInboxKeeps, FetchBodyKeeps,
     StoreBodyKeeps, SaveMarksKeeps, CommitNewKeeps, CommitUpdateKeeps, SchedulesKeep,
     RegistrationEnds, FailsKeep, FailRegistrationKeeps
  DEF Proceeds, Commit
<1> QED
  BY <1>1, <1>2, EnvironmentKeeps, OnboardRefusedKeeps, DeregisterKeeps, StartsKeep
  DEF StudentNext

LEMMA StudentInvariance == StudentSpec => []StudentInv
<1> QED BY InitStudent, StudentStep, PTL DEF StudentSpec

\* The rows, the tokens and the ids of a student's copy of the inbox keep their ranges
\* (inbox_messages, users, module_sync_schedule).
THEOREM StudentTypeCorrect == StudentSpec => []StudentTypeOK
<1>1. StudentInv => StudentTypeOK
  BY DEF StudentInv
<1> QED BY <1>1, StudentInvariance, PTL

\* What was on the portal at the registration is never announced as new, however the
\* onboarding, the scheduler's sync and the refreshes overlap: sync_worker.py and
\* snapshot_service.py.
THEOREM BacklogStaysSilent == StudentSpec => []BacklogIsSilent
<1>1. StudentInv => BacklogIsSilent
  BY DEF StudentInv
<1> QED BY <1>1, StudentInvariance, PTL

\* The body beside a number of the portal is that message's, though a place in the
\* list means another notice by the time it is fetched; a body beside a made-up id is
\* the notice's own, or a place told no number with it: handle_inbox_detail_fetch.
THEOREM BodiesMatchIds == StudentSpec => []BodyOfItsId
<1>1. StudentInv => BodyOfItsId
  BY DEF StudentInv, InboxOK, KeptRow, OwnBody, BodyOfItsId
<1> QED BY <1>1, StudentInvariance, PTL

\* A registration that neither runs nor failed leaves both schedules: registration.py
\* commits the user first and makes them afterwards, in transactions of their own.
THEOREM NoHalfRegistrations == StudentSpec => []NoHalfRegistration
<1>1. StudentInv => NoHalfRegistration
  BY DEF StudentInv, HalvesOK, NoHalfRegistration
<1> QED BY <1>1, StudentInvariance, PTL

=============================================================================
