------------------------------ MODULE Scheduler ------------------------------
(***************************************************************************)
(* Background syncs (app/services/scheduler_service.py): a loop claims the   *)
(* due rows of module_sync_schedule and enqueues a job for each; the jobs    *)
(* write their outcome back to the row.                                      *)
(*                                                                         *)
(* The time of next_sync_at is left out: a row is due or not, and of the due  *)
(* rows it is known which were due before which.  A row whose claim is older *)
(* than SCHEDULER_CLAIM_STALE_SECONDS counts as not claimed, for no code      *)
(* tells the two apart.  Of the job queue there are the jobs, their retries   *)
(* and its refusal, of the portal the outcome.  The rows of other modules     *)
(* have no job, and are not due for ten years.                               *)
(***************************************************************************)
EXTENDS Integers, FiniteSets

CONSTANTS
    Rows,
    None,
    Batch,              \* SCHEDULER_BATCH_SIZE
    SchedulerDepth,     \* SCHEDULER_MAX_QUEUE_DEPTH
    Limit,              \* consecutive failures that disable a row
    MaxRetries,         \* JOB_MAX_RETRIES
    Jobs,               \* bound: jobs at once
    Faults              \* bound: crashes, refusals, errors of the database, open circuits

ASSUME RowsAssumption == IsFiniteSet(Rows) /\ None \notin Rows \cup Nat
ASSUME NamesAssumption ==
    None \notin {"queued", "failed", "again", "succeeded", "sleeping"}
ASSUME BoundsAssumption ==
    /\ Batch \in Nat \ {0} /\ SchedulerDepth \in Nat /\ Limit \in Nat \ {0}
    /\ MaxRetries \in Nat /\ Jobs \in Nat /\ Faults \in Nat

\* Who writes outcomes: the jobs, and the loop itself.
Loop == 0
JobIds == 1..Jobs
Writers == {Loop} \cup JobIds

VARIABLES
    due,            \* the rows whose next_sync_at has passed
    ahead,          \* of each due row: those that were due before it
    disabled,       \* the rows with last_status = 'disabled'
    failures,       \* of each row: consecutive_failures, which matters up to Limit
    claimed,        \* the rows with a fresh scheduler_claimed_at
    batch,          \* the loop's claimed rows that it has not yet enqueued
    job,            \* of each writer: its row, what it does, the failures it read, its retries
    circuitOpen,    \* nitris_gateway.is_circuit_open()
    failed,         \* history of each row: failures since its last success or re-arming;
                    \* None if the row was released while a writer was at it
    faults

row == <<due, ahead, disabled, failures, claimed>>
vars == <<due, ahead, disabled, failures, claimed, batch, job, circuitOpen, failed, faults>>

NoJob == [row |-> None, phase |-> None, read |-> None, retries |-> 0]
Phases == {"queued", "failed", "again", "succeeded", "sleeping"}
JobType ==
    [row : Rows \cup {None}, phase : Phases \cup {None},
     read : (0..Limit) \cup {None}, retries : 0..MaxRetries]

TypeOK ==
    /\ due \subseteq Rows /\ ahead \in [Rows -> SUBSET Rows]
    /\ disabled \subseteq Rows \ due /\ failures \in [Rows -> 0..Limit]
    /\ claimed \subseteq Rows /\ batch \subseteq Rows
    /\ job \in [Writers -> JobType]
    /\ \A u \in Writers : (job[u].row = None) <=> (job[u] = NoJob)
    /\ \A u \in Writers : (job[u].row = None) <=> (job[u].phase = None)
    /\ \A u \in Writers : job[u].read # None => job[u].phase \in {"failed", "again"}
    /\ job[Loop].phase \in {None, "failed"}
    /\ circuitOpen \in BOOLEAN /\ failed \in [Rows -> (0..Limit) \cup {None}]
    /\ faults \in 0..Faults

\* The rows that registration makes (ensure_schedule_exists): not yet due.
Init ==
    /\ due = {} /\ ahead = [r \in Rows |-> {}] /\ disabled = {} /\ failures = [r \in Rows |-> 0]
    /\ claimed = {} /\ batch = {}
    /\ job = [u \in Writers |-> NoJob] /\ circuitOpen = FALSE
    /\ failed = [r \in Rows |-> 0] /\ faults = 0

At(r) == {u \in Writers : job[u].row = r}
JobsOf(r) == At(r) \ {Loop}
Busy(r) == At(r) # {} \/ r \in batch

OneMore(n) == IF n < Limit THEN n + 1 ELSE Limit
Failure(r) == failed' = [failed EXCEPT ![r] = IF @ = None THEN None ELSE OneMore(@)]
Loosened(r) == failed' = [failed EXCEPT ![r] = None]
Fault == faults < Faults /\ faults' = faults + 1

-----------------------------------------------------------------------------
\* Time passes.

\* Of a disabled row, next_sync_at is of no use.
BecomesDue(r) ==
    /\ r \notin due \cup disabled
    /\ due' = due \cup {r} /\ ahead' = [ahead EXCEPT ![r] = due]
    /\ UNCHANGED <<disabled, failures, claimed, batch, job, circuitOpen, failed, faults>>

ClaimAges(r) ==
    /\ r \in claimed /\ claimed' = claimed \ {r}
    /\ IF Busy(r) THEN Loosened(r) ELSE UNCHANGED failed
    /\ UNCHANGED <<due, ahead, disabled, failures, batch, job, circuitOpen, faults>>

CircuitOpens ==
    /\ ~circuitOpen /\ circuitOpen' = TRUE /\ Fault
    /\ UNCHANGED <<row, batch, job, failed>>

\* After CIRCUIT_RECOVERY_SECONDS.
CircuitCools ==
    /\ circuitOpen /\ circuitOpen' = FALSE
    /\ UNCHANGED <<row, batch, job, failed, faults>>

-----------------------------------------------------------------------------
\* The loop.

\* Mutant of Claimable: scheduler_claimed_at is not looked at.
ClaimableAnyAge(r) == r \notin disabled

Claimable(r) == r \notin disabled /\ r \notin claimed

\* Mutant of Oldest: the latest of them.
Latest ==
    LET behind(r) == {d \in due : r \in ahead[d]}
    IN {r \in due : Claimable(r) /\ Cardinality({d \in behind(r) : Claimable(d)}) < Batch}

\* The Batch claimable rows that have been due for longest.
Oldest == {r \in due : Claimable(r) /\ Cardinality({d \in ahead[r] : Claimable(d)}) < Batch}

\* The loop looks at the circuit, then at the depth of the queue.
Claims ==
    /\ batch = {} /\ job[Loop] = NoJob
    /\ ~circuitOpen
    /\ Cardinality({j \in JobIds : job[j].phase = "queued"}) < SchedulerDepth
    /\ Oldest # {} /\ claimed' = claimed \cup Oldest
    /\ UNCHANGED <<due, ahead, disabled, failures, job, circuitOpen, failed>>

ClaimDue == Claims /\ batch' = Oldest /\ UNCHANGED faults

\* The claim is committed, but its answer is lost.
ClaimLost == Claims /\ UNCHANGED batch /\ Fault

Enqueue(r) ==
    /\ r \in batch /\ batch' = batch \ {r}
    /\ \E j \in JobIds :
           /\ job[j] = NoJob /\ \A i \in 1..(j - 1) : job[i] # NoJob
           /\ job' = [job EXCEPT ![j] = [NoJob EXCEPT !.row = r, !.phase = "queued"]]
    /\ UNCHANGED <<row, circuitOpen, failed, faults>>

\* The queue is full: the loop records a failure of the row and drops the rest of
\* its batch, claims and all.
Refused(r) ==
    /\ r \in batch /\ batch' = {} /\ Fault
    /\ job' = [job EXCEPT ![Loop] = [NoJob EXCEPT !.row = r, !.phase = "failed"]]
    /\ Failure(r)
    /\ UNCHANGED <<row, circuitOpen>>

-----------------------------------------------------------------------------
\* handle_sync_attendance(), handle_sync_inbox()

\* A worker takes the job, which fails: no user with valid credentials, an open
\* circuit, an unavailable portal, a rejected login or another exception.
Fails(j) ==
    /\ job[j].phase = "queued" /\ job' = [job EXCEPT ![j].phase = "failed"]
    /\ Failure(job[j].row)
    /\ UNCHANGED <<row, batch, circuitOpen, faults>>

Succeeds(j) ==
    /\ job[j].phase = "queued" /\ ~circuitOpen
    /\ job' = [job EXCEPT ![j].phase = "succeeded"]
    /\ UNCHANGED <<row, batch, circuitOpen, failed, faults>>

-----------------------------------------------------------------------------
\* update_schedule_after_job()

\* The writer reads consecutive_failures, without a lock.
ReadFailures(u) ==
    /\ job[u].phase \in {"failed", "again"} /\ job[u].read = None
    /\ job' = [job EXCEPT ![u].read = failures[job[u].row]]
    /\ UNCHANGED <<row, batch, circuitOpen, failed, faults>>

\* The row's next sync is set and its claim is cleared, whoever holds it.
Rescheduled(r) ==
    /\ due' = due \ {r} /\ claimed' = claimed \ {r}
    /\ ahead' = [d \in Rows |-> IF d = r THEN {} ELSE ahead[d] \ {r}]

\* Mutant of FailureWritten: disabled one failure early.
FailureWrittenEarly(u) ==
    /\ job[u].read # None /\ Rescheduled(job[u].row)
    /\ failures' = [failures EXCEPT ![job[u].row] = OneMore(job[u].read)]
    /\ disabled' = IF OneMore(job[u].read) >= Limit - 1
                   THEN disabled \cup {job[u].row} ELSE disabled \ {job[u].row}

FailureWritten(u) ==
    /\ job[u].read # None /\ Rescheduled(job[u].row)
    /\ failures' = [failures EXCEPT ![job[u].row] = OneMore(job[u].read)]
    /\ disabled' = IF OneMore(job[u].read) >= Limit
                   THEN disabled \cup {job[u].row} ELSE disabled \ {job[u].row}

\* Mutant of SuccessWritten: the failures go on counting.
SuccessWrittenOnly(u) ==
    /\ job[u].phase = "succeeded" /\ Rescheduled(job[u].row)
    /\ disabled' = disabled \ {job[u].row} /\ UNCHANGED failures

SuccessWritten(u) ==
    /\ job[u].phase = "succeeded" /\ Rescheduled(job[u].row)
    /\ disabled' = disabled \ {job[u].row}
    /\ failures' = [failures EXCEPT ![job[u].row] = 0]

\* A write is counted as what it was, unless somebody is at the row afterwards.
Written(u, next) ==
    LET r == job[u].row
    IN /\ FailureWritten(u) \/ SuccessWritten(u)
       /\ job' = [job EXCEPT ![u] = next]
       /\ IF At(r) # {u} \/ next # NoJob \/ r \in batch THEN Loosened(r)
          ELSE IF job[u].phase = "succeeded" THEN failed' = [failed EXCEPT ![r] = 0]
          ELSE UNCHANGED failed

Writes(u) == Written(u, NoJob) /\ UNCHANGED <<batch, circuitOpen, faults>>

\* After an exception of the database: the loop ends its cycle, and a job is retried
\* by the queue; but where no valid user was found, the handler writes once again.
GoesOn(u) ==
    LET to(phase) == [job[u] EXCEPT !.phase = phase, !.read = None]
    IN (IF u # Loop /\ job[u].phase = "failed" THEN {to("again")} ELSE {})
       \cup {IF u # Loop /\ job[u].retries < MaxRetries
             THEN [to("sleeping") EXCEPT !.retries = @ + 1] ELSE NoJob}

WriteFails(u) ==
    /\ job[u].phase \in {"failed", "again", "succeeded"} /\ Fault
    /\ \E next \in GoesOn(u) : job' = [job EXCEPT ![u] = next]
    /\ UNCHANGED <<row, batch, circuitOpen, failed>>

\* The transaction is committed, but its answer is lost.
AnswerLost(u) ==
    /\ Fault /\ \E next \in GoesOn(u) : Written(u, next)
    /\ UNCHANGED <<batch, circuitOpen>>

\* _schedule_retry(): back to the queue after the backoff, or gone if it is full.
\* (A retry follows a fault, so its refusal needs no bound of its own.)
Wakes(j) ==
    /\ job[j].phase = "sleeping" /\ job' = [job EXCEPT ![j].phase = "queued"]
    /\ UNCHANGED <<row, batch, circuitOpen, failed, faults>>

RetryRefused(j) ==
    /\ job[j].phase = "sleeping" /\ job' = [job EXCEPT ![j] = NoJob]
    /\ UNCHANGED <<row, batch, circuitOpen, failed, faults>>

-----------------------------------------------------------------------------
\* The process restarts; the claims stay in the table.
Restart ==
    /\ (batch # {} \/ \E u \in Writers : job[u] # NoJob) /\ Fault
    /\ batch' = {} /\ job' = [u \in Writers |-> NoJob]
    /\ UNCHANGED <<row, circuitOpen, failed>>

\* The student gives new credentials (on_credentials_updated).
ReArm(r) ==
    /\ r \in disabled /\ disabled' = disabled \ {r}
    /\ failures' = [failures EXCEPT ![r] = 0]
    /\ claimed' = claimed \ {r}
    /\ due' = due \cup {r} /\ ahead' = [ahead EXCEPT ![r] = due]
    /\ failed' = [failed EXCEPT ![r] = IF Busy(r) THEN None ELSE 0]
    /\ UNCHANGED <<batch, job, circuitOpen, faults>>

-----------------------------------------------------------------------------
Cycle == ClaimDue \/ ClaimLost \/ \E r \in batch : Enqueue(r) \/ Refused(r)

Update(u) == ReadFailures(u) \/ Writes(u) \/ WriteFails(u) \/ AnswerLost(u)

Run(j) == Fails(j) \/ Succeeds(j) \/ Wakes(j) \/ RetryRefused(j)

Next ==
    \/ Cycle
    \/ \E u \in Writers : Update(u)
    \/ \E j \in JobIds : Run(j)
    \/ \E r \in Rows : BecomesDue(r) \/ ClaimAges(r) \/ ReArm(r)
    \/ CircuitOpens \/ CircuitCools \/ Restart

Spec == Init /\ [][Next]_vars

\* The loop polls for ever, the queue's workers run every job and its retries, and
\* time passes: claims age and an open circuit cools.
FairSpec ==
    /\ Spec
    /\ WF_vars(Cycle) /\ WF_vars(CircuitCools)
    /\ \A u \in Writers : WF_vars(Update(u))
    /\ \A j \in JobIds : WF_vars(Run(j))
    /\ \A r \in Rows : WF_vars(ClaimAges(r))

-----------------------------------------------------------------------------
(***************************************************************************)
(* Properties                                                               *)
(***************************************************************************)

\* "This prevents duplicate scheduling": a row has one job at a time, unless its
\* claim went stale or was cleared while a writer was at it.
OneJobPerRow == \A r \in Rows : Cardinality(JobsOf(r)) > 1 => failed[r] = None

\* "After 5 consecutive failures, disable this module": a row is not disabled after
\* fewer failures since its last success or re-arming, unless two writers met there.
DisabledAfterFailures == \A r \in disabled : failed[r] = None \/ failed[r] >= Limit

\* A due row gets its next sync or is disabled: no claim left behind by a full
\* queue, a crash or a lost job keeps it, and no other row is always served first.
DueServed ==
    \A r \in Rows : (r \in due) ~> (r \notin due)

=============================================================================
