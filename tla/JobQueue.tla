------------------------------ MODULE JobQueue ------------------------------
(***************************************************************************)
(* NitrisJobQueue (app/nitris/job_queue.py): two priority queues, three     *)
(* kinds of workers, single-flight deduplication by key and retry with      *)
(* backoff.  A job and its future are one: job i is the i-th enqueued, so   *)
(* its number is also its created_at.                                       *)
(*                                                                         *)
(* enqueue() suspends nowhere (its lock is never held across a suspension   *)
(* and the queues are unbounded), nor does the code from a handler's end to *)
(* the end of _run_job(): each is one action.  What a handler does is left  *)
(* to its outcome.  stop() ends the process and is left out.                *)
(***************************************************************************)
EXTENDS Integers, FiniteSets

CONSTANTS
    Keys,                \* dedup keys
    NoKey,               \* dedup_key=None
    InteractiveWorkers, BackgroundWorkers, SharedWorkers,
    MaxDepth,            \* max_queue_depth
    MaxRetries,          \* JOB_MAX_RETRIES
    MaxRequests,         \* bound: requests that create a job
    MaxCancels           \* bound: futures that get cancelled

ASSUME KeysAssumption == NoKey \notin Keys /\ IsFiniteSet(Keys)
ASSUME WorkersAssumption ==
    InteractiveWorkers \in Nat /\ BackgroundWorkers \in Nat /\ SharedWorkers \in Nat
ASSUME BoundsAssumption ==
    /\ MaxDepth \in Nat \ {0}
    /\ MaxRetries \in Nat
    /\ MaxRequests \in Nat
    /\ MaxCancels \in Nat

HIGH   == 1
MEDIUM == 2
LOW    == 3
Priorities == {HIGH, MEDIUM, LOW}

JobIds  == 1..(MaxRequests * (MaxRetries + 1))
Nothing == 0
Lanes   == {"interactive", "background", "shared"}

VARIABLES
    phase,      \* of a job: absent, queued, run by a worker of a lane, over
    prio, key, attempt,             \* NitrisJob.priority, .dedup_key, payload
    fut,        \* its future
    retry,      \* its _schedule_retry() task: none, sleeping, ended, or the
                \* job whose future the task awaits
    inFlight,   \* _in_flight: the job of each key, or Nothing
    impatient,  \* futures somebody awaits with asyncio.wait_for
    cancels     \* cancellations so far

job  == <<prio, key, attempt>>
vars == <<phase, prio, key, attempt, fut, retry, inFlight, impatient, cancels>>

TypeOK ==
    /\ phase \in [JobIds -> {"absent", "queued", "over"} \cup Lanes]
    /\ prio \in [JobIds -> Priorities]
    /\ key \in [JobIds -> Keys \cup {NoKey}]
    /\ attempt \in [JobIds -> 0..MaxRetries]
    /\ fut \in [JobIds -> {"pending", "result", "error", "cancelled"}]
    /\ retry \in [JobIds -> ({"none", "sleeping", "ended"} \X {Nothing})
                            \cup ({"awaiting"} \X JobIds)]
    /\ inFlight \in [Keys -> JobIds \cup {Nothing}]
    /\ impatient \subseteq JobIds
    /\ cancels \in 0..MaxCancels

Init ==
    /\ phase = [i \in JobIds |-> "absent"]
    /\ prio = [i \in JobIds |-> LOW]
    /\ key = [i \in JobIds |-> NoKey]
    /\ attempt = [i \in JobIds |-> 0]
    /\ fut = [i \in JobIds |-> "pending"]
    /\ retry = [i \in JobIds |-> <<"none", Nothing>>]
    /\ inFlight = [k \in Keys |-> Nothing]
    /\ impatient = {}
    /\ cancels = 0

Queued  == {i \in JobIds : phase[i] = "queued"}
Running == {i \in JobIds : phase[i] \in Lanes}
Depth   == Cardinality(Queued)

-----------------------------------------------------------------------------
(* enqueue().                                                               *)

\* Mutant of Admissible: one bound for every priority.
AdmissibleAlike(p) == Depth < MaxDepth

\* HIGH bypasses the cap up to twice its value.
Admissible(p) == Depth < (IF p = HIGH THEN 2 * MaxDepth ELSE MaxDepth)

\* The pending job of key k, if any: what a duplicate request joins.
Joinable(k) ==
    IF k = NoKey THEN Nothing
    ELSE IF inFlight[k] # Nothing /\ fut[inFlight[k]] = "pending"
         THEN inFlight[k] ELSE Nothing

\* Mutant of Create: the key is never entered.
CreateUnregistered(i, p, k, n) ==
    /\ phase[i] = "absent"
    /\ \A j \in JobIds : phase[j] = "absent" => i <= j
    /\ phase' = [phase EXCEPT ![i] = "queued"]
    /\ prio' = [prio EXCEPT ![i] = p]
    /\ key' = [key EXCEPT ![i] = k]
    /\ attempt' = [attempt EXCEPT ![i] = n]
    /\ inFlight' = inFlight

\* Job i is created and queued, and is the job of its key from here on.
Create(i, p, k, n) ==
    /\ phase[i] = "absent"
    /\ \A j \in JobIds : phase[j] = "absent" => i <= j
    /\ phase' = [phase EXCEPT ![i] = "queued"]
    /\ prio' = [prio EXCEPT ![i] = p]
    /\ key' = [key EXCEPT ![i] = k]
    /\ attempt' = [attempt EXCEPT ![i] = n]
    /\ inFlight' = IF k = NoKey THEN inFlight ELSE [inFlight EXCEPT ![k] = i]

\* Callers of MEDIUM requests bound their wait for the future, those of LOW ones
\* await nothing, and of the HIGH ones some do (the refresh of the inbox) while
\* the others leave the rendering to the job.
Awaited(p, i) ==
    \/ p # LOW /\ impatient' = impatient \cup {i}
    \/ p # MEDIUM /\ impatient' = impatient

\* A rejected request (RuntimeError) changes nothing.
RequestNew(p, k, i) ==
    /\ Admissible(p)
    /\ Joinable(k) = Nothing
    /\ Cardinality({j \in JobIds : phase[j] # "absent" /\ attempt[j] = 0}) < MaxRequests
    /\ Create(i, p, k, 0)
    /\ Awaited(p, i)
    /\ UNCHANGED <<fut, retry, cancels>>

RequestJoins(p, k) ==
    /\ Admissible(p)
    /\ Joinable(k) # Nothing
    /\ Awaited(p, Joinable(k))
    /\ UNCHANGED <<phase, job, fut, retry, inFlight, cancels>>

-----------------------------------------------------------------------------
(* Workers.                                                                 *)

Slots(lane) == CASE lane = "interactive" -> InteractiveWorkers
                 [] lane = "background"  -> BackgroundWorkers
                 [] lane = "shared"      -> SharedWorkers

Serves(lane) == CASE lane = "interactive" -> {HIGH}
                  [] lane = "background"  -> {MEDIUM, LOW}
                  [] lane = "shared"      -> Priorities

\* Job order: priority, then age.
Before(i, j) == prio[i] < prio[j] \/ (prio[i] = prio[j] /\ i <= j)

Take(lane, i) ==
    /\ Cardinality({j \in JobIds : phase[j] = lane}) < Slots(lane)
    /\ i \in Queued /\ prio[i] \in Serves(lane)
    /\ \A j \in Queued : prio[j] \in Serves(lane) => Before(i, j)
    /\ phase' = [phase EXCEPT ![i] = lane]
    /\ UNCHANGED <<job, fut, retry, inFlight, impatient, cancels>>

\* A future is settled only if nobody settled it before.
Settle(i, how) == fut' = IF fut[i] = "pending" THEN [fut EXCEPT ![i] = how] ELSE fut

\* _cleanup_dedup(): whatever job the key has by now.
Cleanup(k) == inFlight' = IF k = NoKey THEN inFlight ELSE [inFlight EXCEPT ![k] = Nothing]

Over(i) == i \in Running /\ phase' = [phase EXCEPT ![i] = "over"]

Succeed(i) ==
    /\ Over(i)
    /\ Settle(i, "result")
    /\ Cleanup(key[i])
    /\ UNCHANGED <<job, retry, impatient, cancels>>

\* Mutant of FailForGood: a job without a handler is only logged.
FailForGoodSilently(i) ==
    /\ Over(i)
    /\ UNCHANGED <<job, fut, retry, inFlight, impatient, cancels>>

\* No handler, a permanent error at any attempt, or the last attempt's error.
FailForGood(i) ==
    /\ Over(i)
    /\ Settle(i, "error")
    /\ Cleanup(key[i])
    /\ UNCHANGED <<job, retry, impatient, cancels>>

\* A transient error: the key stays taken across the backoff.
FailAndRetry(i) ==
    /\ Over(i)
    /\ attempt[i] < MaxRetries
    /\ retry' = [retry EXCEPT ![i] = <<"sleeping", Nothing>>]
    /\ UNCHANGED <<job, fut, inFlight, impatient, cancels>>

-----------------------------------------------------------------------------
(* _schedule_retry() after its sleep.                                       *)

Sleeping(i) == retry[i][1] = "sleeping"

RetryNew(i, j) ==
    /\ Sleeping(i)
    /\ Admissible(prio[i])
    /\ Joinable(key[i]) = Nothing
    /\ Create(j, prio[i], key[i], attempt[i] + 1)
    /\ retry' = [retry EXCEPT ![i] = <<"awaiting", j>>]
    /\ UNCHANGED <<fut, impatient, cancels>>

\* Single flight applies to the retry itself.
RetryJoins(i) ==
    /\ Sleeping(i)
    /\ Admissible(prio[i])
    /\ Joinable(key[i]) # Nothing
    /\ retry' = [retry EXCEPT ![i] = <<"awaiting", Joinable(key[i])>>]
    /\ UNCHANGED <<phase, job, fut, inFlight, impatient, cancels>>

\* Mutant of RetryRejected: the rejection is only logged.
RetryRejectedSilently(i) ==
    /\ Sleeping(i)
    /\ ~Admissible(prio[i])
    /\ Cleanup(key[i])
    /\ retry' = [retry EXCEPT ![i] = <<"ended", Nothing>>]
    /\ UNCHANGED <<phase, job, fut, impatient, cancels>>

RetryRejected(i) ==
    /\ Sleeping(i)
    /\ ~Admissible(prio[i])
    /\ Settle(i, "error")
    /\ Cleanup(key[i])
    /\ retry' = [retry EXCEPT ![i] = <<"ended", Nothing>>]
    /\ UNCHANGED <<phase, job, impatient, cancels>>

\* Mutant of RetryEnds: the outcome stays with the retry's own future.
RetryEndsUnread(i) ==
    /\ retry[i][1] = "awaiting"
    /\ fut[retry[i][2]] # "pending"
    /\ Cleanup(key[i])
    /\ retry' = [retry EXCEPT ![i] = <<"ended", Nothing>>]
    /\ UNCHANGED <<phase, job, fut, impatient, cancels>>

\* The awaited future is settled: its outcome is handed on.  A cancellation is
\* no Exception and is not.
RetryEnds(i) ==
    /\ retry[i][1] = "awaiting"
    /\ LET f == retry[i][2]
       IN  /\ fut[f] # "pending"
           /\ IF fut[f] = "cancelled" THEN fut' = fut ELSE Settle(i, fut[f])
    /\ Cleanup(key[i])
    /\ retry' = [retry EXCEPT ![i] = <<"ended", Nothing>>]
    /\ UNCHANGED <<phase, job, impatient, cancels>>

-----------------------------------------------------------------------------
(* Cancellation: the job is not told.                                       *)

CancelFuture(i) ==
    /\ cancels < MaxCancels
    /\ cancels' = cancels + 1
    /\ fut' = [fut EXCEPT ![i] = "cancelled"]
    /\ UNCHANGED <<phase, job, retry, inFlight, impatient>>

\* asyncio.wait_for() cancels the future its caller gave up on, whoever else
\* awaits it.
WaiterTimesOut(i) == i \in impatient /\ fut[i] = "pending" /\ CancelFuture(i)

CancelDedup(k) == Joinable(k) # Nothing /\ CancelFuture(Joinable(k))

-----------------------------------------------------------------------------
Finish(i) == Succeed(i) \/ FailForGood(i) \/ FailAndRetry(i)
RetryStep(i) ==
    \/ \E j \in JobIds : RetryNew(i, j)
    \/ RetryJoins(i) \/ RetryRejected(i) \/ RetryEnds(i)

Next ==
    \/ \E p \in Priorities, k \in Keys \cup {NoKey}, i \in JobIds : RequestNew(p, k, i)
    \/ \E p \in Priorities, k \in Keys : RequestJoins(p, k)
    \/ \E lane \in Lanes, i \in JobIds : Take(lane, i)
    \/ \E i \in JobIds :
        \/ Succeed(i) \/ FailForGood(i) \/ FailAndRetry(i)
        \/ \E j \in JobIds : RetryNew(i, j)
        \/ RetryJoins(i) \/ RetryRejected(i) \/ RetryEnds(i)
        \/ WaiterTimesOut(i)
    \/ \E k \in Keys : CancelDedup(k)

Spec == Init /\ [][Next]_vars

\* Free workers take jobs, handlers end, a retry task runs once its sleep is
\* over or its future is settled, and a wait_for() comes to its timeout.
\* Nobody has to ask for anything.
Fairness ==
    /\ \A lane \in Lanes : WF_vars(\E i \in JobIds : Take(lane, i))
    /\ \A i \in JobIds : /\ WF_vars(Finish(i)) /\ WF_vars(RetryStep(i))
                         /\ WF_vars(WaiterTimesOut(i))
FairSpec == Spec /\ Fairness

-----------------------------------------------------------------------------
(* Properties.                                                              *)

\* The hard queue bound: no surge takes the queues past twice the cap.
DepthBounded == Depth <= 2 * MaxDepth

\* "a LOW/prewarm surge filling the shared budget can never reject a
\* user-facing tap": unless taps themselves fill the queue, a tap is admitted.
TapAdmitted ==
    (\A i \in Queued : prio[i] # HIGH) => Admissible(HIGH)

\* A job is alive while it waits in a queue, a worker has it, or its retry task
\* sleeps before the next attempt.
Alive(i) == i \in Queued \cup Running \/ Sleeping(i)

\* Its retry task was handed the very future it is to settle, and nobody else
\* will: the end of every keyed job that is retried (README, section 6).
SelfJoined(i) == retry[i] = <<"awaiting", i>>

\* A duplicate request joins a job that was enqueued under the same key and is
\* alive, or one that joined itself: never one that is over, or was given up
\* when its retry was rejected, or has an answer on its way from another job.
JoinsLiveJob ==
    \A k \in Keys : Joinable(k) # Nothing =>
        /\ key[Joinable(k)] = k
        /\ Alive(Joinable(k)) \/ SelfJoined(Joinable(k))

\* While nobody has cancelled anything, the future of an enqueued job is
\* unsettled only while the job is alive; or, without a key, while its next
\* attempt is to answer it, and there are at most MaxRetries of these; or, with
\* a key, because it joined itself, and then only a cancellation frees the key.
PendingIsAlive ==
    cancels = 0 => \A i \in JobIds : (phase[i] # "absent" /\ fut[i] = "pending") =>
        \/ Alive(i)
        \/ key[i] = NoKey /\ \E j \in JobIds :
              /\ retry[i] = <<"awaiting", j>>
              /\ phase[j] # "absent" /\ attempt[j] = attempt[i] + 1
        \/ key[i] # NoKey /\ SelfJoined(i) /\ inFlight[key[i]] = i

\* A future is settled once: neither a late result, nor the end of a retry
\* chain, nor a cancellation changes an answer that was given.
AnsweredOnce ==
    [][\A i \in JobIds : fut[i] # "pending" => fut'[i] = fut[i]]_vars

\* Single flight: while nobody has cancelled anything, one job at most of a key
\* waits in a queue or runs.
SingleFlight ==
    cancels = 0 => \A i, j \in Queued \cup Running : key[i] # NoKey /\ key[i] = key[j] => i = j

\* Every job without a key is answered, through all of its retries.
UnkeyedAnswered ==
    \A i \in JobIds :
        (phase[i] = "queued" /\ key[i] = NoKey) ~> fut[i] # "pending"

\* The same for a job with a key.
KeyedAnswered ==
    \A i \in JobIds :
        (phase[i] = "queued" /\ key[i] # NoKey) ~> fut[i] # "pending"

=============================================================================
