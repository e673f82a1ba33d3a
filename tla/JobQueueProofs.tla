--------------------------- MODULE JobQueueProofs ---------------------------
(***************************************************************************)
(* The bounds of the queue and the soundness of its deduplication map, for  *)
(* every number of workers, requests, retries and cancellations, and, where *)
(* nothing is cancelled, single flight and that no future is left alone; at  *)
(* the end, what becomes of the screens that the queue's jobs draw, for every *)
(* number of taps and bubbles.                                               *)
(***************************************************************************)
EXTENDS JobQueue, Screens, FiniteSetTheorems, TLAPS

-----------------------------------------------------------------------------
(* The inductive invariant.                                                 *)

BackgroundQueued == {i \in Queued : prio[i] # HIGH}

\* MEDIUM and LOW jobs are admitted below MaxDepth only, so they never hold
\* more than that of the queues.
QueueBounds == DepthBounded /\ Cardinality(BackgroundQueued) <= MaxDepth

\* What _in_flight holds: a job that was enqueued under that key and, while its
\* future is pending, is alive or has joined itself.
Registered ==
    \A k \in Keys : inFlight[k] # Nothing =>
        /\ phase[inFlight[k]] # "absent"
        /\ key[inFlight[k]] = k
        /\ fut[inFlight[k]] = "pending" => Alive(inFlight[k]) \/ SelfJoined(inFlight[k])

\* A retry task sleeps only for a job that ended with attempts left.
RetryDue ==
    \A i \in JobIds : Sleeping(i) => phase[i] = "over" /\ attempt[i] < MaxRetries

IInv == TypeOK /\ QueueBounds /\ Registered /\ RetryDue

LEMMA JobIdsFinite ==
    /\ JobIds \subseteq Nat \ {0}
    /\ IsFiniteSet(JobIds)
<1>1. MaxRequests * (MaxRetries + 1) \in Nat
  BY BoundsAssumption
<1>2. 1 \in Int /\ MaxRequests * (MaxRetries + 1) \in Int
  BY <1>1
<1>3. IsFiniteSet(1..(MaxRequests * (MaxRetries + 1)))
  BY <1>2, FS_Interval
<1> DEFINE n == MaxRequests * (MaxRetries + 1)
<1>4. 1..n \subseteq Nat \ {0}
  <2> HIDE DEF n
  <2> QED OBVIOUS
<1> QED BY <1>3, <1>4 DEF JobIds

\* The queues are finite, and a smaller queue is no deeper.
LEMMA QueueFinite ==
    /\ IsFiniteSet(Queued) /\ Depth \in Nat
    /\ IsFiniteSet(BackgroundQueued) /\ Cardinality(BackgroundQueued) \in Nat
    /\ Cardinality(BackgroundQueued) <= Depth
<1>1. Queued \subseteq JobIds /\ BackgroundQueued \subseteq Queued
  BY DEF Queued, BackgroundQueued
<1> QED BY <1>1, JobIdsFinite, FS_Subset, FS_CardinalityType DEF Depth

\* At the start nothing is queued, registered or retried.
LEMMA InitInv == Init => IInv
<1> SUFFICES ASSUME Init PROVE IInv
  OBVIOUS
<1>1. TypeOK
  BY BoundsAssumption DEF Init, TypeOK, Priorities, Nothing
<1>2. QueueBounds
  <2>1. Queued = {} /\ BackgroundQueued = {}
    BY DEF Init, Queued, BackgroundQueued
  <2> QED BY <2>1, FS_EmptySet, BoundsAssumption DEF QueueBounds, DepthBounded, Depth
<1>3. Registered /\ RetryDue
  BY DEF Init, Registered, RetryDue, Sleeping, Nothing
<1> QED BY <1>1, <1>2, <1>3 DEF IInv

-----------------------------------------------------------------------------
(* What the shared pieces of the actions preserve.                          *)

\* Enqueueing an admissible job.
LEMMA CreateInv ==
    ASSUME IInv, NEW i \in JobIds, NEW p \in Priorities, NEW k \in Keys \cup {NoKey},
           NEW n \in 0..MaxRetries, Admissible(p), Create(i, p, k, n)
    PROVE  /\ phase' \in [JobIds -> {"absent", "queued", "over"} \cup Lanes]
           /\ prio' \in [JobIds -> Priorities]
           /\ key' \in [JobIds -> Keys \cup {NoKey}]
           /\ attempt' \in [JobIds -> 0..MaxRetries]
           /\ inFlight' \in [Keys -> JobIds \cup {Nothing}]
           /\ QueueBounds'
<1> USE DEF IInv
<1>1. /\ phase' \in [JobIds -> {"absent", "queued", "over"} \cup Lanes]
      /\ prio' \in [JobIds -> Priorities]
      /\ key' \in [JobIds -> Keys \cup {NoKey}]
      /\ attempt' \in [JobIds -> 0..MaxRetries]
      /\ inFlight' \in [Keys -> JobIds \cup {Nothing}]
  BY DEF Create, TypeOK
<1>2. Queued' = Queued \cup {i} /\ i \notin Queued
  BY DEF Create, TypeOK, Queued
<1>3. Depth' = Depth + 1
  BY <1>2, QueueFinite, FS_AddElement DEF Depth
<1>4. DepthBounded'
  BY <1>3, QueueFinite, BoundsAssumption DEF Admissible, DepthBounded
<1>5. Cardinality(BackgroundQueued)' <= MaxDepth
  <2>1. CASE p = HIGH
    <3>1. BackgroundQueued' = BackgroundQueued
      BY <1>2, <2>1 DEF BackgroundQueued, Create, TypeOK, Queued
    <3> QED BY <3>1 DEF QueueBounds
  <2>2. CASE p # HIGH
    <3>1. Depth' <= MaxDepth
      BY <1>3, <2>2, QueueFinite, BoundsAssumption DEF Admissible
    <3>2. BackgroundQueued' \subseteq Queued' /\ IsFiniteSet(Queued')
      BY <1>2, QueueFinite, FS_AddElement DEF BackgroundQueued
    <3>3. /\ Cardinality(BackgroundQueued') <= Cardinality(Queued')
          /\ Cardinality(BackgroundQueued') \in Nat /\ Cardinality(Queued') \in Nat
      BY <3>2, FS_Subset, FS_CardinalityType
    <3> QED BY <3>1, <3>3, BoundsAssumption DEF Depth
  <2> QED BY <2>1, <2>2
<1> QED BY <1>1, <1>4, <1>5 DEF QueueBounds

\* Steps that queue nothing keep the bounds.
LEMMA BoundsFrame ==
    ASSUME QueueBounds, Queued' \subseteq Queued, prio' = prio
    PROVE  QueueBounds'
<1>1. /\ IsFiniteSet(Queued) /\ IsFiniteSet(BackgroundQueued)
      /\ Depth \in Nat /\ Cardinality(BackgroundQueued) \in Nat
  BY QueueFinite
<1>2. BackgroundQueued' \subseteq BackgroundQueued
  BY DEF BackgroundQueued
<1>3. /\ Cardinality(Queued') <= Cardinality(Queued)
      /\ Cardinality(BackgroundQueued') <= Cardinality(BackgroundQueued)
      /\ Cardinality(Queued') \in Nat /\ Cardinality(BackgroundQueued') \in Nat
  BY <1>1, <1>2, FS_Subset, FS_CardinalityType
<1> QED BY <1>1, <1>3, BoundsAssumption DEF QueueBounds, DepthBounded, Depth

LEMMA SettleType ==
    ASSUME TypeOK, NEW i \in JobIds, NEW how \in {"result", "error"}, Settle(i, how)
    PROVE  /\ fut' \in [JobIds -> {"pending", "result", "error", "cancelled"}]
           /\ fut'[i] # "pending"
           /\ \A j \in JobIds : j # i => fut'[j] = fut[j]
           /\ \A j \in JobIds : fut[j] # "pending" => fut'[j] = fut[j]
<1> QED BY DEF Settle, TypeOK

LEMMA CleanupType ==
    ASSUME TypeOK, NEW k \in Keys \cup {NoKey}, Cleanup(k)
    PROVE  /\ inFlight' \in [Keys -> JobIds \cup {Nothing}]
           /\ \A l \in Keys : inFlight'[l] = inFlight[l] \/ inFlight'[l] = Nothing
           /\ k \in Keys => inFlight'[k] = Nothing
<1> QED BY KeysAssumption DEF Cleanup, TypeOK

-----------------------------------------------------------------------------
(* One lemma per action.                                                    *)

LEMMA RequestNewInv ==
    ASSUME IInv, NEW p \in Priorities, NEW k \in Keys \cup {NoKey}, NEW i \in JobIds,
           RequestNew(p, k, i)
    PROVE  IInv'
<1> USE DEF IInv
<1>1. 0 \in 0..MaxRetries /\ Admissible(p) /\ Create(i, p, k, 0)
  BY BoundsAssumption DEF RequestNew
<1>2. TypeOK' /\ QueueBounds'
  BY <1>1, CreateInv DEF RequestNew, Awaited, TypeOK
<1>3. Registered'
  BY <1>1, KeysAssumption DEF RequestNew, Create, Registered, Alive, SelfJoined, Sleeping, Queued, Running, TypeOK
<1>4. RetryDue'
  BY <1>1 DEF RequestNew, Create, RetryDue, Sleeping, TypeOK
<1> QED BY <1>2, <1>3, <1>4

LEMMA RequestJoinsInv ==
    ASSUME IInv, NEW p \in Priorities, NEW k \in Keys, RequestJoins(p, k)
    PROVE  IInv'
<1> USE DEF IInv
<1>1. impatient' \subseteq JobIds
  BY DEF RequestJoins, Awaited, Joinable, TypeOK, Nothing
<1> QED BY <1>1 DEF RequestJoins, job, TypeOK, QueueBounds, DepthBounded, Depth, Queued,
            BackgroundQueued, Registered, Alive, SelfJoined, Sleeping, Running, RetryDue, Sleeping

LEMMA TakeInv ==
    ASSUME IInv, NEW lane \in Lanes, NEW i \in JobIds, Take(lane, i)
    PROVE  IInv'
<1> USE DEF IInv
<1>1. TypeOK'
  BY DEF Take, TypeOK, job
<1>2. QueueBounds'
  <2>1. Queued' \subseteq Queued /\ prio' = prio
    BY DEF Take, Queued, TypeOK, job, Lanes
  <2> QED BY <2>1, BoundsFrame
<1>3. Registered'
  BY DEF Take, Registered, Alive, SelfJoined, Sleeping, Queued, Running, Lanes, TypeOK, job
<1>4. RetryDue'
  BY DEF Take, RetryDue, Sleeping, job, Queued, TypeOK
<1> QED BY <1>1, <1>2, <1>3, <1>4

\* A handler's end: what Succeed and FailForGood share.
LEMMA FinishInv ==
    ASSUME IInv, NEW i \in JobIds, Succeed(i) \/ FailForGood(i)
    PROVE  IInv'
<1> USE DEF IInv
<1>1. PICK how \in {"result", "error"} : Settle(i, how)
  BY DEF Succeed, FailForGood
<1>2. key[i] \in Keys \cup {NoKey} /\ Cleanup(key[i])
  BY DEF Succeed, FailForGood, TypeOK
<1>3. /\ phase' = [phase EXCEPT ![i] = "over"] /\ i \in Running
      /\ prio' = prio /\ key' = key /\ attempt' = attempt
      /\ retry' = retry /\ impatient' = impatient /\ cancels' = cancels
  BY DEF Succeed, FailForGood, Over, job
<1>4. TypeOK'
  BY <1>1, <1>2, <1>3, SettleType, CleanupType DEF TypeOK
<1>5. QueueBounds'
  <2>1. Queued' \subseteq Queued
    BY <1>3 DEF Queued, TypeOK
  <2> QED BY <1>3, <2>1, BoundsFrame
<1>6. Registered'
  <2> SUFFICES ASSUME NEW k \in Keys, inFlight'[k] # Nothing
               PROVE  (/\ phase[inFlight[k]] # "absent"
                       /\ key[inFlight[k]] = k
                       /\ fut[inFlight[k]] = "pending" => Alive(inFlight[k]) \/ SelfJoined(inFlight[k]))'
    BY DEF Registered
  <2>1. inFlight'[k] = inFlight[k] /\ inFlight[k] \in JobIds
    BY <1>2, CleanupType DEF TypeOK
  <2>2. CASE inFlight[k] = i
    BY <1>1, <1>3, <2>1, <2>2, SettleType DEF Registered, TypeOK
  <2>3. CASE inFlight[k] # i
    BY <1>1, <1>3, <2>1, <2>3, SettleType
    DEF Registered, TypeOK, Alive, SelfJoined, Sleeping, Queued, Running
  <2> QED BY <2>2, <2>3
<1>7. RetryDue'
  BY <1>3 DEF RetryDue, Sleeping, TypeOK
<1> QED BY <1>4, <1>5, <1>6, <1>7

LEMMA FailAndRetryInv ==
    ASSUME IInv, NEW i \in JobIds, FailAndRetry(i)
    PROVE  IInv'
<1> USE DEF IInv
<1>1. TypeOK'
  BY DEF FailAndRetry, Over, TypeOK, job
<1>2. QueueBounds'
  <2>1. Queued' \subseteq Queued /\ prio' = prio
    BY DEF FailAndRetry, Over, Queued, TypeOK, job
  <2> QED BY <2>1, BoundsFrame
<1>3. Registered'
  BY DEF FailAndRetry, Over, Registered, Alive, SelfJoined, Sleeping, Queued, Running, TypeOK, job
<1>4. RetryDue'
  BY DEF FailAndRetry, Over, RetryDue, Sleeping, TypeOK, job
<1> QED BY <1>1, <1>2, <1>3, <1>4

LEMMA RetryNewInv ==
    ASSUME IInv, NEW i \in JobIds, NEW j \in JobIds, RetryNew(i, j)
    PROVE  IInv'
<1> USE DEF IInv
<1>1. attempt[i] + 1 \in 0..MaxRetries
  BY BoundsAssumption DEF RetryNew, RetryDue, TypeOK
<1>2. /\ prio[i] \in Priorities /\ key[i] \in Keys \cup {NoKey}
      /\ Admissible(prio[i]) /\ Create(j, prio[i], key[i], attempt[i] + 1)
  BY DEF RetryNew, TypeOK
<1>3. TypeOK' /\ QueueBounds'
  BY <1>1, <1>2, CreateInv DEF RetryNew, TypeOK
<1>4. Registered'
  BY <1>2, KeysAssumption DEF RetryNew, Create, Registered, Alive, SelfJoined, Sleeping, Queued, Running, TypeOK
<1>5. RetryDue'
  <2> SUFFICES ASSUME NEW h \in JobIds, Sleeping(h)'
               PROVE  phase'[h] = "over" /\ attempt'[h] < MaxRetries
    BY DEF RetryDue
  <2>1. Sleeping(h)
    BY DEF RetryNew, Sleeping, TypeOK
  <2>2. phase[j] = "absent"
    BY <1>2 DEF Create
  <2>3. h # j
    BY <2>1, <2>2 DEF RetryDue
  <2> QED BY <1>2, <2>1, <2>3 DEF Create, RetryDue, TypeOK
<1> QED BY <1>3, <1>4, <1>5

LEMMA RetryJoinsInv ==
    ASSUME IInv, NEW i \in JobIds, RetryJoins(i)
    PROVE  IInv'
<1> USE DEF IInv
<1>1. TypeOK'
  BY DEF RetryJoins, Joinable, TypeOK, job
<1>2. QueueBounds'
  BY DEF RetryJoins, job, QueueBounds, DepthBounded, Depth, Queued, BackgroundQueued
<1>3. Registered'
  <2>0. /\ phase' = phase /\ key' = key /\ fut' = fut /\ inFlight' = inFlight
        /\ retry' = [retry EXCEPT ![i] = <<"awaiting", Joinable(key[i])>>]
    BY DEF RetryJoins, job
  <2> SUFFICES ASSUME NEW k \in Keys, inFlight[k] # Nothing
               PROVE  (/\ phase[inFlight[k]] # "absent"
                       /\ key[inFlight[k]] = k
                       /\ fut[inFlight[k]] = "pending" =>
                            Alive(inFlight[k]) \/ SelfJoined(inFlight[k]))'
    BY <2>0 DEF Registered
  <2>1. /\ inFlight[k] \in JobIds /\ key[inFlight[k]] = k /\ k # NoKey
        /\ phase[inFlight[k]] # "absent"
        /\ fut[inFlight[k]] = "pending" => Alive(inFlight[k]) \/ SelfJoined(inFlight[k])
    BY KeysAssumption DEF Registered, TypeOK
  <2>2. CASE inFlight[k] = i
    <3>1. fut[i] = "pending" => Joinable(key[i]) = i
      BY <2>1, <2>2 DEF Joinable
    <3> QED BY <2>0, <2>1, <2>2, <3>1 DEF SelfJoined, TypeOK
  <2>3. CASE inFlight[k] # i
    <3>1. retry'[inFlight[k]] = retry[inFlight[k]]
      BY <2>0, <2>1, <2>3 DEF TypeOK
    <3> QED BY <2>0, <2>1, <3>1 DEF Alive, SelfJoined, Sleeping, Queued, Running
  <2> QED BY <2>2, <2>3
<1>4. RetryDue'
  BY DEF RetryJoins, RetryDue, Sleeping, TypeOK, job
<1> QED BY <1>1, <1>2, <1>3, <1>4

\* The end of a retry task: its job is answered, or it had the key's entry
\* and gives it up.
LEMMA RetryOverInv ==
    ASSUME IInv, NEW i \in JobIds, RetryRejected(i) \/ RetryEnds(i)
    PROVE  IInv'
<1> USE DEF IInv
<1>1. /\ fut' \in [JobIds -> {"pending", "result", "error", "cancelled"}]
      /\ \A j \in JobIds : j # i => fut'[j] = fut[j]
  <2>1. CASE RetryRejected(i)
    BY <2>1, SettleType DEF RetryRejected
  <2>2. CASE RetryEnds(i)
    <3>1. fut' = fut \/ (\E how \in {"result", "error"} : Settle(i, how))
      BY <2>2 DEF RetryEnds, TypeOK, Settle
    <3> QED BY <3>1, SettleType DEF TypeOK
  <2> QED BY <2>1, <2>2
<1>2. key[i] \in Keys \cup {NoKey} /\ Cleanup(key[i])
  BY DEF RetryRejected, RetryEnds, TypeOK
<1>3. /\ retry' = [retry EXCEPT ![i] = <<"ended", Nothing>>]
      /\ phase' = phase /\ prio' = prio /\ key' = key /\ attempt' = attempt
      /\ impatient' = impatient /\ cancels' = cancels
  BY DEF RetryRejected, RetryEnds, job
<1>4. TypeOK'
  BY <1>1, <1>2, <1>3, CleanupType DEF TypeOK
<1>5. QueueBounds'
  BY <1>3 DEF QueueBounds, DepthBounded, Depth, Queued, BackgroundQueued
<1>6. Registered'
  <2> SUFFICES ASSUME NEW k \in Keys, inFlight'[k] # Nothing
               PROVE  (/\ phase[inFlight[k]] # "absent"
                       /\ key[inFlight[k]] = k
                       /\ fut[inFlight[k]] = "pending" => Alive(inFlight[k]) \/ SelfJoined(inFlight[k]))'
    BY DEF Registered
  <2>1. inFlight'[k] = inFlight[k] /\ inFlight[k] \in JobIds
    BY <1>2, CleanupType DEF TypeOK
  <2>2. inFlight[k] # i
    BY <1>2, <2>1, CleanupType DEF Registered
  <2> QED BY <1>1, <1>3, <2>1, <2>2 DEF Registered, TypeOK, Alive, SelfJoined, Sleeping, Queued, Running
<1>7. RetryDue'
  BY <1>3 DEF RetryDue, Sleeping, TypeOK
<1> QED BY <1>4, <1>5, <1>6, <1>7

LEMMA CancelInv ==
    ASSUME IInv, NEW i \in JobIds, fut[i] = "pending", CancelFuture(i)
    PROVE  IInv'
<1> USE DEF IInv
<1>1. TypeOK'
  BY BoundsAssumption DEF CancelFuture, TypeOK, job
<1>2. QueueBounds'
  BY DEF CancelFuture, job, QueueBounds, DepthBounded, Depth, Queued, BackgroundQueued
<1>3. Registered'
  BY DEF CancelFuture, Registered, Alive, SelfJoined, Sleeping, Queued, Running, TypeOK, job
<1>4. RetryDue'
  BY DEF CancelFuture, RetryDue, Sleeping, job
<1> QED BY <1>1, <1>2, <1>3, <1>4

-----------------------------------------------------------------------------
(* The theorems.                                                            *)

\* Every step of enqueue(), the workers and the retry tasks keeps the invariant.
LEMMA StepInv == IInv /\ [Next]_vars => IInv'
<1> SUFFICES ASSUME IInv, [Next]_vars PROVE IInv'
  OBVIOUS
<1>1. CASE UNCHANGED vars
  BY <1>1 DEF vars, IInv, TypeOK, QueueBounds, DepthBounded, Depth, Queued,
              BackgroundQueued, Registered, Alive, SelfJoined, Sleeping, Running, RetryDue, Sleeping
<1>2. ASSUME NEW p \in Priorities, NEW k \in Keys \cup {NoKey}, NEW i \in JobIds,
             RequestNew(p, k, i)
      PROVE  IInv'
  BY <1>2, RequestNewInv
<1>3. ASSUME NEW p \in Priorities, NEW k \in Keys, RequestJoins(p, k)
      PROVE  IInv'
  BY <1>3, RequestJoinsInv
<1>4. ASSUME NEW lane \in Lanes, NEW i \in JobIds, Take(lane, i)
      PROVE  IInv'
  BY <1>4, TakeInv
<1>5. ASSUME NEW i \in JobIds, Succeed(i) \/ FailForGood(i) PROVE IInv'
  BY <1>5, FinishInv
<1>6. ASSUME NEW i \in JobIds, FailAndRetry(i) PROVE IInv'
  BY <1>6, FailAndRetryInv
<1>7. ASSUME NEW i \in JobIds, NEW j \in JobIds, RetryNew(i, j) PROVE IInv'
  BY <1>7, RetryNewInv
<1>8. ASSUME NEW i \in JobIds, RetryJoins(i) PROVE IInv'
  BY <1>8, RetryJoinsInv
<1>9. ASSUME NEW i \in JobIds, RetryRejected(i) \/ RetryEnds(i) PROVE IInv'
  BY <1>9, RetryOverInv
<1>10. ASSUME NEW i \in JobIds, WaiterTimesOut(i) PROVE IInv'
  BY <1>10, CancelInv DEF WaiterTimesOut
<1>11. ASSUME NEW k \in Keys, CancelDedup(k) PROVE IInv'
  <2>1. Joinable(k) \in JobIds /\ fut[Joinable(k)] = "pending"
    BY <1>11 DEF CancelDedup, Joinable, IInv, TypeOK
  <2> QED BY <1>11, <2>1, CancelInv DEF CancelDedup
<1> QED
  BY <1>1, <1>2, <1>3, <1>4, <1>5, <1>6, <1>7, <1>8, <1>9, <1>10, <1>11 DEF Next

\* So it holds of the queue at all times.
LEMMA Invariance == Spec => []IInv
<1> QED BY InitInv, StepInv, PTL DEF Spec

\* The queue's state keeps its type; no job is ever attempted more than
\* MaxRetries times after the first.
THEOREM TypeCorrect == Spec => []TypeOK
<1>1. IInv => TypeOK
  BY DEF IInv
<1> QED BY <1>1, Invariance, PTL

\* The queues never hold more than twice the cap.
THEOREM DepthIsBounded == Spec => []DepthBounded
<1>1. IInv => DepthBounded
  BY DEF IInv, QueueBounds
<1> QED BY <1>1, Invariance, PTL

\* Background work alone can never make enqueue() reject a tap.
THEOREM TapsAreAdmitted == Spec => []TapAdmitted
<1>1. IInv => TapAdmitted
  <2> SUFFICES ASSUME IInv, \A i \in Queued : prio[i] # HIGH
               PROVE  Admissible(HIGH)
    BY DEF TapAdmitted
  <2>1. BackgroundQueued = Queued
    BY DEF BackgroundQueued
  <2> QED BY <2>1, QueueFinite, BoundsAssumption
          DEF IInv, QueueBounds, Depth, Admissible
<1> QED BY <1>1, Invariance, PTL

\* Whatever is cancelled, retried or rejected, a duplicate request joins a job
\* that a queue or a worker has or a retry is due for, or one whose retry task
\* was handed its own future by enqueue().
THEOREM DuplicatesJoinLiveJobs == Spec => []JoinsLiveJob
<1>1. IInv => JoinsLiveJob
  BY KeysAssumption DEF IInv, Registered, JoinsLiveJob, Joinable
<1> QED BY <1>1, Invariance, PTL

\* An answer that was given is never replaced.
THEOREM AnswersAreFinal == Spec => AnsweredOnce
<1>1. IInv /\ [Next]_vars =>
        [\A i \in JobIds : fut[i] # "pending" => fut'[i] = fut[i]]_vars
  <2> SUFFICES ASSUME IInv, Next, NEW i \in JobIds, fut[i] # "pending"
               PROVE  fut'[i] = fut[i]
    OBVIOUS
  <2> USE DEF IInv
  <2>1. ASSUME NEW j \in JobIds, NEW how \in {"result", "error"}, Settle(j, how)
        PROVE  fut'[i] = fut[i]
    BY <2>1, SettleType
  <2>2. ASSUME NEW j \in JobIds, fut[j] = "pending", CancelFuture(j)
        PROVE  fut'[i] = fut[i]
    BY <2>2 DEF CancelFuture, TypeOK
  <2>3. ASSUME NEW j \in JobIds,
               Succeed(j) \/ FailForGood(j) \/ RetryRejected(j) \/ RetryEnds(j)
        PROVE  fut'[i] = fut[i]
    <3>1. fut' = fut \/ \E how \in {"result", "error"} : Settle(j, how)
      BY <2>3 DEF Succeed, FailForGood, RetryRejected, RetryEnds, Settle, TypeOK
    <3> QED BY <3>1, <2>1
  <2>4. ASSUME NEW j \in JobIds, WaiterTimesOut(j) PROVE fut'[i] = fut[i]
    BY <2>4, <2>2 DEF WaiterTimesOut
  <2>5. ASSUME NEW k \in Keys, CancelDedup(k) PROVE fut'[i] = fut[i]
    <3>1. Joinable(k) \in JobIds /\ fut[Joinable(k)] = "pending"
      BY <2>5 DEF CancelDedup, Joinable, TypeOK
    <3> QED BY <2>5, <3>1, <2>2 DEF CancelDedup
  <2> QED
    BY <2>3, <2>4, <2>5
    DEF Next, RequestNew, RequestJoins, Take, FailAndRetry, RetryNew, RetryJoins
<1> QED BY <1>1, Invariance, PTL DEF Spec, AnsweredOnce

-----------------------------------------------------------------------------
(* Runs in which nothing is cancelled.                                      *)

\* A pending future is exactly what a job in a queue, at a worker or in a retry
\* task has, the retry task comes after the worker, and a pending job with a key
\* is the one the map holds: so no _cleanup_dedup() ever removes another's entry.
Kept(i) == i \in Queued \cup Running \/ retry[i][1] \in {"sleeping", "awaiting"}

Undisturbed(i) ==
    /\ fut[i] # "cancelled"
    /\ phase[i] = "absent" => fut[i] = "pending"
    /\ phase[i] # "absent" => (Kept(i) <=> fut[i] = "pending")
    /\ phase[i] = "absent" \/ i \in Queued \cup Running => retry[i][1] = "none"
    /\ phase[i] # "absent" /\ fut[i] = "pending" /\ key[i] # NoKey => inFlight[key[i]] = i

Uncancelled == cancels = 0 => \A i \in JobIds : Undisturbed(i)

LEMMA InitUncancelled == Init => Uncancelled
<1> QED BY DEF Init, Uncancelled, Undisturbed, Kept, Queued, Running, Lanes

\* Enqueueing: the map had no pending job of that key.
LEMMA CreateUncancelled ==
    ASSUME TypeOK, \A h \in JobIds : Undisturbed(h),
           NEW i \in JobIds, NEW p \in Priorities, NEW k \in Keys \cup {NoKey},
           NEW n \in 0..MaxRetries, Create(i, p, k, n), Joinable(k) = Nothing,
           fut' = fut,
           retry' = retry \/ \E s \in JobIds :
                Sleeping(s) /\ retry' = [retry EXCEPT ![s] = <<"awaiting", i>>]
    PROVE  \A h \in JobIds : Undisturbed(h)'
<1> SUFFICES ASSUME NEW h \in JobIds PROVE Undisturbed(h)'
  OBVIOUS
<1>1. phase[i] = "absent" /\ fut[i] = "pending" /\ ~Kept(i)
  BY DEF Create, Undisturbed, Kept, Queued, Running, Lanes
<1>2. /\ phase' = [phase EXCEPT ![i] = "queued"]
      /\ key' = [key EXCEPT ![i] = k]
      /\ inFlight' = IF k = NoKey THEN inFlight ELSE [inFlight EXCEPT ![k] = i]
  BY DEF Create
<1>3. CASE h = i
  <2>1. retry'[i] = retry[i]
    BY <1>1 DEF Kept, Sleeping, TypeOK
  <2>2. retry[i][1] = "none"
    BY <1>1 DEF Undisturbed
  <2> QED BY <1>1, <1>2, <1>3, <2>1, <2>2, KeysAssumption
          DEF Undisturbed, Kept, Queued, Running, Lanes, TypeOK
<1>4. CASE h # i
  <2>1. phase'[h] = phase[h] /\ key'[h] = key[h] /\ fut'[h] = fut[h]
    BY <1>2, <1>4 DEF TypeOK
  <2>2. Kept(h)' <=> Kept(h)
    BY <2>1 DEF Kept, Sleeping, Queued, Running, TypeOK
  <2>3. phase[h] = "absent" \/ h \in Queued \cup Running => retry'[h][1] = "none"
    BY <2>1 DEF Queued, Running, Lanes, Undisturbed, Sleeping, TypeOK
  <2>4. ASSUME phase[h] # "absent", fut[h] = "pending", key[h] # NoKey
        PROVE  inFlight'[key[h]] = h
    <3>1. inFlight[key[h]] = h /\ key[h] \in Keys
      BY <2>4 DEF Undisturbed, TypeOK
    <3>2. key[h] # k
      BY <2>4, <3>1 DEF Joinable, Nothing, JobIds
    <3> QED BY <1>2, <3>1, <3>2 DEF TypeOK
  <2> QED BY <2>1, <2>2, <2>3, <2>4 DEF Undisturbed, Queued, Running
<1> QED BY <1>3, <1>4

\* A job that is answered, or whose retry task sleeps or waits on, takes no
\* entry but its own from the map.
LEMMA SettleUncancelled ==
    ASSUME IInv, \A h \in JobIds : Undisturbed(h),
           NEW i \in JobIds, Kept(i), phase[i] # "absent",
           fut' \in [JobIds -> {"pending", "result", "error", "cancelled"}],
           fut'[i] \in {"result", "error"},
           \A h \in JobIds : h # i => fut'[h] = fut[h],
           Cleanup(key[i]), key' = key,
           phase' \in [JobIds -> {"absent", "queued", "over"} \cup Lanes],
           retry' \in [JobIds -> ({"none", "sleeping", "ended"} \X {Nothing})
                                 \cup ({"awaiting"} \X JobIds)],
           \A h \in JobIds : h # i => phase'[h] = phase[h] /\ retry'[h] = retry[h],
           phase'[i] = "over", retry'[i][1] \in {"none", "ended"}
    PROVE  \A h \in JobIds : Undisturbed(h)'
<1> SUFFICES ASSUME NEW h \in JobIds PROVE Undisturbed(h)'
  OBVIOUS
<1>1. CASE h = i
  BY <1>1 DEF Undisturbed, Kept, Queued, Running, Lanes
<1>2. CASE h # i
  <2>1. Kept(h)' <=> Kept(h)
    BY <1>2 DEF Kept, Queued, Running
  <2>2. ASSUME phase[h] # "absent", fut[h] = "pending", key[h] # NoKey
        PROVE  inFlight'[key[h]] = h
    <3>1. inFlight[key[h]] = h /\ key[h] \in Keys
      BY <2>2 DEF Undisturbed, IInv, TypeOK
    <3>2. fut[i] = "pending"
      BY DEF Undisturbed
    <3>3. key[i] # NoKey => inFlight[key[i]] = i
      BY <3>2 DEF Undisturbed
    <3>4. key[h] # key[i]
      BY <1>2, <2>2, <3>1, <3>3
    <3> QED BY <3>1, <3>4 DEF Cleanup, IInv, TypeOK
  <2> QED BY <1>2, <2>1, <2>2 DEF Undisturbed, Queued, Running
<1> QED BY <1>1, <1>2

\* Every step that is not a cancellation.
LEMMA StepUncancelled == IInv /\ Uncancelled /\ [Next]_vars => Uncancelled'
<1> SUFFICES ASSUME IInv, Uncancelled, [Next]_vars, cancels' = 0
             PROVE  \A h \in JobIds : Undisturbed(h)'
  BY DEF Uncancelled
<1>1. ASSUME NEW i \in JobIds, fut[i] = "pending", CancelFuture(i) PROVE FALSE
  <2>1. cancels \in Nat /\ cancels' = cancels + 1
    BY <1>1, BoundsAssumption DEF CancelFuture, IInv, TypeOK
  <2> QED BY <2>1
<1>2. ASSUME NEW i \in JobIds, WaiterTimesOut(i) PROVE FALSE
  BY <1>1, <1>2 DEF WaiterTimesOut
<1>3. ASSUME NEW k \in Keys, CancelDedup(k) PROVE FALSE
  <2>1. Joinable(k) \in JobIds /\ fut[Joinable(k)] = "pending"
    BY <1>3 DEF CancelDedup, Joinable, IInv, TypeOK
  <2> QED BY <1>1, <1>3, <2>1 DEF CancelDedup
<1>4. cancels = 0
  BY <1>2, <1>3 DEF Next, vars, RequestNew, RequestJoins, Take, Succeed, FailForGood,
     FailAndRetry, RetryNew, RetryJoins, RetryRejected, RetryEnds
<1>5. \A h \in JobIds : Undisturbed(h)
  BY <1>4 DEF Uncancelled
<1> USE DEF IInv
<1>6. CASE UNCHANGED vars
  BY <1>5, <1>6 DEF vars, Undisturbed, Kept, Queued, Running
<1>7. ASSUME NEW p \in Priorities, NEW k \in Keys \cup {NoKey}, NEW i \in JobIds,
             RequestNew(p, k, i)
      PROVE  \A h \in JobIds : Undisturbed(h)'
  <2>1. 0 \in 0..MaxRetries
    BY BoundsAssumption
  <2> QED BY <1>5, <1>7, <2>1, CreateUncancelled DEF RequestNew
<1>8. ASSUME NEW p \in Priorities, NEW k \in Keys, RequestJoins(p, k)
      PROVE  \A h \in JobIds : Undisturbed(h)'
  BY <1>5, <1>8 DEF RequestJoins, job, Undisturbed, Kept, Queued, Running
<1>9. ASSUME NEW lane \in Lanes, NEW i \in JobIds, Take(lane, i)
      PROVE  \A h \in JobIds : Undisturbed(h)'
  BY <1>5, <1>9 DEF Take, job, Undisturbed, Kept, Queued, Running, Lanes, TypeOK
<1>10. ASSUME NEW i \in JobIds, Succeed(i) \/ FailForGood(i)
       PROVE  \A h \in JobIds : Undisturbed(h)'
  <2>1. /\ i \in Running /\ Cleanup(key[i]) /\ key' = key /\ retry' = retry
        /\ phase' = [phase EXCEPT ![i] = "over"]
    BY <1>10 DEF Succeed, FailForGood, Over, job
  <2>2. phase[i] # "absent" /\ Kept(i) /\ fut[i] = "pending" /\ retry[i][1] = "none"
    BY <1>5, <2>1 DEF Undisturbed, Kept, Running, Lanes
  <2>3. PICK how \in {"result", "error"} : Settle(i, how)
    BY <1>10 DEF Succeed, FailForGood
  <2>4. fut' = [fut EXCEPT ![i] = how]
    BY <2>2, <2>3 DEF Settle
  <2> QED BY <1>5, <2>1, <2>2, <2>3, <2>4, SettleUncancelled DEF TypeOK
<1>11. ASSUME NEW i \in JobIds, FailAndRetry(i)
       PROVE  \A h \in JobIds : Undisturbed(h)'
  BY <1>5, <1>11 DEF FailAndRetry, Over, job, Undisturbed, Kept, Queued, Running, Lanes, TypeOK
<1>12. ASSUME NEW i \in JobIds, NEW j \in JobIds, RetryNew(i, j)
       PROVE  \A h \in JobIds : Undisturbed(h)'
  <2>1. attempt[i] + 1 \in 0..MaxRetries
    BY <1>12, BoundsAssumption DEF RetryNew, RetryDue, TypeOK
  <2>2. prio[i] \in Priorities /\ key[i] \in Keys \cup {NoKey}
    BY DEF TypeOK
  <2> QED BY <1>5, <1>12, <2>1, <2>2, CreateUncancelled DEF RetryNew
<1>13. ASSUME NEW i \in JobIds, RetryJoins(i)
       PROVE  \A h \in JobIds : Undisturbed(h)'
  BY <1>5, <1>13 DEF RetryJoins, Sleeping, job, Undisturbed, Kept, Queued, Running, TypeOK
<1>14. ASSUME NEW i \in JobIds, RetryRejected(i) \/ RetryEnds(i)
       PROVE  \A h \in JobIds : Undisturbed(h)'
  <2>1. /\ Cleanup(key[i]) /\ key' = key /\ phase' = phase
        /\ retry' = [retry EXCEPT ![i] = <<"ended", Nothing>>]
        /\ retry[i][1] \in {"sleeping", "awaiting"}
    BY <1>14 DEF RetryRejected, RetryEnds, job, Sleeping
  <2>2. Kept(i) /\ phase[i] = "over" /\ fut[i] = "pending"
    BY <1>5, <2>1 DEF Undisturbed, Kept, Queued, Running, TypeOK
  <2>3. \E how \in {"result", "error"} : Settle(i, how)
    <3>1. CASE RetryEnds(i)
      <4>1. retry[i][2] \in JobIds
        BY <3>1 DEF RetryEnds, TypeOK
      <4>2. fut[retry[i][2]] \in {"result", "error"}
        BY <1>5, <3>1, <4>1 DEF RetryEnds, Undisturbed, TypeOK
      <4> QED BY <3>1, <4>2 DEF RetryEnds
    <3> QED BY <1>14, <3>1 DEF RetryRejected
  <2>4. PICK how \in {"result", "error"} : fut' = [fut EXCEPT ![i] = how]
    BY <2>2, <2>3 DEF Settle
  <2>5. \A h \in JobIds : h # i => phase'[h] = phase[h] /\ retry'[h] = retry[h]
    BY <2>1 DEF TypeOK
  <2> QED BY <1>5, <2>1, <2>2, <2>4, <2>5, SettleUncancelled DEF TypeOK
<1> QED
  BY <1>2, <1>3, <1>6, <1>7, <1>8, <1>9, <1>10, <1>11, <1>12, <1>13, <1>14 DEF Next

\* So the invariant of runs without a cancellation holds at all times.
LEMMA UncancelledInvariance == Spec => []Uncancelled
<1> QED BY InitUncancelled, StepUncancelled, Invariance, PTL DEF Spec

\* What a retry task awaits: without a key, the next attempt; with one, the
\* future of its own job.
AwaitsNext(i) ==
    retry[i][1] = "awaiting" =>
        IF key[i] = NoKey
        THEN phase[retry[i][2]] # "absent" /\ attempt[retry[i][2]] = attempt[i] + 1
        ELSE retry[i][2] = i

Chained == cancels = 0 => \A i \in JobIds : AwaitsNext(i)

\* A step that hands no future to a retry task breaks no chain of attempts.
LEMMA ChainFrame ==
    ASSUME IInv, NEW h \in JobIds, Undisturbed(h), AwaitsNext(h),
           retry'[h][1] = "awaiting" => retry'[h] = retry[h],
           \A g \in JobIds : phase[g] # "absent" =>
                phase'[g] # "absent" /\ attempt'[g] = attempt[g] /\ key'[g] = key[g]
    PROVE  AwaitsNext(h)'
<1> SUFFICES ASSUME retry'[h][1] = "awaiting" PROVE AwaitsNext(h)'
  BY DEF AwaitsNext
<1>1. retry'[h] = retry[h] /\ retry[h][1] = "awaiting"
  OBVIOUS
<1>2. phase[h] # "absent" /\ retry[h][2] \in JobIds
  BY <1>1 DEF Undisturbed, IInv, TypeOK
<1>3. key'[h] = key[h] /\ attempt'[h] = attempt[h]
  BY <1>2
<1>4. CASE key[h] = NoKey
  BY <1>1, <1>2, <1>3, <1>4 DEF AwaitsNext
<1>5. CASE key[h] # NoKey
  BY <1>1, <1>3, <1>5 DEF AwaitsNext
<1> QED BY <1>4, <1>5

\* enqueue() makes a new job only of an absent one.
LEMMA CreateKeeps ==
    ASSUME TypeOK, NEW i \in JobIds, NEW p, NEW k, NEW n, Create(i, p, k, n)
    PROVE  \A g \in JobIds : phase[g] # "absent" =>
              phase'[g] # "absent" /\ attempt'[g] = attempt[g] /\ key'[g] = key[g]
<1> QED BY DEF Create, TypeOK

\* While nothing is cancelled a keyed job is still in the map when its retry
\* task wakes, so enqueue() hands it its own future.
LEMMA StepChained ==
    IInv /\ Uncancelled /\ Uncancelled' /\ Chained /\ [Next]_vars => Chained'
<1> SUFFICES ASSUME IInv, Uncancelled, Chained, [Next]_vars, cancels' = 0
             PROVE  \A h \in JobIds : AwaitsNext(h)'
  BY DEF Chained
<1>1. ASSUME NEW i \in JobIds, CancelFuture(i) PROVE FALSE
  <2>1. cancels \in Nat /\ cancels' = cancels + 1
    BY <1>1, BoundsAssumption DEF CancelFuture, IInv, TypeOK
  <2> QED BY <2>1
<1>2. ASSUME NEW i \in JobIds, WaiterTimesOut(i) PROVE FALSE
  BY <1>1, <1>2 DEF WaiterTimesOut
<1>3. ASSUME NEW k \in Keys, CancelDedup(k) PROVE FALSE
  <2>1. Joinable(k) \in JobIds
    BY <1>3 DEF CancelDedup, Joinable, IInv, TypeOK
  <2> QED BY <1>1, <1>3, <2>1 DEF CancelDedup
<1>4. cancels = 0
  BY <1>2, <1>3 DEF Next, vars, RequestNew, RequestJoins, Take, Succeed, FailForGood,
     FailAndRetry, RetryNew, RetryJoins, RetryRejected, RetryEnds
<1>5. \A h \in JobIds : Undisturbed(h) /\ AwaitsNext(h)
  BY <1>4 DEF Uncancelled, Chained
<1> USE DEF IInv
<1>6. CASE /\ \A h \in JobIds : retry'[h][1] = "awaiting" => retry'[h] = retry[h]
           /\ \A g \in JobIds : phase[g] # "absent" =>
                phase'[g] # "absent" /\ attempt'[g] = attempt[g] /\ key'[g] = key[g]
  BY <1>5, <1>6, ChainFrame
<1>7. CASE UNCHANGED vars
  BY <1>6, <1>7 DEF vars
<1>8. ASSUME NEW p \in Priorities, NEW k \in Keys \cup {NoKey}, NEW i \in JobIds,
             RequestNew(p, k, i)
      PROVE  \A h \in JobIds : AwaitsNext(h)'
  BY <1>6, <1>8, CreateKeeps DEF RequestNew
<1>9. ASSUME NEW p \in Priorities, NEW k \in Keys, RequestJoins(p, k)
      PROVE  \A h \in JobIds : AwaitsNext(h)'
  BY <1>6, <1>9 DEF RequestJoins, job
<1>10. ASSUME NEW lane \in Lanes, NEW i \in JobIds, Take(lane, i)
       PROVE  \A h \in JobIds : AwaitsNext(h)'
  <2>1. lane # "absent"
    BY DEF Lanes
  <2> QED BY <1>6, <1>10, <2>1 DEF Take, job, TypeOK
<1>11. ASSUME NEW i \in JobIds, Succeed(i) \/ FailForGood(i) \/ FailAndRetry(i)
       PROVE  \A h \in JobIds : AwaitsNext(h)'
  BY <1>6, <1>11 DEF Succeed, FailForGood, FailAndRetry, Over, job, TypeOK
<1>12. ASSUME NEW i \in JobIds, RetryRejected(i) \/ RetryEnds(i)
       PROVE  \A h \in JobIds : AwaitsNext(h)'
  BY <1>6, <1>12 DEF RetryRejected, RetryEnds, job, TypeOK
<1>13. ASSUME NEW i \in JobIds, Sleeping(i), key[i] # NoKey
       PROVE  Joinable(key[i]) = i
  <2>1. phase[i] = "over" /\ fut[i] = "pending" /\ key[i] \in Keys
    BY <1>5, <1>13 DEF RetryDue, Undisturbed, Kept, Sleeping, TypeOK
  <2>2. inFlight[key[i]] = i
    BY <1>5, <1>13, <2>1 DEF Undisturbed
  <2>3. i # Nothing
    BY JobIdsFinite DEF Nothing
  <2> QED BY <1>13, <2>1, <2>2, <2>3 DEF Joinable
<1>14. ASSUME NEW i \in JobIds, NEW j \in JobIds, RetryNew(i, j)
       PROVE  \A h \in JobIds : AwaitsNext(h)'
  <2>1. Create(j, prio[i], key[i], attempt[i] + 1) /\ Sleeping(i)
    BY <1>14 DEF RetryNew
  <2>2. \A g \in JobIds : phase[g] # "absent" =>
           phase'[g] # "absent" /\ attempt'[g] = attempt[g] /\ key'[g] = key[g]
    BY <2>1, CreateKeeps
  <2>3. ASSUME NEW h \in JobIds, h # i PROVE AwaitsNext(h)'
    <3>1. retry'[h] = retry[h]
      BY <1>14, <2>3 DEF RetryNew, TypeOK
    <3> QED BY <1>5, <2>2, <3>1, ChainFrame
  <2>4. AwaitsNext(i)'
    <3>1. i # Nothing
      BY JobIdsFinite DEF Nothing
    <3>2. key[i] = NoKey
      BY <1>13, <1>14, <2>1, <3>1 DEF RetryNew
    <3>3. phase[i] # "absent"
      BY <2>1 DEF RetryDue
    <3>4. key'[i] = NoKey /\ attempt'[i] = attempt[i]
      BY <2>2, <3>2, <3>3
    <3>5. retry'[i] = <<"awaiting", j>> /\ phase'[j] = "queued" /\ attempt'[j] = attempt[i] + 1
      BY <1>14, <2>1 DEF RetryNew, Create, TypeOK
    <3> QED BY <3>4, <3>5 DEF AwaitsNext
  <2> QED BY <2>3, <2>4
<1>15. ASSUME NEW i \in JobIds, RetryJoins(i)
       PROVE  \A h \in JobIds : AwaitsNext(h)'
  <2>1. /\ Sleeping(i) /\ key[i] # NoKey
        /\ retry' = [retry EXCEPT ![i] = <<"awaiting", Joinable(key[i])>>]
        /\ phase' = phase /\ key' = key /\ attempt' = attempt
    BY <1>15 DEF RetryJoins, Joinable, job
  <2>2. AwaitsNext(i)'
    BY <1>13, <2>1 DEF AwaitsNext, TypeOK
  <2>3. ASSUME NEW h \in JobIds, h # i PROVE AwaitsNext(h)'
    <3>1. retry'[h] = retry[h]
      BY <2>1, <2>3 DEF TypeOK
    <3> QED BY <1>5, <2>1, <3>1, ChainFrame
  <2> QED BY <2>2, <2>3
<1> QED
  BY <1>2, <1>3, <1>7, <1>8, <1>9, <1>10, <1>11, <1>12, <1>14, <1>15 DEF Next

LEMMA InitChained == Init => Chained
<1> QED BY DEF Init, Chained, AwaitsNext

LEMMA ChainedInvariance == Spec => []Chained
<1> QED BY InitChained, StepChained, Invariance, UncancelledInvariance, PTL DEF Spec

\* As long as nobody cancels a future, two jobs of one key are never at once in
\* the queues or at the workers, through every retry and rejection.
THEOREM OneFlightPerKey == Spec => []SingleFlight
<1>1. IInv /\ Uncancelled => SingleFlight
  <2> SUFFICES ASSUME IInv, \A h \in JobIds : Undisturbed(h),
                      NEW i \in Queued \cup Running, NEW j \in Queued \cup Running,
                      key[i] # NoKey, key[i] = key[j]
               PROVE  i = j
    BY DEF Uncancelled, SingleFlight
  <2>1. /\ i \in JobIds /\ phase[i] # "absent" /\ Kept(i)
        /\ j \in JobIds /\ phase[j] # "absent" /\ Kept(j)
    BY DEF Queued, Running, Lanes, Kept
  <2>2. inFlight[key[i]] = i /\ inFlight[key[j]] = j
    BY <2>1 DEF Undisturbed
  <2> QED BY <2>2
<1> QED BY <1>1, Invariance, UncancelledInvariance, PTL

\* As long as nobody cancels a future, an unsettled one is a live job's, or
\* waits for the next of at most MaxRetries attempts, or is the future of a
\* keyed job that _schedule_retry() made wait for itself: no rejection, failure
\* or retry leaves any other future with nobody to settle it.
THEOREM NoFutureIsOrphaned == Spec => []PendingIsAlive
<1>1. IInv /\ Uncancelled /\ Chained => PendingIsAlive
  <2> SUFFICES ASSUME IInv, NEW i \in JobIds, Undisturbed(i), AwaitsNext(i),
                      phase[i] # "absent", fut[i] = "pending", ~ Alive(i)
               PROVE  \/ key[i] = NoKey /\ \E j \in JobIds :
                           /\ retry[i] = <<"awaiting", j>>
                           /\ phase[j] # "absent" /\ attempt[j] = attempt[i] + 1
                      \/ key[i] # NoKey /\ SelfJoined(i) /\ inFlight[key[i]] = i
    BY DEF Uncancelled, Chained, PendingIsAlive
  <2>1. retry[i][1] = "awaiting"
    BY DEF Undisturbed, Kept, Alive, Sleeping
  <2>2. retry[i] \in {"awaiting"} \X JobIds
    BY <2>1 DEF IInv, TypeOK
  <2>3. PICK j \in JobIds : retry[i] = <<"awaiting", j>>
    BY <2>2
  <2>4. CASE key[i] = NoKey
    BY <2>1, <2>3, <2>4 DEF AwaitsNext
  <2>5. CASE key[i] # NoKey
    BY <2>1, <2>3, <2>5 DEF AwaitsNext, Undisturbed, SelfJoined
  <2> QED BY <2>4, <2>5
<1> QED BY <1>1, Invariance, UncancelledInvariance, ChainedInvariance, PTL

-----------------------------------------------------------------------------
(* Screens: the bubbles that the jobs of the queue draw.                       *)
(*                                                                         *)
(* The argument: a tap that claims a bubble acts on until it has drawn its       *)
(* answer there, or leaves the drawing to a job that carries its payload, or is   *)
(* given up; whoever else draws on the bubble finds it claimed, and draws past    *)
(* the claim only where the code does not look at it, or the claim was dropped.    *)

\* The table of the handlers, field by field.
LEMMA HandlerFields ==
    /\ Attendance.job = "attendance" /\ Attendance.opens = "at once" /\ Attendance.awaits = FALSE
    /\ AttendanceCommand.job = "attendance" /\ AttendanceCommand.opens = "fresh" /\ AttendanceCommand.awaits = FALSE
    /\ Dates.job = "dates" /\ Dates.opens = "at once" /\ Dates.awaits = FALSE
    /\ DatesRefresh.job = "dates" /\ DatesRefresh.opens = "at once" /\ DatesRefresh.awaits = FALSE
    /\ Holidays.job = "holidays" /\ Holidays.opens = "at once" /\ Holidays.awaits = FALSE
    /\ HolidaysCommand.job = "holidays" /\ HolidaysCommand.opens = "fresh" /\ HolidaysCommand.awaits = FALSE
    /\ HolidaysRefresh.job = "holidays" /\ HolidaysRefresh.opens = "at once" /\ HolidaysRefresh.awaits = FALSE
    /\ HolidaysNav.job = "holidays" /\ HolidaysNav.opens = "claims first" /\ HolidaysNav.awaits = FALSE
    /\ Exams.job = "exams" /\ Exams.opens = "at once" /\ Exams.awaits = FALSE
    /\ ExamsCommand.job = "exams" /\ ExamsCommand.opens = "fresh" /\ ExamsCommand.awaits = FALSE
    /\ ExamSeat.job = "seat" /\ ExamSeat.opens = "at once" /\ ExamSeat.awaits = FALSE
    /\ ExamRefresh.opens = "ends" /\ ExamRefresh.awaits = FALSE
    /\ TimetableSync.job = "timetable" /\ TimetableSync.opens = "late" /\ TimetableSync.awaits = FALSE
    /\ Notice.job = "notice" /\ Notice.opens = "claims twice" /\ Notice.awaits = TRUE
    /\ InboxRefresh.job = "inbox" /\ InboxRefresh.opens = "draws first" /\ InboxRefresh.awaits = TRUE
    /\ PaperYear.job = "papers" /\ PaperYear.opens = "fresh" /\ PaperYear.awaits = TRUE
    /\ PaperSearch.job = "search" /\ PaperSearch.opens = "starts poke" /\ PaperSearch.awaits = TRUE
    /\ Menu.opens = "menu" /\ Menu.awaits = FALSE
<1>1. /\ Attendance.job = "attendance" /\ Attendance.opens = "at once" /\ Attendance.awaits = FALSE
      /\ AttendanceCommand.job = "attendance" /\ AttendanceCommand.opens = "fresh" /\ AttendanceCommand.awaits = FALSE
      /\ Dates.job = "dates" /\ Dates.opens = "at once" /\ Dates.awaits = FALSE
      /\ DatesRefresh.job = "dates" /\ DatesRefresh.opens = "at once" /\ DatesRefresh.awaits = FALSE
  BY DEF Attendance, AttendanceCommand, Dates, DatesRefresh, Plain
<1>2. /\ Holidays.job = "holidays" /\ Holidays.opens = "at once" /\ Holidays.awaits = FALSE
      /\ HolidaysCommand.job = "holidays" /\ HolidaysCommand.opens = "fresh" /\ HolidaysCommand.awaits = FALSE
      /\ HolidaysRefresh.job = "holidays" /\ HolidaysRefresh.opens = "at once" /\ HolidaysRefresh.awaits = FALSE
      /\ HolidaysNav.job = "holidays" /\ HolidaysNav.opens = "claims first" /\ HolidaysNav.awaits = FALSE
  BY DEF Holidays, HolidaysCommand, HolidaysRefresh, HolidaysNav, Plain
<1>3. /\ Exams.job = "exams" /\ Exams.opens = "at once" /\ Exams.awaits = FALSE
      /\ ExamsCommand.job = "exams" /\ ExamsCommand.opens = "fresh" /\ ExamsCommand.awaits = FALSE
      /\ ExamSeat.job = "seat" /\ ExamSeat.opens = "at once" /\ ExamSeat.awaits = FALSE
      /\ ExamRefresh.opens = "ends" /\ ExamRefresh.awaits = FALSE
  BY DEF Exams, ExamsCommand, ExamSeat, ExamRefresh, Plain
<1>4. /\ TimetableSync.job = "timetable" /\ TimetableSync.opens = "late" /\ TimetableSync.awaits = FALSE
      /\ Notice.job = "notice" /\ Notice.opens = "claims twice" /\ Notice.awaits = TRUE
      /\ InboxRefresh.job = "inbox" /\ InboxRefresh.opens = "draws first" /\ InboxRefresh.awaits = TRUE
  BY DEF TimetableSync, Notice, InboxRefresh, Plain
<1>5. /\ PaperYear.job = "papers" /\ PaperYear.opens = "fresh" /\ PaperYear.awaits = TRUE
      /\ PaperSearch.job = "search" /\ PaperSearch.opens = "starts poke" /\ PaperSearch.awaits = TRUE
      /\ Menu.opens = "menu" /\ Menu.awaits = FALSE
  BY DEF PaperYear, PaperSearch, Menu, Plain
<1> QED BY <1>1, <1>2, <1>3, <1>4, <1>5

LEMMA RowHandlers ==
    /\ DOMAIN Row = {"attendance", "attendanceCommand", "dates", "datesRefresh", "holidays", "holidaysCommand",
                     "holidaysRefresh", "holidaysNav", "exams", "examsCommand", "examSeat", "examRefresh",
                     "timetable", "notice", "inbox", "paperYear", "paperSearch", "menu"}
    /\ Row["attendance"] = Attendance
    /\ Row["attendanceCommand"] = AttendanceCommand
    /\ Row["dates"] = Dates
    /\ Row["datesRefresh"] = DatesRefresh
    /\ Row["holidays"] = Holidays
    /\ Row["holidaysCommand"] = HolidaysCommand
    /\ Row["holidaysRefresh"] = HolidaysRefresh
    /\ Row["holidaysNav"] = HolidaysNav
    /\ Row["exams"] = Exams
    /\ Row["examsCommand"] = ExamsCommand
    /\ Row["examSeat"] = ExamSeat
    /\ Row["examRefresh"] = ExamRefresh
    /\ Row["timetable"] = TimetableSync
    /\ Row["notice"] = Notice
    /\ Row["inbox"] = InboxRefresh
    /\ Row["paperYear"] = PaperYear
    /\ Row["paperSearch"] = PaperSearch
    /\ Row["menu"] = Menu
BY DEF Row

\* Only menus and buttons that end at once queue nothing, and a job that some handler
\* awaits is awaited by all.
LEMMA RowTable ==
    ASSUME NEW s \in DOMAIN Row
    PROVE  /\ Row[s].awaits \in BOOLEAN
           /\ Row[s].awaits => Row[s].job \in {"notice", "inbox", "papers", "search"}
           /\ Row[s].opens \notin {"menu", "ends"} =>
                  /\ Row[s].job \in Jobs
                  /\ ~Row[s].awaits => Row[s].job \notin {"notice", "inbox", "papers", "search"}
           /\ Row[s].opens = "late" => ~Row[s].awaits
           /\ Row[s].opens = "starts poke" => s = "paperSearch"
<1>1. Jobs = {"attendance", "dates", "holidays", "exams", "seat", "timetable", "notice",
              "inbox", "papers", "search"}
  BY DEF Jobs, Job
<1> USE <1>1
<1>2. CASE s = "attendance"
  <2>1. Row[s] = Attendance
    BY <1>2, RowHandlers
  <2>2. Attendance.job = "attendance" /\ Attendance.opens = "at once" /\ Attendance.awaits = FALSE
    BY HandlerFields
  <2> QED BY <1>2, <2>1, <2>2
<1>3. CASE s = "attendanceCommand"
  <2>1. Row[s] = AttendanceCommand
    BY <1>3, RowHandlers
  <2>2. AttendanceCommand.job = "attendance" /\ AttendanceCommand.opens = "fresh" /\ AttendanceCommand.awaits = FALSE
    BY HandlerFields
  <2> QED BY <1>3, <2>1, <2>2
<1>4. CASE s = "dates"
  <2>1. Row[s] = Dates
    BY <1>4, RowHandlers
  <2>2. Dates.job = "dates" /\ Dates.opens = "at once" /\ Dates.awaits = FALSE
    BY HandlerFields
  <2> QED BY <1>4, <2>1, <2>2
<1>5. CASE s = "datesRefresh"
  <2>1. Row[s] = DatesRefresh
    BY <1>5, RowHandlers
  <2>2. DatesRefresh.job = "dates" /\ DatesRefresh.opens = "at once" /\ DatesRefresh.awaits = FALSE
    BY HandlerFields
  <2> QED BY <1>5, <2>1, <2>2
<1>6. CASE s = "holidays"
  <2>1. Row[s] = Holidays
    BY <1>6, RowHandlers
  <2>2. Holidays.job = "holidays" /\ Holidays.opens = "at once" /\ Holidays.awaits = FALSE
    BY HandlerFields
  <2> QED BY <1>6, <2>1, <2>2
<1>7. CASE s = "holidaysCommand"
  <2>1. Row[s] = HolidaysCommand
    BY <1>7, RowHandlers
  <2>2. HolidaysCommand.job = "holidays" /\ HolidaysCommand.opens = "fresh" /\ HolidaysCommand.awaits = FALSE
    BY HandlerFields
  <2> QED BY <1>7, <2>1, <2>2
<1>8. CASE s = "holidaysRefresh"
  <2>1. Row[s] = HolidaysRefresh
    BY <1>8, RowHandlers
  <2>2. HolidaysRefresh.job = "holidays" /\ HolidaysRefresh.opens = "at once" /\ HolidaysRefresh.awaits = FALSE
    BY HandlerFields
  <2> QED BY <1>8, <2>1, <2>2
<1>9. CASE s = "holidaysNav"
  <2>1. Row[s] = HolidaysNav
    BY <1>9, RowHandlers
  <2>2. HolidaysNav.job = "holidays" /\ HolidaysNav.opens = "claims first" /\ HolidaysNav.awaits = FALSE
    BY HandlerFields
  <2> QED BY <1>9, <2>1, <2>2
<1>10. CASE s = "exams"
  <2>1. Row[s] = Exams
    BY <1>10, RowHandlers
  <2>2. Exams.job = "exams" /\ Exams.opens = "at once" /\ Exams.awaits = FALSE
    BY HandlerFields
  <2> QED BY <1>10, <2>1, <2>2
<1>11. CASE s = "examsCommand"
  <2>1. Row[s] = ExamsCommand
    BY <1>11, RowHandlers
  <2>2. ExamsCommand.job = "exams" /\ ExamsCommand.opens = "fresh" /\ ExamsCommand.awaits = FALSE
    BY HandlerFields
  <2> QED BY <1>11, <2>1, <2>2
<1>12. CASE s = "examSeat"
  <2>1. Row[s] = ExamSeat
    BY <1>12, RowHandlers
  <2>2. ExamSeat.job = "seat" /\ ExamSeat.opens = "at once" /\ ExamSeat.awaits = FALSE
    BY HandlerFields
  <2> QED BY <1>12, <2>1, <2>2
<1>13. CASE s = "examRefresh"
  <2>1. Row[s] = ExamRefresh
    BY <1>13, RowHandlers
  <2>2. ExamRefresh.opens = "ends" /\ ExamRefresh.awaits = FALSE
    BY HandlerFields
  <2> QED BY <1>13, <2>1, <2>2
<1>14. CASE s = "timetable"
  <2>1. Row[s] = TimetableSync
    BY <1>14, RowHandlers
  <2>2. TimetableSync.job = "timetable" /\ TimetableSync.opens = "late" /\ TimetableSync.awaits = FALSE
    BY HandlerFields
  <2> QED BY <1>14, <2>1, <2>2
<1>15. CASE s = "notice"
  <2>1. Row[s] = Notice
    BY <1>15, RowHandlers
  <2>2. Notice.job = "notice" /\ Notice.opens = "claims twice" /\ Notice.awaits = TRUE
    BY HandlerFields
  <2> QED BY <1>15, <2>1, <2>2
<1>16. CASE s = "inbox"
  <2>1. Row[s] = InboxRefresh
    BY <1>16, RowHandlers
  <2>2. InboxRefresh.job = "inbox" /\ InboxRefresh.opens = "draws first" /\ InboxRefresh.awaits = TRUE
    BY HandlerFields
  <2> QED BY <1>16, <2>1, <2>2
<1>17. CASE s = "paperYear"
  <2>1. Row[s] = PaperYear
    BY <1>17, RowHandlers
  <2>2. PaperYear.job = "papers" /\ PaperYear.opens = "fresh" /\ PaperYear.awaits = TRUE
    BY HandlerFields
  <2> QED BY <1>17, <2>1, <2>2
<1>18. CASE s = "paperSearch"
  <2>1. Row[s] = PaperSearch
    BY <1>18, RowHandlers
  <2>2. PaperSearch.job = "search" /\ PaperSearch.opens = "starts poke" /\ PaperSearch.awaits = TRUE
    BY HandlerFields
  <2> QED BY <1>18, <2>1, <2>2
<1>19. CASE s = "menu"
  <2>1. Row[s] = Menu
    BY <1>19, RowHandlers
  <2>2. Menu.opens = "menu" /\ Menu.awaits = FALSE
    BY HandlerFields
  <2> QED BY <1>19, <2>1, <2>2
<1> QED
  BY <1>2, <1>3, <1>4, <1>5, <1>6, <1>7, <1>8, <1>9, <1>10, <1>11,
     <1>12, <1>13, <1>14, <1>15, <1>16, <1>17, <1>18, <1>19, RowHandlers

LEMMA AwaitedTable ==
    ASSUME NEW s \in DOMAIN Row, Row[s].opens \notin {"menu", "ends"}
    PROVE  Row[s].job \in Jobs /\ (Row[s].awaits <=> Row[s].job \in AwaitedJobs)
<1>1. AwaitedJobs \subseteq {"notice", "inbox", "papers", "search"}
  BY RowTable DEF AwaitedJobs
<1>2. Row[s].awaits => Row[s].job \in AwaitedJobs
  BY DEF AwaitedJobs
<1> QED BY <1>1, <1>2, RowTable

\* Places a handler reaches only with a bubble of its own and a job to queue.
Underway == {"load", "limit", "reclaim", "enqueue", "announce", "wait", "answered"}
\* Places of a download.
Sending == {"identify", "ack", "deliver"}

TapOK(f) ==
    /\ IF pc[f] = "idle" THEN bub[f] = None ELSE row[f] \in Offered
    /\ f \in abandoned => bub[f] \in Bubbles
    /\ pc[f] \in Underway =>
           bub[f] \in Bubbles /\ row[f] \in DOMAIN Row /\ Row[row[f]].opens \notin {"menu", "ends"}
    /\ pc[f] \in {"wait", "answered"} => Row[row[f]].awaits
    /\ pc[f] = "announce" => ~Row[row[f]].awaits
    /\ pc[f] = "limit" => row[f] = "paperSearch"
    /\ pc[f] \in Sending => row[f] \in Downloads /\ bub[f] = None
TapsOK == \A f \in Taps : TapOK(f)

\* A job that draws runs for the tap of its payload, unless that tap is given up.
JobsOK == \A g \in Jobs :
    /\ payload[g] # None => bub[payload[g]] \in Bubbles
    /\ (payload[g] # None /\ g \notin AwaitedJobs) =>
           flight[g] = "running" \/ payload[g] \in abandoned

\* The registry honours the last claim or none, and who claimed a bubble was tapped on it.
ClaimsOK == \A b \in Bubbles :
    /\ owner[b] \in {None, claimant[b]}
    /\ claimant[b] # None => bub[claimant[b]] = b /\ pc[claimant[b]] # "idle"

\* The tap still acts, or a job is still to draw for it.
Expected(f) ==
    \/ pc[f] \notin {"idle", "done"}
    \/ \E g \in Jobs \ AwaitedJobs : flight[g] = "running" /\ payload[g] = f

AnswersDue == \A b \in Bubbles, f \in Taps :
    (claimant[b] = f /\ b \notin strayed /\ f \notin abandoned) =>
        screen[b] = [by |-> f, what |-> "answer"] \/ Expected(f)

\* While no cooldown ran out under a tap, a download past the cooldown is alone, and
\* holds off the others first by the cooldown and then by its registration.
DownloadOK(s) ==
    /\ \A e, f \in Taps : (/\ row[e] = s /\ pc[e] \in {"ack", "deliver"}
                           /\ row[f] = s /\ pc[f] \in {"ack", "deliver"}) => e = f
    /\ \A f \in Taps : (row[f] = s /\ pc[f] = "ack") => s \in cooling
    /\ \A f \in Taps : (row[f] = s /\ pc[f] = "deliver") => s \in inflight
    /\ \A e, f \in Taps : (/\ row[e] = s /\ pc[e] = "deliver"
                           /\ row[f] = s /\ pc[f] = "identify") => s \in cooling
DownloadsOK == lapsed \/ \A s \in Downloads : DownloadOK(s)

\* The types, in the groups that actions leave alone together.
TapTypes == /\ pc \in [Taps -> Places] /\ row \in [Taps -> Offered \cup {None}]
            /\ bub \in [Taps -> Bubbles \cup {None}]
Screenshots == [by : Taps \cup {None}, what : {"menu", "loading", "answer"}]
BubbleTypes == /\ owner \in [Bubbles -> Taps \cup {None}]
               /\ claimant \in [Bubbles -> Taps \cup {None}]
               /\ screen \in [Bubbles -> Screenshots] /\ strayed \subseteq Bubbles
QueueTypes == /\ flight \in [Jobs -> {"none", "running", "stuck"}]
              /\ payload \in [Jobs -> Taps \cup {None}]
OtherTypes == /\ cooling \subseteq Offered /\ inflight \subseteq Downloads
              /\ abandoned \subseteq Taps /\ lapsed \in BOOLEAN

LEMMA ScreensTypes == ScreensTypeOK <=> TapTypes /\ BubbleTypes /\ QueueTypes /\ OtherTypes
BY DEF ScreensTypeOK, TapTypes, BubbleTypes, Screenshots, QueueTypes, OtherTypes

ScreensInv ==
    /\ TapTypes /\ BubbleTypes /\ QueueTypes /\ OtherTypes
    /\ TapsOK /\ JobsOK /\ ClaimsOK /\ AnswersDue /\ DownloadsOK

LEMMA NoTap == None \notin Taps /\ None \notin Bubbles
BY TapsAssumption

\* What every way of drawing on bubble b for tap f has in common: other bubbles are left
\* alone, and what another tap has claimed is drawn on only by straying.
Drawn(f, b) ==
    /\ \A c \in Bubbles \ {b} : /\ owner'[c] = owner[c] /\ claimant'[c] = claimant[c]
                                /\ screen'[c] = screen[c] /\ (c \in strayed' <=> c \in strayed)
    /\ owner'[b] \in {None, claimant'[b]} /\ claimant'[b] \in {claimant[b], f}
    /\ (claimant'[b] \notin {f, None} /\ b \notin strayed') =>
           screen'[b] = screen[b] /\ b \notin strayed

LEMMA DrawType ==
    ASSUME ScreensInv, NEW f \in Taps, NEW b \in Bubbles,
           NEW what \in {"menu", "loading", "answer"}, Draw(f, b, what)
    PROVE  /\ screen' \in [Bubbles -> Screenshots]
           /\ screen'[b] = [by |-> f, what |-> what]
           /\ \A c \in Bubbles \ {b} : screen'[c] = screen[c]
<1>1. [by |-> f, what |-> what] \in Screenshots
  BY DEF Screenshots
<1> QED BY <1>1 DEF Draw, ScreensInv, BubbleTypes

LEMMA ClaimType ==
    ASSUME ScreensInv, NEW f \in Taps, NEW b \in Bubbles, Claim(f, b)
    PROVE  /\ owner' \in [Bubbles -> Taps \cup {None}] /\ owner'[b] = f
           /\ claimant' \in [Bubbles -> Taps \cup {None}] /\ claimant'[b] = f
           /\ strayed' \subseteq Bubbles
           /\ \A c \in Bubbles \ {b} : /\ owner'[c] = owner[c] /\ claimant'[c] = claimant[c]
                                       /\ (c \in strayed' <=> c \in strayed)
BY DEF Claim, ScreensInv, BubbleTypes

LEMMA ShowDraws ==
    ASSUME ScreensInv, NEW f \in Taps, NEW b \in Bubbles,
           NEW what \in {"menu", "loading", "answer"}, Show(f, b, what)
    PROVE  /\ BubbleTypes' /\ Drawn(f, b) /\ claimant'[b] = f
           /\ screen'[b] = [by |-> f, what |-> what]
<1>1. /\ screen' \in [Bubbles -> Screenshots]
      /\ screen'[b] = [by |-> f, what |-> what]
      /\ \A c \in Bubbles \ {b} : screen'[c] = screen[c]
  BY DrawType DEF Show
<1>2. /\ owner' \in [Bubbles -> Taps \cup {None}] /\ owner'[b] = f
      /\ claimant' \in [Bubbles -> Taps \cup {None}] /\ claimant'[b] = f
      /\ strayed' \subseteq Bubbles
      /\ \A c \in Bubbles \ {b} : /\ owner'[c] = owner[c] /\ claimant'[c] = claimant[c]
                                  /\ (c \in strayed' <=> c \in strayed)
  BY ClaimType DEF Show
<1>3. Drawn(f, b)
  BY <1>1, <1>2 DEF Drawn
<1>4. BubbleTypes'
  BY <1>1, <1>2 DEF BubbleTypes, Screenshots
<1> QED BY <1>1, <1>2, <1>3, <1>4

\* A token that was not voided is the last one, or the registry dropped it.
LEMMA DrawIfHeldDraws ==
    ASSUME ScreensInv, NEW f \in Taps, NEW b \in Bubbles,
           NEW what \in {"menu", "loading", "answer"}, DrawIfHeld(f, b, what)
    PROVE  /\ BubbleTypes' /\ Drawn(f, b) /\ claimant' = claimant
           /\ claimant[b] = f => screen'[b] = [by |-> f, what |-> what]
<1>1. owner' = owner /\ claimant' = claimant /\ owner[b] \in {None, claimant[b]}
  BY DEF DrawIfHeld, ScreensInv, ClaimsOK
<1>2. CASE Holds(f, b)
  <2>1. Draw(f, b, what)
    BY <1>2 DEF DrawIfHeld
  <2>2. strayed' \subseteq Bubbles /\ \A c \in Bubbles \ {b} : c \in strayed' <=> c \in strayed
    BY DEF DrawIfHeld, ScreensInv, BubbleTypes
  <2>3. claimant[b] \notin {f, None} => b \in strayed'
    <3>1. owner[b] \in {None, f}
      BY <1>2 DEF Holds, OwnerOf
    <3> QED BY <1>1, <1>2, <3>1, NoTap DEF DrawIfHeld
  <2> QED BY <1>1, <2>1, <2>2, <2>3, DrawType DEF BubbleTypes, Drawn, ScreensInv
<1>3. CASE ~Holds(f, b)
  <2>1. UNCHANGED <<screen, strayed>>
    BY <1>3 DEF DrawIfHeld
  <2>2. claimant[b] # f
    BY <1>1, <1>3, NoTap DEF Holds, OwnerOf
  <2> QED BY <1>1, <2>1, <2>2 DEF BubbleTypes, Drawn, ScreensInv
<1> QED BY <1>2, <1>3

LEMMA DrawAnywayDraws ==
    ASSUME ScreensInv, NEW f \in Taps, NEW b \in Bubbles,
           NEW what \in {"menu", "loading", "answer"}, DrawAnyway(f, b, what)
    PROVE  /\ BubbleTypes' /\ Drawn(f, b) /\ claimant' = claimant
           /\ screen'[b] = [by |-> f, what |-> what]
<1>1. owner' = owner /\ claimant' = claimant /\ owner[b] \in {None, claimant[b]}
  BY DEF DrawAnyway, ScreensInv, ClaimsOK
<1>2. strayed' \subseteq Bubbles /\ \A c \in Bubbles \ {b} : c \in strayed' <=> c \in strayed
  BY DEF DrawAnyway, ScreensInv, BubbleTypes
<1>3. claimant[b] \notin {f, None} => b \in strayed'
  BY DEF DrawAnyway
<1>4. Draw(f, b, what)
  BY DEF DrawAnyway
<1> QED BY <1>1, <1>2, <1>3, <1>4, DrawType DEF BubbleTypes, Drawn, ScreensInv

\* Taps other than f go on as they were expected to, or are given up.
Others(f) ==
    \A e \in Taps \ {f} :
        /\ bub'[e] = bub[e] /\ (pc[e] # "idle" => pc'[e] # "idle")
        /\ Expected(e) => Expected(e)' \/ e \in abandoned'

\* A step that draws, if at all, for tap f on its bubble b.
LEMMA BubbleStep ==
    ASSUME ScreensInv, NEW f \in Taps, NEW b \in Bubbles, Drawn(f, b), Others(f),
           bub'[f] = b, bub[f] = b \/ pc[f] = "idle", pc'[f] # "idle",
           abandoned \subseteq abandoned',
           claimant'[b] = f => \/ screen'[b] = [by |-> f, what |-> "answer"]
                               \/ Expected(f)' \/ f \in abandoned' \/ b \in strayed'
    PROVE  ClaimsOK' /\ AnswersDue'
<1>1. \A c \in Bubbles : claimant[c] \in Taps \cup {None}
  BY DEF ScreensInv, BubbleTypes
<1>2. ASSUME NEW c \in Bubbles \ {b}, claimant[c] # None
      PROVE  claimant[c] \in Taps \ {f}
  <2>1. bub[claimant[c]] = c /\ pc[claimant[c]] # "idle"
    BY <1>2 DEF ScreensInv, ClaimsOK
  <2> QED BY <1>1, <1>2, <2>1
<1>3. ClaimsOK'
  <2> SUFFICES ASSUME NEW c \in Bubbles
               PROVE  /\ owner'[c] \in {None, claimant'[c]}
                      /\ claimant'[c] # None => bub'[claimant'[c]] = c /\ pc'[claimant'[c]] # "idle"
    BY DEF ClaimsOK
  <2>1. CASE c = b
    <3>1. claimant'[b] \in {claimant[b], f} /\ owner'[b] \in {None, claimant'[b]}
      BY DEF Drawn
    <3>2. CASE claimant'[b] = f
      BY <2>1, <3>1, <3>2
    <3>3. CASE claimant'[b] = claimant[b] /\ claimant'[b] \notin {f, None}
      <4>1. claimant[b] \in Taps \ {f} /\ bub[claimant[b]] = b /\ pc[claimant[b]] # "idle"
        BY <1>1, <3>3 DEF ScreensInv, ClaimsOK
      <4> QED BY <2>1, <3>1, <3>3, <4>1 DEF Others
    <3> QED BY <2>1, <3>1, <3>2, <3>3
  <2>2. CASE c # b
    <3>1. owner'[c] = owner[c] /\ claimant'[c] = claimant[c]
      BY <2>2 DEF Drawn
    <3>2. owner[c] \in {None, claimant[c]}
      BY DEF ScreensInv, ClaimsOK
    <3>3. ASSUME claimant[c] # None
          PROVE  bub'[claimant[c]] = c /\ pc'[claimant[c]] # "idle"
      <4>1. claimant[c] \in Taps \ {f} /\ bub[claimant[c]] = c /\ pc[claimant[c]] # "idle"
        BY <1>2, <2>2, <3>3 DEF ScreensInv, ClaimsOK
      <4> QED BY <4>1 DEF Others
    <3> QED BY <3>1, <3>2, <3>3
  <2> QED BY <2>1, <2>2
<1>4. AnswersDue'
  <2> SUFFICES ASSUME NEW c \in Bubbles, NEW e \in Taps, claimant'[c] = e, c \notin strayed',
                      e \notin abandoned'
               PROVE  screen'[c] = [by |-> e, what |-> "answer"] \/ Expected(e)'
    BY DEF AnswersDue
  <2>1. CASE e = f
    <3>1. bub'[e] = c
      BY <1>3, NoTap DEF ClaimsOK
    <3> QED BY <2>1, <3>1
  <2>2. CASE e # f
    <3>1. claimant[c] = e /\ screen'[c] = screen[c] /\ c \notin strayed
      <4>1. CASE c = b
        BY <2>2, <4>1, NoTap DEF Drawn
      <4>2. CASE c # b
        BY <4>2 DEF Drawn
      <4> QED BY <4>1, <4>2
    <3>2. screen[c] = [by |-> e, what |-> "answer"] \/ Expected(e)
      BY <3>1 DEF ScreensInv, AnswersDue
    <3>3. Expected(e) => Expected(e)'
      BY <2>2 DEF Others
    <3> QED BY <3>1, <3>2, <3>3
  <2> QED BY <2>1, <2>2
<1> QED BY <1>3, <1>4

\* A step that draws nothing.
LEMMA BubblesLeft ==
    ASSUME ScreensInv, UNCHANGED bubbles, abandoned \subseteq abandoned',
           \A e \in Taps :
               /\ bub'[e] = bub[e] \/ pc[e] = "idle"
               /\ pc[e] # "idle" => pc'[e] # "idle"
               /\ Expected(e) => Expected(e)' \/ e \in abandoned'
    PROVE  BubbleTypes' /\ ClaimsOK' /\ AnswersDue'
<1>1. BubbleTypes'
  BY DEF ScreensInv, BubbleTypes, bubbles
<1>2. \A b \in Bubbles : claimant[b] \in Taps \cup {None}
  BY DEF ScreensInv, BubbleTypes
<1>3. ClaimsOK'
  BY <1>2 DEF ScreensInv, ClaimsOK, bubbles
<1>4. AnswersDue'
  <2> SUFFICES ASSUME NEW c \in Bubbles, NEW e \in Taps, claimant'[c] = e, c \notin strayed',
                      e \notin abandoned'
               PROVE  screen'[c] = [by |-> e, what |-> "answer"] \/ Expected(e)'
    BY DEF AnswersDue
  <2>1. claimant[c] = e /\ c \notin strayed /\ screen' = screen
    BY DEF bubbles
  <2>2. screen[c] = [by |-> e, what |-> "answer"] \/ Expected(e)
    BY <2>1 DEF ScreensInv, AnswersDue
  <2> QED BY <2>1, <2>2
<1> QED BY <1>1, <1>3, <1>4

\* The parts of the invariant, one by one.
LEMMA PartsOf ==
    ASSUME ScreensInv, NEW f \in Taps
    PROVE  /\ TapOK(f) /\ TapTypes /\ QueueTypes /\ OtherTypes /\ JobsOK
           /\ (pc[f] \in Underway \/ f \in abandoned) => bub[f] \in Bubbles
           /\ pc[f] \in Underway => row[f] \in DOMAIN Row
BY DEF ScreensInv, TapsOK, TapOK

\* Steps that leave the queue alone give up no answer that a job owes.
LEMMA QueueLeft ==
    ASSUME ScreensInv, UNCHANGED <<bub, queue>>, abandoned \subseteq abandoned'
    PROVE  QueueTypes' /\ JobsOK'
<1>1. flight' = flight /\ payload' = payload /\ bub' = bub
  BY DEF queue
<1>2. QueueTypes'
  BY <1>1 DEF ScreensInv, QueueTypes
<1>3. JobsOK'
  BY <1>1 DEF ScreensInv, JobsOK
<1> QED BY <1>2, <1>3

LEMMA ExpectedStays ==
    ASSUME UNCHANGED queue, NEW e \in Taps, pc'[e] = pc[e]
    PROVE  Expected(e) => Expected(e)'
BY DEF Expected, queue

\* Steps that keep the downloads: none begins or moves, and no cooldown of one ends.
LEMMA DownloadsKept ==
    ASSUME ScreensInv, UNCHANGED downloads, cooling \cap Downloads \subseteq cooling',
           \A f \in Taps : pc'[f] \in Sending => pc'[f] = pc[f] /\ row'[f] = row[f]
    PROVE  DownloadsOK'
<1>1. lapsed' = lapsed /\ inflight' = inflight
  BY DEF downloads
<1>2. ASSUME NEW s \in Downloads, DownloadOK(s)
      PROVE  DownloadOK(s)'
  <2>1. \A f \in Taps : pc'[f] \in {"identify", "ack", "deliver"} => pc'[f] = pc[f] /\ row'[f] = row[f]
    BY DEF Sending
  <2>2. s \in cooling => s \in cooling'
    OBVIOUS
  <2> HIDE DEF Downloads
  <2> QED BY <1>1, <1>2, <2>1, <2>2 DEF DownloadOK
<1> QED BY <1>1, <1>2 DEF ScreensInv, DownloadsOK

\* A tap begins: it is new to every bubble and to every job.
LEMMA TapBegins ==
    ASSUME ScreensInv, NEW f \in Taps, NEW s, NEW b \in Bubbles, Tap(f, s, b),
           NEW place \in {"done", "enqueue", "limit", "load", "reclaim"}, Goto(f, place),
           place # "done" => Row[s].opens \notin {"menu", "ends"},
           place = "limit" => s = "paperSearch",
           cooling \subseteq cooling', cooling' \subseteq Offered, UNCHANGED abandoned
    PROVE  /\ TapTypes' /\ QueueTypes' /\ OtherTypes' /\ TapsOK' /\ JobsOK' /\ DownloadsOK'
           /\ Others(f) /\ bub'[f] = b /\ pc[f] = "idle" /\ pc'[f] = place
           /\ \A e \in Taps : Expected(e) => Expected(e)'
           /\ \A e \in Taps : bub'[e] = bub[e] \/ pc[e] = "idle"
           /\ \A e \in Taps : pc[e] # "idle" => pc'[e] # "idle"
<1>1. /\ pc' = [pc EXCEPT ![f] = place] /\ row' = [row EXCEPT ![f] = s]
      /\ bub' = [bub EXCEPT ![f] = b] /\ pc[f] = "idle" /\ s \in Offered \ Downloads
      /\ flight' = flight /\ payload' = payload /\ UNCHANGED queue /\ UNCHANGED downloads
  BY DEF Tap, Goto, Begins, queue
<1>2. s \in DOMAIN Row
  BY <1>1, OfferedAssumption
<1>3. TapTypes'
  <2>1. place \in Places
    BY DEF Places
  <2> QED BY <1>1, <2>1 DEF ScreensInv, TapTypes
<1>4. /\ pc'[f] = place /\ row'[f] = s /\ bub'[f] = b
      /\ \A e \in Taps \ {f} : pc'[e] = pc[e] /\ row'[e] = row[e] /\ bub'[e] = bub[e]
  BY <1>1 DEF ScreensInv, TapTypes
<1>5. QueueTypes' /\ OtherTypes'
  <2>1. QueueTypes'
    BY <1>1 DEF ScreensInv, QueueTypes
  <2>2. OtherTypes'
    BY <1>1 DEF ScreensInv, OtherTypes, downloads
  <2> QED BY <2>1, <2>2
<1>6. TapsOK'
  <2>1. TapOK(f)'
    BY <1>1, <1>2, <1>4 DEF TapOK, Underway, Sending
  <2>2. ASSUME NEW e \in Taps \ {f} PROVE TapOK(e)'
    <3>1. TapOK(e) /\ pc'[e] = pc[e] /\ row'[e] = row[e] /\ bub'[e] = bub[e]
      BY <1>4 DEF ScreensInv, TapsOK
    <3> QED BY <3>1 DEF TapOK
  <2> QED BY <2>1, <2>2 DEF TapsOK
<1>7. JobsOK'
  <2>1. \A g \in Jobs : payload[g] # None => payload[g] \in Taps /\ bub'[payload[g]] \in Bubbles
    BY <1>4 DEF ScreensInv, JobsOK, QueueTypes
  <2> QED BY <1>1, <2>1 DEF ScreensInv, JobsOK
<1>8. DownloadsOK'
  <2>1. \A e \in Taps : pc'[e] \in Sending => pc'[e] = pc[e] /\ row'[e] = row[e]
    BY <1>4 DEF Sending
  <2> QED BY <1>1, <2>1, DownloadsKept
<1>9. \A e \in Taps : Expected(e) => Expected(e)'
  <2>1. ASSUME NEW e \in Taps, Expected(e) PROVE Expected(e)'
    <3>1. CASE e = f
      BY <1>1, <2>1, <3>1 DEF Expected
    <3>2. CASE e # f
      BY <1>1, <1>4, <2>1, <3>2 DEF Expected
    <3> QED BY <3>1, <3>2
  <2> QED BY <2>1
<1>10. Others(f)
  BY <1>4, <1>9 DEF Others
<1>11. /\ \A e \in Taps : bub'[e] = bub[e] \/ pc[e] = "idle"
       /\ \A e \in Taps : pc[e] # "idle" => pc'[e] # "idle"
  BY <1>1, <1>4
<1> QED BY <1>1, <1>3, <1>4, <1>5, <1>6, <1>7, <1>8, <1>9, <1>10, <1>11

LEMMA ShowKnownStep ==
    ASSUME ScreensInv, NEW f \in Taps, NEW s \in DOMAIN Row, NEW b \in Bubbles, ShowKnown(f, s, b)
    PROVE  ScreensInv'
<1>1. Tap(f, s, b) /\ Show(f, b, "answer") /\ Goto(f, "done") /\ cooling' = cooling /\ abandoned' = abandoned
  BY DEF ShowKnown
<1>2. cooling \subseteq Offered
  BY DEF ScreensInv, OtherTypes
<1>3. /\ TapTypes' /\ QueueTypes' /\ OtherTypes' /\ TapsOK' /\ JobsOK' /\ DownloadsOK'
      /\ Others(f) /\ bub'[f] = b /\ pc[f] = "idle" /\ pc'[f] = "done"
  BY <1>1, <1>2, TapBegins
<1>4. BubbleTypes' /\ Drawn(f, b) /\ screen'[b] = [by |-> f, what |-> "answer"]
  BY <1>1, ShowDraws
<1>5. ClaimsOK' /\ AnswersDue'
  BY <1>1, <1>3, <1>4, BubbleStep
<1> QED BY <1>3, <1>4, <1>5 DEF ScreensInv

LEMMA CoolDownStep ==
    ASSUME ScreensInv, NEW f \in Taps, NEW s \in DOMAIN Row, NEW b \in Bubbles,
           CoolDown(f, s, b) \/ Crash(f, s, b)
    PROVE  ScreensInv'
<1>1. Tap(f, s, b) /\ Goto(f, "done") /\ cooling' = cooling /\ abandoned' = abandoned
  BY DEF CoolDown, Crash
<1>2. cooling \subseteq Offered
  BY DEF ScreensInv, OtherTypes
<1>3. /\ TapTypes' /\ QueueTypes' /\ OtherTypes' /\ TapsOK' /\ JobsOK' /\ DownloadsOK'
      /\ Others(f) /\ bub'[f] = b /\ pc[f] = "idle" /\ pc'[f] = "done"
      /\ \A e \in Taps : Expected(e) => Expected(e)'
      /\ \A e \in Taps : bub'[e] = bub[e] \/ pc[e] = "idle"
      /\ \A e \in Taps : pc[e] # "idle" => pc'[e] # "idle"
  BY <1>1, <1>2, TapBegins
<1>4. CASE Show(f, b, "answer")
  <2>1. BubbleTypes' /\ Drawn(f, b) /\ screen'[b] = [by |-> f, what |-> "answer"]
    BY <1>4, ShowDraws
  <2>2. ClaimsOK' /\ AnswersDue'
    BY <1>1, <1>3, <2>1, BubbleStep
  <2> QED BY <1>3, <2>1, <2>2 DEF ScreensInv
<1>5. CASE UNCHANGED bubbles
  <2>1. BubbleTypes' /\ ClaimsOK' /\ AnswersDue'
    BY <1>1, <1>3, <1>5, BubblesLeft
  <2> QED BY <1>3, <2>1 DEF ScreensInv
<1> QED BY <1>4, <1>5 DEF CoolDown, Crash

\* Whichever way the handler opens its bubble, it goes on to queue its job.
LEMMA OpenStep ==
    ASSUME ScreensInv, NEW f \in Taps, NEW s \in DOMAIN Row, NEW b \in Bubbles, Open(f, s, b)
    PROVE  ScreensInv'
<1>1. Tap(f, s, b) /\ cooling \subseteq cooling' /\ cooling' \subseteq Offered /\ abandoned' = abandoned
  BY DEF Open, Tap, ScreensInv, OtherTypes
<1>2. PICK place \in {"enqueue", "limit", "load", "reclaim"} :
          /\ Goto(f, place) /\ Row[s].opens \notin {"menu", "ends"}
          /\ place = "limit" => Row[s].opens = "starts poke"
          /\ \/ Show(f, b, "loading") \/ UNCHANGED bubbles
             \/ Claim(f, b) /\ UNCHANGED screen
             \/ DrawAnyway(f, b, "loading")
  BY DEF Open
<1>3. place = "limit" => s = "paperSearch"
  BY <1>2, RowTable
<1>4. /\ TapTypes' /\ QueueTypes' /\ OtherTypes' /\ TapsOK' /\ JobsOK' /\ DownloadsOK'
      /\ Others(f) /\ bub'[f] = b /\ pc[f] = "idle" /\ pc'[f] = place
      /\ \A e \in Taps : Expected(e) => Expected(e)'
      /\ \A e \in Taps : bub'[e] = bub[e] \/ pc[e] = "idle"
      /\ \A e \in Taps : pc[e] # "idle" => pc'[e] # "idle"
  BY <1>1, <1>2, <1>3, TapBegins
<1>5. Expected(f)'
  BY <1>4 DEF Expected
<1>6. CASE UNCHANGED bubbles
  <2>1. BubbleTypes' /\ ClaimsOK' /\ AnswersDue'
    BY <1>1, <1>4, <1>6, BubblesLeft
  <2> QED BY <1>4, <2>1 DEF ScreensInv
<1>7. CASE ~UNCHANGED bubbles
  <2>1. BubbleTypes' /\ Drawn(f, b)
    <3>1. CASE Show(f, b, "loading")
      BY <3>1, ShowDraws
    <3>2. CASE DrawAnyway(f, b, "loading")
      BY <3>2, DrawAnywayDraws
    <3>3. CASE Claim(f, b) /\ UNCHANGED screen
      <4>1. /\ owner' \in [Bubbles -> Taps \cup {None}] /\ owner'[b] = f
            /\ claimant' \in [Bubbles -> Taps \cup {None}] /\ claimant'[b] = f
            /\ strayed' \subseteq Bubbles
            /\ \A c \in Bubbles \ {b} : /\ owner'[c] = owner[c] /\ claimant'[c] = claimant[c]
                                        /\ (c \in strayed' <=> c \in strayed)
        BY <3>3, ClaimType
      <4>2. screen' = screen /\ screen \in [Bubbles -> Screenshots]
        BY <3>3 DEF ScreensInv, BubbleTypes
      <4>3. Drawn(f, b)
        BY <4>1, <4>2 DEF Drawn
      <4>4. BubbleTypes'
        BY <4>1, <4>2 DEF BubbleTypes, Screenshots
      <4> QED BY <4>3, <4>4
    <3> QED BY <1>2, <1>7, <3>1, <3>2, <3>3
  <2>2. ClaimsOK' /\ AnswersDue'
    BY <1>1, <1>4, <1>5, <2>1, BubbleStep
  <2> QED BY <1>4, <2>1, <2>2 DEF ScreensInv
<1> QED BY <1>6, <1>7

-----------------------------------------------------------------------------
\* One handler moves on.  It stays out of the downloads.
LEMMA TapAdvances ==
    ASSUME ScreensInv, NEW f \in Taps, pc[f] \in Underway,
           NEW place \in {"enqueue", "announce", "wait", "done"}, Goto(f, place),
           place = "wait" => Row[row[f]].awaits, place = "announce" => ~Row[row[f]].awaits,
           UNCHANGED <<row, bub>>, abandoned' \in {abandoned, abandoned \cup {f}}
    PROVE  /\ TapTypes' /\ TapsOK' /\ bub[f] \in Bubbles /\ bub'[f] = bub[f]
           /\ pc'[f] = place /\ \A e \in Taps \ {f} : pc'[e] = pc[e]
           /\ \A e \in Taps : pc[e] # "idle" => pc'[e] # "idle"
           /\ \A e \in Taps : pc'[e] \in Sending => pc'[e] = pc[e] /\ row'[e] = row[e]
<1>1. pc' = [pc EXCEPT ![f] = place] /\ row' = row /\ bub' = bub
  BY DEF Goto
<1>2. TapTypes'
  <2>1. place \in Places
    BY DEF Places
  <2> QED BY <1>1, <2>1 DEF ScreensInv, TapTypes
<1>3. pc'[f] = place /\ \A e \in Taps \ {f} : pc'[e] = pc[e]
  BY <1>1 DEF ScreensInv, TapTypes
<1>4. TapOK(f) /\ bub[f] \in Bubbles
  BY PartsOf
<1>5. TapsOK'
  <2>1. TapOK(f)'
    BY <1>1, <1>3, <1>4 DEF TapOK, Underway, Sending
  <2>2. ASSUME NEW e \in Taps \ {f} PROVE TapOK(e)'
    <3>1. TapOK(e) /\ (e \in abandoned' <=> e \in abandoned)
      BY PartsOf
    <3> QED BY <1>1, <1>3, <3>1 DEF TapOK
  <2> QED BY <2>1, <2>2 DEF TapsOK
<1>6. /\ \A e \in Taps : pc[e] # "idle" => pc'[e] # "idle"
      /\ \A e \in Taps : pc'[e] \in Sending => pc'[e] = pc[e] /\ row'[e] = row[e]
  BY <1>1, <1>3 DEF Sending
<1> QED BY <1>1, <1>2, <1>3, <1>4, <1>5, <1>6

\* A handler moves on and leaves the queue alone.
LEMMA HandlerSteps ==
    ASSUME ScreensInv, NEW f \in Taps, pc[f] \in Underway,
           NEW place \in {"enqueue", "done"}, Goto(f, place),
           UNCHANGED <<row, bub, queue, downloads>>,
           abandoned' \in {abandoned, abandoned \cup {f}},
           cooling \cap Downloads \subseteq cooling', cooling' \subseteq Offered
    PROVE  /\ TapTypes' /\ QueueTypes' /\ OtherTypes' /\ TapsOK' /\ JobsOK' /\ DownloadsOK'
           /\ bub[f] \in Bubbles /\ bub'[f] = bub[f] /\ Others(f) /\ pc'[f] = place
           /\ abandoned \subseteq abandoned'
           /\ \A e \in Taps : bub'[e] = bub[e]
           /\ \A e \in Taps : pc[e] # "idle" => pc'[e] # "idle"
<1>1. /\ TapTypes' /\ TapsOK' /\ bub[f] \in Bubbles /\ bub'[f] = bub[f]
      /\ pc'[f] = place /\ \A e \in Taps \ {f} : pc'[e] = pc[e]
      /\ \A e \in Taps : pc[e] # "idle" => pc'[e] # "idle"
      /\ \A e \in Taps : pc'[e] \in Sending => pc'[e] = pc[e] /\ row'[e] = row[e]
  BY TapAdvances
<1>2. abandoned \subseteq abandoned' /\ UNCHANGED queue /\ UNCHANGED downloads /\ UNCHANGED bub
  OBVIOUS
<1>3. QueueTypes' /\ JobsOK'
  BY <1>2, QueueLeft
<1>4. OtherTypes'
  BY <1>2 DEF ScreensInv, OtherTypes, downloads
<1>5. DownloadsOK'
  BY <1>1, <1>2, DownloadsKept
<1>6. Others(f)
  BY <1>1, <1>2, ExpectedStays DEF Others
<1> QED BY <1>1, <1>2, <1>3, <1>4, <1>5, <1>6

LEMMA LoadStep ==
    ASSUME ScreensInv, NEW f \in Taps, Load(f) \/ Answer(f)
    PROVE  ScreensInv'
<1>1. /\ pc[f] \in Underway /\ UNCHANGED <<row, bub, queue, cooling, abandoned, downloads>>
      /\ \/ Goto(f, "enqueue") /\ DrawIfHeld(f, bub[f], "loading")
         \/ Goto(f, "done") /\ DrawIfHeld(f, bub[f], "answer")
  BY DEF Load, Answer, Underway
<1>2. cooling \cap Downloads \subseteq cooling' /\ cooling' \subseteq Offered /\ abandoned' = abandoned
  BY <1>1 DEF ScreensInv, OtherTypes
<1>3. CASE Goto(f, "enqueue") /\ DrawIfHeld(f, bub[f], "loading")
  <2>1. /\ TapTypes' /\ QueueTypes' /\ OtherTypes' /\ TapsOK' /\ JobsOK' /\ DownloadsOK'
        /\ bub[f] \in Bubbles /\ bub'[f] = bub[f] /\ Others(f) /\ pc'[f] = "enqueue"
    BY <1>1, <1>2, <1>3, HandlerSteps
  <2>2. BubbleTypes' /\ Drawn(f, bub[f])
    BY <1>3, <2>1, DrawIfHeldDraws
  <2>3. Expected(f)'
    BY <2>1 DEF Expected
  <2>4. ClaimsOK' /\ AnswersDue'
    BY <1>2, <2>1, <2>2, <2>3, BubbleStep
  <2> QED BY <2>1, <2>2, <2>4 DEF ScreensInv
<1>4. CASE Goto(f, "done") /\ DrawIfHeld(f, bub[f], "answer")
  <2>1. /\ TapTypes' /\ QueueTypes' /\ OtherTypes' /\ TapsOK' /\ JobsOK' /\ DownloadsOK'
        /\ bub[f] \in Bubbles /\ bub'[f] = bub[f] /\ Others(f) /\ pc'[f] = "done"
    BY <1>1, <1>2, <1>4, HandlerSteps
  <2>2. /\ BubbleTypes' /\ Drawn(f, bub[f]) /\ claimant' = claimant
        /\ claimant[bub[f]] = f => screen'[bub[f]] = [by |-> f, what |-> "answer"]
    BY <1>4, <2>1, DrawIfHeldDraws
  <2>3. ClaimsOK' /\ AnswersDue'
    BY <1>2, <2>1, <2>2, BubbleStep
  <2> QED BY <2>1, <2>2, <2>3 DEF ScreensInv
<1> QED BY <1>1, <1>3, <1>4

LEMMA LimitStep ==
    ASSUME ScreensInv, NEW f \in Taps, Limit(f)
    PROVE  ScreensInv'
<1>1. pc[f] \in Underway /\ UNCHANGED <<row, bub, queue, downloads>>
  BY DEF Limit, Underway
<1>2. "paperSearch" \in Offered
  BY PartsOf DEF Limit, TapOK
<1>3. cooling \cap Downloads \subseteq cooling' /\ cooling' \subseteq Offered
  BY <1>2 DEF Limit, ScreensInv, OtherTypes
<1>4. CASE Goto(f, "enqueue") /\ UNCHANGED <<bubbles, abandoned>>
  <2>1. /\ TapTypes' /\ QueueTypes' /\ OtherTypes' /\ TapsOK' /\ JobsOK' /\ DownloadsOK'
        /\ Others(f) /\ pc'[f] = "enqueue" /\ abandoned \subseteq abandoned'
        /\ \A e \in Taps : bub'[e] = bub[e]
        /\ \A e \in Taps : pc[e] # "idle" => pc'[e] # "idle"
    BY <1>1, <1>3, <1>4, HandlerSteps
  <2>2. \A e \in Taps : Expected(e) => Expected(e)' \/ e \in abandoned'
    <3>1. Expected(f)'
      BY <2>1 DEF Expected
    <3> QED BY <2>1, <3>1 DEF Others
  <2>3. BubbleTypes' /\ ClaimsOK' /\ AnswersDue'
    BY <1>4, <2>1, <2>2, BubblesLeft
  <2> QED BY <2>1, <2>3 DEF ScreensInv
<1>5. CASE /\ Goto(f, "done") /\ DrawAnyway(f, bub[f], "answer")
           /\ abandoned' = abandoned \cup {f}
  <2>1. /\ TapTypes' /\ QueueTypes' /\ OtherTypes' /\ TapsOK' /\ JobsOK' /\ DownloadsOK'
        /\ bub[f] \in Bubbles /\ bub'[f] = bub[f] /\ Others(f) /\ pc'[f] = "done"
        /\ abandoned \subseteq abandoned'
    BY <1>1, <1>3, <1>5, HandlerSteps
  <2>2. BubbleTypes' /\ Drawn(f, bub[f])
    BY <1>5, <2>1, DrawAnywayDraws
  <2>3. f \in abandoned'
    BY <1>5
  <2>4. ClaimsOK' /\ AnswersDue'
    BY <2>1, <2>2, <2>3, BubbleStep
  <2> QED BY <2>1, <2>2, <2>4 DEF ScreensInv
<1> QED BY <1>4, <1>5 DEF Limit

\* Surface() claims the bubble over whoever claimed it in the meantime.
LEMMA ReclaimStep ==
    ASSUME ScreensInv, NEW f \in Taps, Reclaim(f)
    PROVE  ScreensInv'
<1>1. /\ pc[f] \in Underway /\ Goto(f, "enqueue")
      /\ UNCHANGED <<row, bub, queue, cooling, abandoned, downloads>>
  BY DEF Reclaim, Underway
<1>2. cooling \cap Downloads \subseteq cooling' /\ cooling' \subseteq Offered /\ abandoned' = abandoned
  BY <1>1 DEF ScreensInv, OtherTypes
<1>3. /\ TapTypes' /\ QueueTypes' /\ OtherTypes' /\ TapsOK' /\ JobsOK' /\ DownloadsOK'
      /\ bub[f] \in Bubbles /\ bub'[f] = bub[f] /\ Others(f) /\ pc'[f] = "enqueue"
  BY <1>1, <1>2, HandlerSteps
<1>4. BubbleTypes' /\ Drawn(f, bub[f])
  <2>1. /\ owner' = [owner EXCEPT ![bub[f]] = f] /\ claimant' = [claimant EXCEPT ![bub[f]] = f]
        /\ strayed' \in {strayed \ {bub[f]}, strayed \cup {bub[f]}} /\ screen' = screen
    BY DEF Reclaim
  <2>2. BubbleTypes'
    BY <1>3, <2>1 DEF ScreensInv, BubbleTypes, Screenshots
  <2>3. Drawn(f, bub[f])
    BY <1>3, <2>1 DEF ScreensInv, BubbleTypes, Drawn
  <2> QED BY <2>2, <2>3
<1>5. Expected(f)'
  BY <1>3 DEF Expected
<1>6. ClaimsOK' /\ AnswersDue'
  BY <1>2, <1>3, <1>4, <1>5, BubbleStep
<1> QED BY <1>3, <1>4, <1>6 DEF ScreensInv

\* What is given back is no cooldown of a download.
LEMMA RejectStep ==
    ASSUME ScreensInv, NEW f \in Taps, Reject(f)
    PROVE  ScreensInv'
<1>1. /\ pc[f] \in Underway /\ Goto(f, "done") /\ UNCHANGED <<row, bub, queue, abandoned, downloads>>
  BY DEF Reject, Underway
<1>2. row[f] \in DOMAIN Row /\ DOMAIN Row \cap Downloads = {}
  BY <1>1, PartsOf, RowHandlers DEF Downloads
<1>3. cooling \cap Downloads \subseteq cooling' /\ cooling' \subseteq Offered /\ abandoned' = abandoned
  <2>1. cooling' \in {cooling, cooling \ {row[f]}} /\ cooling \subseteq Offered
    BY DEF Reject, ScreensInv, OtherTypes
  <2> QED BY <1>1, <1>2, <2>1
<1>4. /\ TapTypes' /\ QueueTypes' /\ OtherTypes' /\ TapsOK' /\ JobsOK' /\ DownloadsOK'
      /\ bub[f] \in Bubbles /\ bub'[f] = bub[f] /\ Others(f) /\ pc'[f] = "done"
  BY <1>1, <1>3, HandlerSteps
<1>5. CASE Show(f, bub[f], "answer")
  <2>1. /\ BubbleTypes' /\ Drawn(f, bub[f]) /\ screen'[bub[f]] = [by |-> f, what |-> "answer"]
    BY <1>4, <1>5, ShowDraws
  <2>2. ClaimsOK' /\ AnswersDue'
    BY <1>3, <1>4, <2>1, BubbleStep
  <2> QED BY <1>4, <2>1, <2>2 DEF ScreensInv
<1>6. CASE DrawIfHeld(f, bub[f], "answer")
  <2>1. /\ BubbleTypes' /\ Drawn(f, bub[f]) /\ claimant' = claimant
        /\ claimant[bub[f]] = f => screen'[bub[f]] = [by |-> f, what |-> "answer"]
    BY <1>4, <1>6, DrawIfHeldDraws
  <2>2. ClaimsOK' /\ AnswersDue'
    BY <1>3, <1>4, <2>1, BubbleStep
  <2> QED BY <1>4, <2>1, <2>2 DEF ScreensInv
<1> QED BY <1>5, <1>6 DEF Reject

\* A job that draws by itself carries the payload of the tap at its head; whoever
\* joins it is given up.
LEMMA EnqueueStep ==
    ASSUME ScreensInv, NEW f \in Taps, Enqueue(f)
    PROVE  ScreensInv'
<1> DEFINE g == Row[row[f]].job
<1>1. /\ pc[f] = "enqueue" /\ pc[f] \in Underway
      /\ UNCHANGED <<row, bub, bubbles, cooling, downloads>>
  BY DEF Enqueue, Underway
<1>2. row[f] \in DOMAIN Row /\ g \in Jobs /\ (Row[row[f]].awaits <=> g \in AwaitedJobs)
  BY <1>1, PartsOf, AwaitedTable DEF TapOK
<1>3. PICK place \in {"announce", "wait", "done"} :
          /\ Goto(f, place) /\ (place = "wait" => Row[row[f]].awaits)
          /\ place = "announce" => ~Row[row[f]].awaits
          /\ place = "done" => ~Row[row[f]].awaits
  <2>1. CASE Row[row[f]].awaits
    <3>1. Row[row[f]].opens # "late"
      BY <1>2, <2>1, RowTable
    <3> QED BY <2>1, <3>1 DEF Enqueue
  <2>2. CASE ~Row[row[f]].awaits /\ Row[row[f]].opens = "late"
    BY <2>2 DEF Enqueue
  <2>3. CASE ~Row[row[f]].awaits /\ Row[row[f]].opens # "late"
    BY <2>3 DEF Enqueue
  <2> QED BY <2>1, <2>2, <2>3
<1>4. \/ /\ flight[g] = "none" /\ abandoned' = abandoned
         /\ flight' = [flight EXCEPT ![g] = "running"] /\ payload' = [payload EXCEPT ![g] = f]
      \/ /\ flight' = flight /\ payload' = payload
         /\ abandoned' = IF Row[row[f]].awaits THEN abandoned ELSE abandoned \cup {f}
  BY DEF Enqueue, queue
<1>5. flight \in [Jobs -> {"none", "running", "stuck"}] /\ payload \in [Jobs -> Taps \cup {None}]
  BY DEF ScreensInv, QueueTypes
<1> HIDE DEF g
<1>6. abandoned' \in {abandoned, abandoned \cup {f}} /\ abandoned \subseteq abandoned'
  BY <1>4
<1>7. /\ TapTypes' /\ TapsOK' /\ bub[f] \in Bubbles /\ bub'[f] = bub[f]
      /\ pc'[f] = place /\ \A e \in Taps \ {f} : pc'[e] = pc[e]
      /\ \A e \in Taps : pc[e] # "idle" => pc'[e] # "idle"
      /\ \A e \in Taps : pc'[e] \in Sending => pc'[e] = pc[e] /\ row'[e] = row[e]
  BY <1>1, <1>3, <1>6, TapAdvances
<1>8. QueueTypes' /\ OtherTypes'
  <2>1. QueueTypes'
    BY <1>2, <1>4, <1>5 DEF QueueTypes
  <2>2. OtherTypes'
    BY <1>1, <1>6 DEF ScreensInv, OtherTypes, downloads
  <2> QED BY <2>1, <2>2
<1>9. JobsOK'
  <2> SUFFICES ASSUME NEW h \in Jobs, payload'[h] # None
               PROVE  /\ bub'[payload'[h]] \in Bubbles
                      /\ h \notin AwaitedJobs => flight'[h] = "running" \/ payload'[h] \in abandoned'
    BY DEF JobsOK
  <2>1. CASE flight'[h] = flight[h] /\ payload'[h] = payload[h]
    BY <1>1, <1>6, <2>1 DEF ScreensInv, JobsOK
  <2>2. CASE flight'[h] = "running" /\ payload'[h] = f
    BY <1>7, <2>2
  <2> QED BY <1>2, <1>4, <1>5, <2>1, <2>2
<1>10. \A e \in Taps : Expected(e) => Expected(e)' \/ e \in abandoned'
  <2> SUFFICES ASSUME NEW e \in Taps, Expected(e), e \notin abandoned'
               PROVE  Expected(e)'
    OBVIOUS
  <2>1. CASE e = f
    <3>1. CASE place # "done"
      BY <1>7, <2>1, <3>1 DEF Expected
    <3>2. CASE place = "done"
      <4>1. g \notin AwaitedJobs
        BY <1>2, <1>3, <3>2
      <4>2. flight'[g] = "running" /\ payload'[g] = f
        BY <1>2, <1>3, <1>4, <1>5, <2>1, <3>2
      <4> QED BY <1>2, <2>1, <4>1, <4>2 DEF Expected
    <3> QED BY <3>1, <3>2
  <2>2. CASE e # f
    <3>1. CASE pc[e] \notin {"idle", "done"}
      BY <1>7, <2>2, <3>1 DEF Expected
    <3>2. ASSUME NEW h \in Jobs \ AwaitedJobs, flight[h] = "running", payload[h] = e
          PROVE  Expected(e)'
      <4>1. flight'[h] = "running" /\ payload'[h] = e
        BY <1>2, <1>4, <1>5, <3>2
      <4> QED BY <4>1 DEF Expected
    <3> QED BY <3>1, <3>2 DEF Expected
  <2> QED BY <2>1, <2>2
<1>11. BubbleTypes' /\ ClaimsOK' /\ AnswersDue'
  BY <1>1, <1>6, <1>7, <1>10, BubblesLeft
<1>12. DownloadsOK'
  BY <1>1, <1>7, DownloadsKept
<1> QED BY <1>7, <1>8, <1>9, <1>11, <1>12 DEF ScreensInv

\* "Syncing" over a result that came before it: the tap is given up.
LEMMA AnnounceStep ==
    ASSUME ScreensInv, NEW f \in Taps, Announce(f)
    PROVE  ScreensInv'
<1> DEFINE g == Row[row[f]].job
<1>1. /\ pc[f] = "announce" /\ pc[f] \in Underway /\ Goto(f, "done")
      /\ UNCHANGED <<row, bub, queue, cooling, downloads>> /\ Show(f, bub[f], "loading")
      /\ abandoned' = IF payload[g] = f THEN abandoned ELSE abandoned \cup {f}
  BY DEF Announce, Underway
<1>2. g \in Jobs \ AwaitedJobs
  BY <1>1, PartsOf, AwaitedTable DEF TapOK
<1> HIDE DEF g
<1>3. /\ cooling \cap Downloads \subseteq cooling' /\ cooling' \subseteq Offered
      /\ abandoned' \in {abandoned, abandoned \cup {f}}
  BY <1>1 DEF ScreensInv, OtherTypes
<1>4. /\ TapTypes' /\ QueueTypes' /\ OtherTypes' /\ TapsOK' /\ JobsOK' /\ DownloadsOK'
      /\ bub[f] \in Bubbles /\ bub'[f] = bub[f] /\ Others(f) /\ pc'[f] = "done"
      /\ abandoned \subseteq abandoned'
  BY <1>1, <1>3, HandlerSteps
<1>5. BubbleTypes' /\ Drawn(f, bub[f])
  BY <1>1, <1>4, ShowDraws
<1>6. Expected(f)' \/ f \in abandoned'
  <2>1. CASE payload[g] = f
    <3>1. flight[g] = "running" \/ f \in abandoned
      BY <1>2, <2>1, NoTap DEF ScreensInv, JobsOK
    <3>2. flight[g] = "running" => Expected(f)'
      BY <1>1, <1>2, <2>1 DEF Expected, queue
    <3> QED BY <1>4, <3>1, <3>2
  <2>2. CASE payload[g] # f
    BY <1>1, <2>2
  <2> QED BY <2>1, <2>2
<1>7. ClaimsOK' /\ AnswersDue'
  BY <1>4, <1>5, <1>6, BubbleStep
<1> QED BY <1>4, <1>5, <1>7 DEF ScreensInv

-----------------------------------------------------------------------------
\* Taps that wait go on, or end, together.
LEMMA WaitersMove ==
    ASSUME ScreensInv, NEW g \in Jobs, NEW place \in {"answered", "done"},
           pc' = [e \in Taps |-> IF e \in Waiters(g) THEN place ELSE pc[e]],
           UNCHANGED <<row, bub>>, abandoned' \subseteq abandoned \cup Waiters(g)
    PROVE  /\ TapTypes' /\ TapsOK'
           /\ \A e \in Taps : pc[e] # "idle" => pc'[e] # "idle"
           /\ \A e \in Taps : e \in Waiters(g) \/ pc'[e] = pc[e]
           /\ \A e \in Taps : pc'[e] \in Sending => pc'[e] = pc[e] /\ row'[e] = row[e]
<1>1. \A e \in Taps : pc'[e] = IF e \in Waiters(g) THEN place ELSE pc[e]
  OBVIOUS
<1>2. \A e \in Waiters(g) : pc[e] = "wait" /\ pc[e] \in Underway
  BY DEF Waiters, Underway
<1>3. TapTypes'
  <2>1. place \in Places
    BY DEF Places
  <2> QED BY <2>1 DEF ScreensInv, TapTypes
<1>4. TapsOK'
  <2> SUFFICES ASSUME NEW e \in Taps PROVE TapOK(e)'
    BY DEF TapsOK
  <2>1. TapOK(e) /\ (pc[e] \in Underway => bub[e] \in Bubbles)
    BY PartsOf
  <2>2. CASE e \in Waiters(g)
    BY <1>1, <1>2, <2>1, <2>2 DEF TapOK, Underway, Sending
  <2>3. CASE e \notin Waiters(g)
    <3>1. pc'[e] = pc[e] /\ row' = row /\ bub' = bub /\ (e \in abandoned' => e \in abandoned)
      BY <1>1, <2>3
    <3> QED BY <2>1, <3>1 DEF TapOK
  <2> QED BY <2>2, <2>3
<1>5. /\ \A e \in Taps : pc[e] # "idle" => pc'[e] # "idle"
      /\ \A e \in Taps : e \in Waiters(g) \/ pc'[e] = pc[e]
      /\ \A e \in Taps : pc'[e] \in Sending => pc'[e] = pc[e] /\ row'[e] = row[e]
  BY <1>1, <1>2 DEF Sending
<1> QED BY <1>3, <1>4, <1>5

\* A job ends: it owes nothing any more, and the others owe what they owed.
LEMMA JobOver ==
    ASSUME ScreensInv, NEW g \in Jobs, EndOf(g), UNCHANGED bub, abandoned \subseteq abandoned'
    PROVE  /\ QueueTypes' /\ JobsOK'
           /\ \A h \in Jobs \ {g} : flight'[h] = flight[h] /\ payload'[h] = payload[h]
<1>1. flight \in [Jobs -> {"none", "running", "stuck"}] /\ payload \in [Jobs -> Taps \cup {None}]
  BY DEF ScreensInv, QueueTypes
<1>2. /\ QueueTypes' /\ payload'[g] = None
      /\ \A h \in Jobs \ {g} : flight'[h] = flight[h] /\ payload'[h] = payload[h]
  BY <1>1 DEF EndOf, QueueTypes
<1>3. JobsOK'
  <2> SUFFICES ASSUME NEW h \in Jobs, payload'[h] # None
               PROVE  /\ bub'[payload'[h]] \in Bubbles
                      /\ h \notin AwaitedJobs => flight'[h] = "running" \/ payload'[h] \in abandoned'
    BY DEF JobsOK
  <2>1. h # g /\ flight'[h] = flight[h] /\ payload'[h] = payload[h]
    BY <1>2
  <2> QED BY <2>1 DEF ScreensInv, JobsOK
<1> QED BY <1>2, <1>3

LEMMA TimeoutStep ==
    ASSUME ScreensInv, NEW f \in Taps, Timeout(f)
    PROVE  ScreensInv'
<1> DEFINE g == Row[row[f]].job
<1>1. /\ pc[f] = "wait" /\ pc[f] \in Underway /\ f \in Waiters(g)
      /\ pc' = [e \in Taps |-> IF e \in Waiters(g) THEN "done" ELSE pc[e]]
      /\ DrawIfHeld(f, bub[f], "answer") /\ EndOf(g)
      /\ abandoned' = abandoned \cup (Waiters(g) \ {f})
      /\ UNCHANGED <<row, bub, cooling, downloads>>
  BY DEF Timeout, Underway, Waiters
<1>2. g \in Jobs /\ g \in AwaitedJobs /\ bub[f] \in Bubbles
  BY <1>1, PartsOf, AwaitedTable DEF TapOK
<1> HIDE DEF g
<1>3. abandoned \subseteq abandoned' /\ abandoned' \subseteq abandoned \cup Waiters(g)
  BY <1>1
<1>4. /\ TapTypes' /\ TapsOK'
      /\ \A e \in Taps : pc[e] # "idle" => pc'[e] # "idle"
      /\ \A e \in Taps : e \in Waiters(g) \/ pc'[e] = pc[e]
      /\ \A e \in Taps : pc'[e] \in Sending => pc'[e] = pc[e] /\ row'[e] = row[e]
  BY <1>1, <1>2, <1>3, WaitersMove
<1>5. /\ QueueTypes' /\ JobsOK'
      /\ \A h \in Jobs \ {g} : flight'[h] = flight[h] /\ payload'[h] = payload[h]
  BY <1>1, <1>2, <1>3, JobOver
<1>6. OtherTypes' /\ DownloadsOK'
  <2>1. Waiters(g) \subseteq Taps
    BY DEF Waiters
  <2>2. OtherTypes'
    BY <1>1, <2>1 DEF ScreensInv, OtherTypes, downloads
  <2>3. DownloadsOK'
    BY <1>1, <1>4, DownloadsKept
  <2> QED BY <2>2, <2>3
<1>7. Others(f)
  <2> SUFFICES ASSUME NEW e \in Taps \ {f}, Expected(e), e \notin abandoned'
               PROVE  Expected(e)'
    BY <1>1, <1>4 DEF Others
  <2>1. pc'[e] = pc[e]
    BY <1>1, <1>4
  <2>2. \A h \in Jobs \ AwaitedJobs : flight'[h] = flight[h] /\ payload'[h] = payload[h]
    BY <1>2, <1>5
  <2> QED BY <2>1, <2>2 DEF Expected
<1>8. /\ BubbleTypes' /\ Drawn(f, bub[f]) /\ claimant' = claimant
      /\ claimant[bub[f]] = f => screen'[bub[f]] = [by |-> f, what |-> "answer"]
  BY <1>1, <1>2, DrawIfHeldDraws
<1>9. ClaimsOK' /\ AnswersDue'
  <2>1. bub'[f] = bub[f] /\ pc'[f] # "idle"
    BY <1>1, <1>4
  <2> QED BY <1>2, <1>3, <1>7, <1>8, <2>1, BubbleStep
<1> QED BY <1>4, <1>5, <1>6, <1>8, <1>9 DEF ScreensInv

\* The note of a slow answer.
LEMMA PokeStep ==
    ASSUME ScreensInv, NEW f \in Taps, Poke(f)
    PROVE  ScreensInv'
<1>1. /\ pc[f] = "wait" \/ (pc[f] = "done" /\ f \in abandoned)
      /\ DrawIfHeld(f, bub[f], "loading")
      /\ UNCHANGED <<pc, row, bub, queue, cooling, abandoned, downloads>>
  BY DEF Poke
<1>2. bub[f] \in Bubbles
  BY <1>1, PartsOf DEF Underway
<1>3. /\ TapTypes' /\ QueueTypes' /\ OtherTypes' /\ TapsOK' /\ JobsOK' /\ DownloadsOK'
  <2>1. TapTypes' /\ OtherTypes'
    BY <1>1 DEF ScreensInv, TapTypes, OtherTypes, downloads
  <2>2. TapsOK'
    BY <1>1 DEF ScreensInv, TapsOK, TapOK
  <2>3. QueueTypes' /\ JobsOK'
    BY <1>1, QueueLeft
  <2>4. DownloadsOK'
    BY <1>1, DownloadsKept
  <2> QED BY <2>1, <2>2, <2>3, <2>4
<1>4. Others(f)
  BY <1>1, ExpectedStays DEF Others
<1>5. BubbleTypes' /\ Drawn(f, bub[f])
  BY <1>1, <1>2, DrawIfHeldDraws
<1>6. Expected(f)' \/ f \in abandoned'
  BY <1>1 DEF Expected
<1>7. ClaimsOK' /\ AnswersDue'
  <2>1. bub'[f] = bub[f] /\ pc'[f] # "idle" /\ abandoned' = abandoned
    BY <1>1
  <2> QED BY <1>2, <1>4, <1>5, <1>6, <2>1, BubbleStep
<1> QED BY <1>3, <1>5, <1>7 DEF ScreensInv

\* A job that draws does it for the tap of its payload, on the bubble of that tap.
LEMMA JobEndsStep ==
    ASSUME ScreensInv, NEW g \in Jobs, JobEnds(g)
    PROVE  ScreensInv'
<1> DEFINE f == payload[g]
<1>1. /\ flight[g] = "running" /\ EndOf(g)
      /\ pc' = [e \in Taps |-> IF e \in Waiters(g) THEN "answered" ELSE pc[e]]
      /\ UNCHANGED <<row, bub, cooling, abandoned, downloads>>
      /\ IF f = None \/ g \in AwaitedJobs THEN UNCHANGED bubbles
         ELSE DrawIfHeld(f, bub[f], "answer") \/ DrawAnyway(f, bub[f], "answer")
  BY DEF JobEnds
<1>2. f # None => f \in Taps /\ bub[f] \in Bubbles
  BY DEF ScreensInv, QueueTypes, JobsOK
<1>3. abandoned' = abandoned /\ abandoned' \subseteq abandoned \cup Waiters(g)
  BY <1>1
<1>4. /\ TapTypes' /\ TapsOK'
      /\ \A e \in Taps : pc[e] # "idle" => pc'[e] # "idle"
      /\ \A e \in Taps : e \in Waiters(g) \/ pc'[e] = pc[e]
      /\ \A e \in Taps : pc'[e] \in Sending => pc'[e] = pc[e] /\ row'[e] = row[e]
  BY <1>1, <1>3, WaitersMove
<1>5. /\ QueueTypes' /\ JobsOK'
      /\ \A h \in Jobs \ {g} : flight'[h] = flight[h] /\ payload'[h] = payload[h]
  BY <1>1, <1>3, JobOver
<1>6. OtherTypes' /\ DownloadsOK'
  <2>1. OtherTypes'
    BY <1>1 DEF ScreensInv, OtherTypes, downloads
  <2>2. DownloadsOK'
    BY <1>1, <1>4, DownloadsKept
  <2> QED BY <2>1, <2>2
<1>7. ASSUME NEW e \in Taps, Expected(e), e # f \/ g \in AwaitedJobs
      PROVE  Expected(e)'
  <2>1. CASE pc[e] \notin {"idle", "done"}
    <3>1. pc'[e] \notin {"idle", "done"}
      BY <1>1, <2>1
    <3> QED BY <3>1 DEF Expected
  <2>2. ASSUME NEW h \in Jobs \ AwaitedJobs, flight[h] = "running", payload[h] = e
        PROVE  Expected(e)'
    <3>1. flight'[h] = "running" /\ payload'[h] = e
      BY <1>5, <1>7, <2>2
    <3> QED BY <3>1 DEF Expected
  <2> QED BY <1>7, <2>1, <2>2 DEF Expected
<1> HIDE DEF f
<1>8. CASE f = None \/ g \in AwaitedJobs
  <2>1. UNCHANGED bubbles /\ UNCHANGED bub
    BY <1>1, <1>8
  <2>2. \A e \in Taps : Expected(e) => Expected(e)'
    BY <1>7, <1>8, NoTap
  <2>3. BubbleTypes' /\ ClaimsOK' /\ AnswersDue'
    BY <1>3, <1>4, <2>1, <2>2, BubblesLeft
  <2> QED BY <1>4, <1>5, <1>6, <2>3 DEF ScreensInv
<1>9. CASE f # None /\ g \notin AwaitedJobs
  <2>1. f \in Taps /\ bub[f] \in Bubbles
    BY <1>2, <1>9
  <2>2. /\ BubbleTypes' /\ Drawn(f, bub[f]) /\ claimant' = claimant
        /\ claimant[bub[f]] = f => screen'[bub[f]] = [by |-> f, what |-> "answer"]
    <3>1. CASE DrawIfHeld(f, bub[f], "answer")
      BY <2>1, <3>1, DrawIfHeldDraws
    <3>2. CASE DrawAnyway(f, bub[f], "answer")
      BY <2>1, <3>2, DrawAnywayDraws
    <3> QED BY <1>1, <1>9, <3>1, <3>2
  <2>3. pc[f] # "idle"
    BY <2>1, PartsOf, NoTap DEF TapOK
  <2>4. bub' = bub /\ pc'[f] # "idle"
    BY <1>1, <1>4, <2>1, <2>3
  <2>5. Others(f)
    BY <1>4, <1>7, <2>4 DEF Others
  <2>6. ClaimsOK' /\ AnswersDue'
    BY <1>3, <2>1, <2>2, <2>4, <2>5, BubbleStep
  <2> QED BY <1>4, <1>5, <1>6, <2>2, <2>6 DEF ScreensInv
<1> QED BY <1>8, <1>9

\* A step at the queue that draws nothing and moves no handler.
LEMMA QueueSteps ==
    ASSUME ScreensInv, UNCHANGED <<pc, row, bub, bubbles, cooling, downloads>>,
           abandoned \subseteq abandoned', \A f \in abandoned' \ abandoned : f \in Taps /\ bub[f] \in Bubbles,
           QueueTypes', JobsOK', \A e \in Taps : Expected(e) => Expected(e)' \/ e \in abandoned'
    PROVE  ScreensInv'
<1>1. abandoned' \subseteq Taps
  BY DEF ScreensInv, OtherTypes
<1>2. TapTypes' /\ OtherTypes'
  BY <1>1 DEF ScreensInv, TapTypes, OtherTypes, downloads
<1>3. TapsOK'
  BY DEF ScreensInv, TapsOK, TapOK
<1>4. DownloadsOK'
  BY DownloadsKept
<1>5. BubbleTypes' /\ ClaimsOK' /\ AnswersDue'
  BY BubblesLeft
<1> QED BY <1>2, <1>3, <1>4, <1>5 DEF ScreensInv

LEMMA JobSilentStep ==
    ASSUME ScreensInv, NEW g \in Jobs, JobSilent(g)
    PROVE  ScreensInv'
<1>1. /\ EndOf(g) /\ abandoned' = abandoned \cup ({payload[g]} \ {None})
      /\ UNCHANGED <<pc, row, bub, bubbles, cooling, downloads>>
  BY DEF JobSilent
<1>2. payload[g] # None => payload[g] \in Taps /\ bub[payload[g]] \in Bubbles
  BY DEF ScreensInv, QueueTypes, JobsOK
<1>3. abandoned \subseteq abandoned' /\ \A f \in abandoned' \ abandoned : f \in Taps /\ bub[f] \in Bubbles
  BY <1>1, <1>2
<1>4. /\ QueueTypes' /\ JobsOK'
      /\ \A h \in Jobs \ {g} : flight'[h] = flight[h] /\ payload'[h] = payload[h]
  BY <1>1, <1>3, JobOver
<1>5. \A e \in Taps : Expected(e) => Expected(e)' \/ e \in abandoned'
  <2> SUFFICES ASSUME NEW e \in Taps, Expected(e), e \notin abandoned'
               PROVE  Expected(e)'
    OBVIOUS
  <2>1. payload[g] # e
    BY <1>1, NoTap
  <2>2. CASE pc[e] \notin {"idle", "done"}
    BY <1>1, <2>2 DEF Expected
  <2>3. ASSUME NEW h \in Jobs \ AwaitedJobs, flight[h] = "running", payload[h] = e
        PROVE  Expected(e)'
    <3>1. flight'[h] = "running" /\ payload'[h] = e
      BY <1>4, <2>1, <2>3
    <3> QED BY <3>1 DEF Expected
  <2> QED BY <2>2, <2>3 DEF Expected
<1> QED BY <1>1, <1>3, <1>4, <1>5, QueueSteps

LEMMA JobRaisesStep ==
    ASSUME ScreensInv, NEW g \in Jobs, JobRaises(g)
    PROVE  ScreensInv'
<1>1. /\ flight' = [flight EXCEPT ![g] = "stuck"] /\ payload' = payload
      /\ abandoned' = IF g \in AwaitedJobs THEN abandoned ELSE abandoned \cup ({payload[g]} \ {None})
      /\ UNCHANGED <<pc, row, bub, bubbles, cooling, downloads>>
  BY DEF JobRaises
<1>2. payload[g] # None => payload[g] \in Taps /\ bub[payload[g]] \in Bubbles
  BY DEF ScreensInv, QueueTypes, JobsOK
<1>3. abandoned \subseteq abandoned' /\ \A f \in abandoned' \ abandoned : f \in Taps /\ bub[f] \in Bubbles
  BY <1>1, <1>2
<1>4. g \notin AwaitedJobs /\ payload[g] # None => payload[g] \in abandoned'
  BY <1>1
<1>5. QueueTypes' /\ \A h \in Jobs \ {g} : flight'[h] = flight[h]
  BY <1>1 DEF ScreensInv, QueueTypes
<1>6. JobsOK'
  <2> SUFFICES ASSUME NEW h \in Jobs, payload[h] # None
               PROVE  /\ bub[payload[h]] \in Bubbles
                      /\ h \notin AwaitedJobs => flight'[h] = "running" \/ payload[h] \in abandoned'
    BY <1>1 DEF JobsOK
  <2>1. CASE h = g
    BY <1>2, <1>4, <2>1
  <2>2. CASE h # g
    BY <1>3, <1>5, <2>2 DEF ScreensInv, JobsOK
  <2> QED BY <2>1, <2>2
<1>7. \A e \in Taps : Expected(e) => Expected(e)' \/ e \in abandoned'
  <2> SUFFICES ASSUME NEW e \in Taps, Expected(e), e \notin abandoned'
               PROVE  Expected(e)'
    OBVIOUS
  <2>1. CASE pc[e] \notin {"idle", "done"}
    BY <1>1, <2>1 DEF Expected
  <2>2. ASSUME NEW h \in Jobs \ AwaitedJobs, flight[h] = "running", payload[h] = e
        PROVE  Expected(e)'
    <3>1. h # g
      BY <1>4, <2>2, NoTap
    <3>2. flight'[h] = "running" /\ payload'[h] = e
      BY <1>1, <1>5, <2>2, <3>1
    <3> QED BY <3>2 DEF Expected
  <2> QED BY <2>1, <2>2 DEF Expected
<1> QED BY <1>1, <1>3, <1>5, <1>6, <1>7, QueueSteps

LEMMA BackgroundStep ==
    ASSUME ScreensInv, Background
    PROVE  ScreensInv'
<1>1. /\ flight["dates"] = "none" /\ flight' = [flight EXCEPT !["dates"] = "running"]
      /\ payload' = payload /\ abandoned' = abandoned
      /\ UNCHANGED <<pc, row, bub, bubbles, cooling, downloads>>
  BY DEF Background
<1>2. QueueTypes' /\ \A h \in Jobs : flight[h] = "running" => flight'[h] = "running"
  BY <1>1 DEF ScreensInv, QueueTypes
<1>3. JobsOK'
  BY <1>1, <1>2 DEF ScreensInv, JobsOK
<1>4. \A e \in Taps : Expected(e) => Expected(e)'
  BY <1>1, <1>2 DEF Expected
<1> QED BY <1>1, <1>2, <1>3, <1>4, QueueSteps

LEMMA ForgetStep ==
    ASSUME ScreensInv, NEW b \in Bubbles, Forget(b)
    PROVE  ScreensInv'
<1>1. /\ owner' = [owner EXCEPT ![b] = None]
      /\ UNCHANGED <<pc, row, bub, screen, queue, cooling, claimant, strayed, abandoned, downloads>>
  BY DEF Forget
<1>2. TapTypes' /\ OtherTypes' /\ TapsOK'
  <2>1. TapTypes' /\ OtherTypes'
    BY <1>1 DEF ScreensInv, TapTypes, OtherTypes, downloads
  <2>2. TapsOK'
    BY <1>1 DEF ScreensInv, TapsOK, TapOK
  <2> QED BY <2>1, <2>2
<1>3. QueueTypes' /\ JobsOK'
  BY <1>1, QueueLeft
<1>4. DownloadsOK'
  BY <1>1, DownloadsKept
<1>5. BubbleTypes' /\ \A c \in Bubbles : owner'[c] \in {None, owner[c]}
  BY <1>1 DEF ScreensInv, BubbleTypes, Screenshots
<1>6. ClaimsOK'
  BY <1>1, <1>5 DEF ScreensInv, ClaimsOK
<1>7. AnswersDue'
  BY <1>1, ExpectedStays DEF ScreensInv, AnswersDue
<1> QED BY <1>2, <1>3, <1>4, <1>5, <1>6, <1>7 DEF ScreensInv

-----------------------------------------------------------------------------
\* Steps of downloads and of their cooldowns, away from every bubble and from the queue.
LEMMA AwayFromBubbles ==
    ASSUME ScreensInv, UNCHANGED <<bub, bubbles, queue, abandoned>>,
           TapTypes', OtherTypes', TapsOK', DownloadsOK',
           \A e \in Taps : pc'[e] # pc[e] => pc[e] \in Sending \cup {"idle"} /\ pc'[e] # "idle"
    PROVE  ScreensInv'
<1>1. QueueTypes' /\ JobsOK'
  BY QueueLeft
<1>2. \A e \in Taps, b \in Bubbles : claimant[b] = e => pc'[e] = pc[e]
  BY NoTap DEF ScreensInv, ClaimsOK, TapsOK, TapOK
<1>3. BubbleTypes' /\ ClaimsOK'
  <2>1. BubbleTypes'
    BY DEF ScreensInv, BubbleTypes, bubbles
  <2>2. \A e \in Taps : pc[e] # "idle" => pc'[e] # "idle"
    OBVIOUS
  <2>3. \A b \in Bubbles : claimant[b] \in Taps \cup {None}
    BY DEF ScreensInv, BubbleTypes
  <2>4. ClaimsOK'
    BY <2>2, <2>3 DEF ScreensInv, ClaimsOK, bubbles
  <2> QED BY <2>1, <2>4
<1>4. AnswersDue'
  <2> SUFFICES ASSUME NEW c \in Bubbles, NEW e \in Taps, claimant'[c] = e, c \notin strayed',
                      e \notin abandoned'
               PROVE  screen'[c] = [by |-> e, what |-> "answer"] \/ Expected(e)'
    BY DEF AnswersDue
  <2>1. claimant[c] = e /\ c \notin strayed /\ screen' = screen
    BY DEF bubbles
  <2>2. screen[c] = [by |-> e, what |-> "answer"] \/ Expected(e)
    BY <2>1 DEF ScreensInv, AnswersDue
  <2>3. Expected(e) => Expected(e)'
    BY <1>2, <2>1, ExpectedStays
  <2> QED BY <2>1, <2>2, <2>3
<1> QED BY <1>1, <1>3, <1>4 DEF ScreensInv

\* One download moves.
LEMMA DownloadMoves ==
    ASSUME ScreensInv, NEW f \in Taps, NEW s \in Offered \cap Downloads,
           NEW place \in {"identify", "ack", "deliver", "done"}, Goto(f, place),
           \/ pc[f] = "idle" /\ row' = [row EXCEPT ![f] = s]
           \/ pc[f] \in Sending /\ row' = row /\ row[f] = s,
           UNCHANGED <<bub, abandoned>>
    PROVE  /\ TapTypes' /\ TapsOK' /\ pc'[f] = place /\ row'[f] = s
           /\ \A e \in Taps \ {f} : pc'[e] = pc[e] /\ row'[e] = row[e]
           /\ \A e \in Taps : pc'[e] # pc[e] => pc[e] \in Sending \cup {"idle"} /\ pc'[e] # "idle"
<1>1. pc' = [pc EXCEPT ![f] = place] /\ bub' = bub
  BY DEF Goto
<1>2. TapTypes'
  <2>1. place \in Places
    BY DEF Places
  <2> QED BY <1>1, <2>1 DEF ScreensInv, TapTypes
<1>3. /\ pc'[f] = place /\ row'[f] = s
      /\ \A e \in Taps \ {f} : pc'[e] = pc[e] /\ row'[e] = row[e]
  BY <1>1 DEF ScreensInv, TapTypes
<1>4. TapsOK'
  <2>1. TapOK(f)'
    <3>1. TapOK(f)
      BY PartsOf
    <3>2. bub[f] = None /\ f \notin abandoned
      BY <3>1, NoTap DEF TapOK
    <3> QED BY <1>1, <1>3, <3>2 DEF TapOK, Underway, Sending
  <2>2. ASSUME NEW e \in Taps \ {f} PROVE TapOK(e)'
    <3>1. TapOK(e)
      BY PartsOf
    <3> QED BY <1>1, <1>3, <3>1 DEF TapOK
  <2> QED BY <2>1, <2>2 DEF TapsOK
<1>5. \A e \in Taps : pc'[e] # pc[e] => pc[e] \in Sending \cup {"idle"} /\ pc'[e] # "idle"
  BY <1>3
<1> QED BY <1>2, <1>3, <1>4, <1>5

\* A step of the downloads of s leaves those of the others alone.
LEMMA OtherDownloads ==
    ASSUME NEW s, \A h \in Downloads \ {s} : (h \in cooling => h \in cooling') /\ (h \in inflight => h \in inflight'),
           NEW f, \A e \in Taps \ {f} : pc'[e] = pc[e] /\ row'[e] = row[e], row'[f] = s,
           NEW h \in Downloads \ {s}, DownloadOK(h)
    PROVE  DownloadOK(h)'
<1>1. \A e \in Taps : row'[e] = h => e # f /\ pc'[e] = pc[e] /\ row[e] = h
  OBVIOUS
<1> HIDE DEF Downloads
<1> QED BY <1>1 DEF DownloadOK

LEMMA DownloadStep ==
    ASSUME ScreensInv, NEW f \in Taps, NEW s \in Downloads, Download(f, s)
    PROVE  ScreensInv'
<1>1. /\ pc[f] = "idle" /\ s \in Offered /\ row' = [row EXCEPT ![f] = s]
      /\ Goto(f, IF s \in inflight THEN "done" ELSE "identify")
      /\ UNCHANGED <<bub, bubbles, queue, cooling, abandoned>> /\ lapsed' = lapsed /\ inflight' = inflight
  BY DEF Download, Begins, downloads
<1>2. PICK place \in {"identify", "done"} : Goto(f, place) /\ (place = "identify" => s \notin inflight)
  BY <1>1
<1>3. /\ TapTypes' /\ TapsOK' /\ pc'[f] = place /\ row'[f] = s
      /\ \A e \in Taps \ {f} : pc'[e] = pc[e] /\ row'[e] = row[e]
      /\ \A e \in Taps : pc'[e] # pc[e] => pc[e] \in Sending \cup {"idle"} /\ pc'[e] # "idle"
  BY <1>1, <1>2, DownloadMoves
<1>4. OtherTypes'
  BY <1>1 DEF ScreensInv, OtherTypes
<1>5. DownloadsOK'
  <2>1. CASE lapsed
    BY <1>1, <2>1 DEF DownloadsOK
  <2>2. CASE ~lapsed
    <3>1. \A h \in Downloads : DownloadOK(h)
      BY <2>2 DEF ScreensInv, DownloadsOK
    <3>2. \A h \in Downloads \ {s} : DownloadOK(h)'
      BY <1>1, <1>3, <3>1, OtherDownloads
    <3>3. DownloadOK(s)'
      <4>1. DownloadOK(s)
        BY <3>1
      <4>2. \A e \in Taps : pc'[e] \in {"ack", "deliver"} => e # f
        BY <1>3
      <4>3. place = "identify" => \A e \in Taps : ~(row'[e] = s /\ pc'[e] = "deliver")
        BY <1>2, <1>3, <4>1, <4>2 DEF DownloadOK
      <4>4. \A e, h \in Taps : (/\ row'[e] = s /\ pc'[e] = "deliver"
                                /\ row'[h] = s /\ pc'[h] = "identify") => s \in cooling'
        BY <1>1, <1>3, <4>1, <4>2, <4>3 DEF DownloadOK
      <4> QED BY <1>1, <1>3, <4>1, <4>2, <4>4 DEF DownloadOK
    <3> QED BY <3>2, <3>3 DEF DownloadsOK
  <2> QED BY <2>1, <2>2
<1> QED BY <1>1, <1>3, <1>4, <1>5, AwayFromBubbles

\* The cooldown lets one tap past it, and only when none is.
LEMMA IdentifyStep ==
    ASSUME ScreensInv, NEW f \in Taps, Identify(f)
    PROVE  ScreensInv'
<1>0. PICK s : row[f] = s
  OBVIOUS
<1>1. /\ pc[f] = "identify" /\ UNCHANGED <<row, bub, bubbles, queue, abandoned>>
      /\ lapsed' = lapsed /\ inflight' = inflight
  BY DEF Identify, downloads
<1>2. PICK place \in {"ack", "done"} :
          /\ Goto(f, place)
          /\ IF place = "done" THEN cooling' = cooling
             ELSE s \notin cooling /\ cooling' = cooling \cup {s}
  BY <1>0 DEF Identify
<1>3. s \in Offered \cap Downloads /\ row[f] = s /\ pc[f] \in Sending
  BY <1>0, <1>1, PartsOf DEF TapOK, Sending
<1>4. /\ TapTypes' /\ TapsOK' /\ pc'[f] = place /\ row'[f] = s
      /\ \A e \in Taps \ {f} : pc'[e] = pc[e] /\ row'[e] = row[e]
      /\ \A e \in Taps : pc'[e] # pc[e] => pc[e] \in Sending \cup {"idle"} /\ pc'[e] # "idle"
  BY <1>1, <1>2, <1>3, DownloadMoves
<1>5. OtherTypes'
  BY <1>1, <1>2, <1>3 DEF ScreensInv, OtherTypes
<1>6. DownloadsOK'
  <2>1. CASE lapsed
    BY <1>1, <2>1 DEF DownloadsOK
  <2>2. CASE ~lapsed
    <3>1. \A h \in Downloads : DownloadOK(h)
      BY <2>2 DEF ScreensInv, DownloadsOK
    <3>2. \A h \in Downloads \ {s} : DownloadOK(h)'
      BY <1>1, <1>2, <1>4, <3>1, OtherDownloads
    <3>3. DownloadOK(s)'
      <4>1. DownloadOK(s)
        BY <1>3, <3>1
      <4>2. CASE place = "done"
        <5>1. \A e \in Taps : pc'[e] \in Sending => e # f
          BY <1>4, <4>2 DEF Sending
        <5> QED BY <1>1, <1>2, <1>4, <4>1, <4>2, <5>1 DEF DownloadOK, Sending
      <4>3. CASE place = "ack"
        <5>1. s \in cooling' /\ s \notin cooling
          BY <1>2, <4>3
        <5>2. \A e \in Taps : ~(row[e] = s /\ pc[e] \in {"ack", "deliver"})
          BY <1>1, <1>3, <4>1, <5>1 DEF DownloadOK
        <5>3. \A e \in Taps : row'[e] = s /\ pc'[e] \in {"ack", "deliver"} => e = f
          BY <1>4, <5>2
        <5> QED BY <1>1, <1>4, <4>3, <5>1, <5>3 DEF DownloadOK
      <4> QED BY <4>2, <4>3
    <3> QED BY <3>2, <3>3 DEF DownloadsOK
  <2> QED BY <2>1, <2>2
<1> QED BY <1>1, <1>4, <1>5, <1>6, AwayFromBubbles

LEMMA RegisterStep ==
    ASSUME ScreensInv, NEW f \in Taps, Register(f)
    PROVE  ScreensInv'
<1>0. PICK s : row[f] = s
  OBVIOUS
<1>1. /\ pc[f] = "ack" /\ Goto(f, "deliver") /\ inflight' = inflight \cup {s}
      /\ UNCHANGED <<row, bub, bubbles, queue, abandoned>> /\ lapsed' = lapsed /\ cooling' = cooling
  BY <1>0 DEF Register
<1>2. s \in Offered \cap Downloads /\ row[f] = s /\ pc[f] \in Sending
  BY <1>0, <1>1, PartsOf DEF TapOK, Sending
<1>3. /\ TapTypes' /\ TapsOK' /\ pc'[f] = "deliver" /\ row'[f] = s
      /\ \A e \in Taps \ {f} : pc'[e] = pc[e] /\ row'[e] = row[e]
      /\ \A e \in Taps : pc'[e] # pc[e] => pc[e] \in Sending \cup {"idle"} /\ pc'[e] # "idle"
  BY <1>1, <1>2, DownloadMoves
<1>4. OtherTypes'
  BY <1>1, <1>2 DEF ScreensInv, OtherTypes
<1>5. DownloadsOK'
  <2>1. CASE lapsed
    BY <1>1, <2>1 DEF DownloadsOK
  <2>2. CASE ~lapsed
    <3>1. \A h \in Downloads : DownloadOK(h)
      BY <2>2 DEF ScreensInv, DownloadsOK
    <3>2. \A h \in Downloads \ {s} : DownloadOK(h)'
      BY <1>1, <1>3, <3>1, OtherDownloads
    <3>3. DownloadOK(s)'
      <4>1. DownloadOK(s)
        BY <1>2, <3>1
      <4>2. s \in cooling' /\ s \in inflight'
        BY <1>1, <1>2, <4>1 DEF DownloadOK
      <4>3. \A e \in Taps : (row'[e] = s /\ pc'[e] \in {"ack", "deliver"}) => e = f
        BY <1>1, <1>2, <1>3, <4>1 DEF DownloadOK
      <4> QED BY <1>3, <4>2, <4>3 DEF DownloadOK
    <3> QED BY <3>2, <3>3 DEF DownloadsOK
  <2> QED BY <2>1, <2>2
<1> QED BY <1>1, <1>3, <1>4, <1>5, AwayFromBubbles

LEMMA DeliveredStep ==
    ASSUME ScreensInv, NEW f \in Taps, Delivered(f)
    PROVE  ScreensInv'
<1>0. PICK s : row[f] = s
  OBVIOUS
<1>1. /\ pc[f] = "deliver" /\ Goto(f, "done") /\ inflight' = inflight \ {s}
      /\ UNCHANGED <<row, bub, bubbles, queue, abandoned>> /\ lapsed' = lapsed /\ cooling' = cooling
  BY <1>0 DEF Delivered
<1>2. s \in Offered \cap Downloads /\ row[f] = s /\ pc[f] \in Sending
  BY <1>0, <1>1, PartsOf DEF TapOK, Sending
<1>3. /\ TapTypes' /\ TapsOK' /\ pc'[f] = "done" /\ row'[f] = s
      /\ \A e \in Taps \ {f} : pc'[e] = pc[e] /\ row'[e] = row[e]
      /\ \A e \in Taps : pc'[e] # pc[e] => pc[e] \in Sending \cup {"idle"} /\ pc'[e] # "idle"
  BY <1>1, <1>2, DownloadMoves
<1>4. OtherTypes'
  BY <1>1, <1>2 DEF ScreensInv, OtherTypes
<1>5. DownloadsOK'
  <2>1. CASE lapsed
    BY <1>1, <2>1 DEF DownloadsOK
  <2>2. CASE ~lapsed
    <3>1. \A h \in Downloads : DownloadOK(h)
      BY <2>2 DEF ScreensInv, DownloadsOK
    <3>2. \A h \in Downloads \ {s} : DownloadOK(h)'
      BY <1>1, <1>3, <3>1, OtherDownloads
    <3>3. DownloadOK(s)'
      <4>1. DownloadOK(s)
        BY <1>2, <3>1
      <4>2. \A e \in Taps : ~(row'[e] = s /\ pc'[e] \in {"ack", "deliver"})
        BY <1>1, <1>2, <1>3, <4>1 DEF DownloadOK
      <4> QED BY <4>2 DEF DownloadOK
    <3> QED BY <3>2, <3>3 DEF DownloadsOK
  <2> QED BY <2>1, <2>2
<1> QED BY <1>1, <1>3, <1>4, <1>5, AwayFromBubbles

\* A cooldown that ends under a tap is one the statement excuses.
LEMMA CooldownEndsStep ==
    ASSUME ScreensInv, NEW s \in cooling, CooldownEnds(s)
    PROVE  ScreensInv'
<1>1. /\ cooling' = cooling \ {s} /\ inflight' = inflight
      /\ lapsed' = (lapsed \/ \E f \in Taps : pc[f] \in {"identify", "ack"} /\ row[f] = s)
      /\ UNCHANGED <<pc, row, bub, bubbles, queue, abandoned>>
  BY DEF CooldownEnds
<1>2. TapTypes' /\ OtherTypes'
  BY <1>1 DEF ScreensInv, TapTypes, OtherTypes
<1>3. TapsOK'
  BY <1>1 DEF ScreensInv, TapsOK, TapOK
<1>4. DownloadsOK'
  <2> SUFFICES ASSUME ~lapsed', NEW h \in Downloads
               PROVE  DownloadOK(h)'
    BY DEF DownloadsOK
  <2>1. ~lapsed /\ \A f \in Taps : ~(pc[f] \in {"identify", "ack"} /\ row[f] = s)
    BY <1>1 DEF ScreensInv, OtherTypes
  <2>2. DownloadOK(h)
    BY <2>1 DEF ScreensInv, DownloadsOK
  <2>3. CASE h = s
    BY <1>1, <2>1, <2>2, <2>3 DEF DownloadOK
  <2>4. CASE h # s
    <3>1. h \in cooling => h \in cooling'
      BY <1>1, <2>4
    <3> HIDE DEF Downloads
    <3> QED BY <1>1, <2>2, <3>1 DEF DownloadOK
  <2> QED BY <2>3, <2>4
<1> QED BY <1>1, <1>2, <1>3, <1>4, AwayFromBubbles

-----------------------------------------------------------------------------
LEMMA ScreensStart == ScreensInit => ScreensInv
<1> SUFFICES ASSUME ScreensInit PROVE ScreensInv
  OBVIOUS
<1>1. TapTypes /\ BubbleTypes /\ QueueTypes /\ OtherTypes
  BY DEF ScreensInit, TapTypes, BubbleTypes, QueueTypes, OtherTypes, Screenshots, Places
<1>2. TapsOK
  BY DEF ScreensInit, TapsOK, TapOK, Underway, Sending
<1>3. JobsOK /\ ClaimsOK
  BY DEF ScreensInit, JobsOK, ClaimsOK
<1>4. AnswersDue
  BY NoTap DEF ScreensInit, AnswersDue
<1>5. DownloadsOK
  <2>1. \A f \in Taps : pc[f] = "idle"
    BY DEF ScreensInit
  <2> QED BY <2>1 DEF DownloadsOK, DownloadOK
<1> QED BY <1>1, <1>2, <1>3, <1>4, <1>5 DEF ScreensInv

LEMMA ScreensStep == ScreensInv /\ [ScreensNext]_screenVars => ScreensInv'
<1> SUFFICES ASSUME ScreensInv, [ScreensNext]_screenVars PROVE ScreensInv'
  OBVIOUS
<1>1. ASSUME NEW f \in Taps, NEW s \in DOMAIN Row, NEW b \in Bubbles,
             ShowKnown(f, s, b) \/ CoolDown(f, s, b) \/ Crash(f, s, b) \/ Open(f, s, b)
      PROVE  ScreensInv'
  BY <1>1, ShowKnownStep, CoolDownStep, OpenStep
<1>2. ASSUME NEW f \in Taps, NEW s \in Downloads, Download(f, s)
      PROVE  ScreensInv'
  BY <1>2, DownloadStep
<1>3. ASSUME NEW f \in Taps, Advance(f)
      PROVE  ScreensInv'
  BY <1>3, LoadStep, LimitStep, ReclaimStep, RejectStep, EnqueueStep, AnnounceStep,
     TimeoutStep, IdentifyStep, RegisterStep, DeliveredStep DEF Advance
<1>4. ASSUME NEW f \in Taps, Poke(f)
      PROVE  ScreensInv'
  BY <1>4, PokeStep
<1>5. ASSUME NEW g \in Jobs, JobEnds(g) \/ JobSilent(g) \/ JobRaises(g)
      PROVE  ScreensInv'
  BY <1>5, JobEndsStep, JobSilentStep, JobRaisesStep
<1>6. ASSUME NEW b \in Bubbles, Forget(b)
      PROVE  ScreensInv'
  BY <1>6, ForgetStep
<1>7. ASSUME NEW s \in cooling, CooldownEnds(s)
      PROVE  ScreensInv'
  BY <1>7, CooldownEndsStep
<1>8. CASE UNCHANGED screenVars
  <2>1. /\ UNCHANGED <<pc, row, bub, bubbles, cooling, downloads, queue, abandoned>>
    BY <1>8 DEF screenVars, bubbles, downloads, queue
  <2>2. QueueTypes' /\ JobsOK'
    BY <2>1, QueueLeft
  <2>3. \A e \in Taps : Expected(e) => Expected(e)'
    BY <2>1, ExpectedStays
  <2> QED BY <2>1, <2>2, <2>3, QueueSteps
<1> QED BY <1>1, <1>2, <1>3, <1>4, <1>5, <1>6, <1>7, <1>8, BackgroundStep DEF ScreensNext

LEMMA ScreensInvariance == ScreensSpec => []ScreensInv
BY ScreensStart, ScreensStep, PTL DEF ScreensSpec

\* The handlers keep to their places, and the registry, the jobs and the screens name
\* taps and bubbles that exist.
THEOREM ScreensTypeCorrect == ScreensSpec => []ScreensTypeOK
<1>1. ScreensInv => ScreensTypeOK
  BY ScreensTypes DEF ScreensInv
<1> QED BY <1>1, ScreensInvariance, PTL

\* A bubble at which nothing is going on any more shows the answer of the last tap that
\* claimed it: an older tap's late screen, a loading note or a job's drawing never stays
\* there, whatever the taps, the jobs and the registry do meanwhile.
THEOREM LastTapAnswered == ScreensSpec => []LastTapWins
<1>1. ScreensInv => LastTapWins
  <2> SUFFICES ASSUME ScreensInv, NEW b \in Bubbles, NEW f \in Taps, Quiet(b), claimant[b] = f,
                      b \notin strayed, f \notin abandoned
               PROVE  screen[b] = [by |-> f, what |-> "answer"]
    BY DEF LastTapWins, ScreensInv, BubbleTypes
  <2>1. bub[f] = b
    BY NoTap DEF ScreensInv, ClaimsOK
  <2>2. pc[f] \in {"idle", "done"}
    BY <2>1 DEF Quiet
  <2>3. \A g \in Jobs : ~(flight[g] = "running" /\ payload[g] = f)
    BY <2>1, NoTap DEF Quiet
  <2>4. ~Expected(f)
    BY <2>2, <2>3 DEF Expected
  <2> QED BY <2>4 DEF ScreensInv, AnswersDue
<1> QED BY <1>1, ScreensInvariance, PTL

\* The in-flight check, the cooldown and the registration of a download, three steps with
\* awaits between them, let no paper and no year go out twice at a time unless a cooldown
\* ends in their midst.
THEOREM OneDownloadAtATime == ScreensSpec => []OneDownload
<1>1. ScreensInv => OneDownload
  <2> SUFFICES ASSUME ScreensInv, ~lapsed, NEW s \in Downloads
               PROVE  Cardinality({f \in Taps : row[f] = s /\ pc[f] = "deliver"}) <= 1
    BY DEF OneDownload
  <2> DEFINE Busy == {f \in Taps : row[f] = s /\ pc[f] = "deliver"}
  <2>1. \A e, f \in Busy : e = f
    BY DEF ScreensInv, DownloadsOK, DownloadOK
  <2>2. CASE Busy = {}
    BY <2>2, FS_EmptySet
  <2>3. CASE Busy # {}
    <3>1. PICK f \in Busy : TRUE
      BY <2>3
    <3>2. Busy = {f}
      BY <2>1, <3>1
    <3> HIDE DEF Busy
    <3>3. Cardinality(Busy) = 1
      BY <3>2, FS_Singleton
    <3> QED BY <3>3 DEF Busy
  <2> QED BY <2>2, <2>3
<1> QED BY <1>1, ScreensInvariance, PTL

=============================================================================
