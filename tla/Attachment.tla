----------------------------- MODULE Attachment -----------------------------
(***************************************************************************)
(* One row of the global cache of notice attachments (app/services/          *)
(* attachment_service.py) and the students who tap its download button       *)
(* (app/bot/handlers/inbox.py).  It resembles QPaper and differs where it    *)
(* counts: the row is created by the first tap, a waiter that sees a failure *)
(* does not claim, only a request that began with a cached file recovers     *)
(* from a rejected one, attempts are never reset, and the handler gives up   *)
(* after two minutes whatever the request is doing.                          *)
(***************************************************************************)
EXTENDS Integers, FiniteSets

CONSTANTS
    Students,           \* one tap of the button each
    None,
    Deliveries,         \* permits of _deliver_sem
    Acquisitions,       \* permits of _acquire_sem
    PermanentAfter,     \* attempts after which a failure is permanent
    Restarts            \* bound: restarts of the bot

ASSUME StudentsAssumption == IsFiniteSet(Students)
ASSUME BoundsAssumption ==
    /\ Deliveries \in Nat \ {0} /\ Acquisitions \in Nat \ {0} /\ PermanentAfter \in Nat \ {0}
    /\ Restarts \in Nat
ASSUME NoneAssumption == None \notin {"good", "dead", "fresh", "stale"}

VARIABLES
    status, file, lock, attempts,   \* the row; attempts counts up to PermanentAfter
    pc, carried,        \* of each request: where it is, the file it is sending
    recovers,           \* of each request: _deliver_cached() was given recover
    held, working,      \* of each request: delivery permits, an acquisition permit
    freeD, freeA,       \* permits left in the semaphores
    restarts

row == <<status, file, lock, attempts>>
permits == <<held, working, freeD, freeA>>
vars == <<status, file, lock, attempts, pc, carried, recovers, held, working,
          freeD, freeA, restarts>>

Statuses == {"absent", "retryable_failure", "fetch_in_progress", "available",
             "not_available", "permanent_failure"}

\* Where a request is: not begun, row to be inserted, to be read, before a claim,
\* waiting for the acquisition semaphore, acquiring, polling the row, waiting for
\* the delivery semaphore, sending, answered (or lost in a restart).
Places == {"idle", "insert", "read", "claim", "queue", "acquire", "wait", "line", "send", "done"}

TypeOK ==
    /\ status \in Statuses /\ file \in {None, "good", "dead"}
    /\ lock \in {None, "fresh", "stale", "dead"} /\ attempts \in 0..PermanentAfter
    /\ pc \in [Students -> Places] /\ carried \in [Students -> {None, "good", "dead"}]
    /\ recovers \in [Students -> BOOLEAN]
    /\ held \in [Students -> 0..2] /\ working \in [Students -> {0, 1}]
    /\ freeD \in 0..Deliveries /\ freeA \in 0..Acquisitions /\ restarts \in 0..Restarts
    /\ (file # None) <=> (status = "available")
    /\ (lock # None) <=> (status = "fetch_in_progress")
    /\ \A r \in Students : (carried[r] # None) <=> (pc[r] \in {"line", "send"})

Init ==
    /\ status = "absent" /\ file = None /\ lock = None /\ attempts = 0
    /\ pc = [r \in Students |-> "idle"] /\ carried = [r \in Students |-> None]
    /\ recovers = [r \in Students |-> FALSE]
    /\ held = [r \in Students |-> 0] /\ working = [r \in Students |-> 0]
    /\ freeD = Deliveries /\ freeA = Acquisitions /\ restarts = 0

Goto(r, place) == pc' = [pc EXCEPT ![r] = place]

\* A request returns or is cancelled: its "async with" blocks give their permits back.
Answer(r) ==
    /\ pc' = [pc EXCEPT ![r] = "done"] /\ carried' = [carried EXCEPT ![r] = None]
    /\ recovers' = [recovers EXCEPT ![r] = FALSE]
    /\ freeD' = freeD + held[r] /\ held' = [held EXCEPT ![r] = 0]
    /\ freeA' = freeA + working[r] /\ working' = [working EXCEPT ![r] = 0]

Deliver(r, withRecover) ==
    /\ Goto(r, "line") /\ carried' = [carried EXCEPT ![r] = file]
    /\ recovers' = [recovers EXCEPT ![r] = withRecover] /\ UNCHANGED permits

Move(r, place) == Goto(r, place) /\ UNCHANGED <<carried, recovers, permits>>

-----------------------------------------------------------------------------
\* The tap, and the row it finds, inserts or sees inserted by another tap.

\* Not registered, quarantined, no such attachment, cooling down, no service.
Refused(r) == pc[r] = "idle" /\ Answer(r) /\ UNCHANGED <<row, restarts>>

FindRow(r) ==
    /\ pc[r] = "idle" /\ Move(r, IF status = "absent" THEN "insert" ELSE "read")
    /\ UNCHANGED <<row, restarts>>

InsertRow(r) ==
    /\ pc[r] = "insert" /\ Move(r, "read")
    /\ status' = (IF status = "absent" THEN "retryable_failure" ELSE status)
    /\ UNCHANGED <<file, lock, attempts, restarts>>

Cached == status = "available" /\ file # None
Negative == status \in {"not_available", "permanent_failure"}

Begin(r) ==
    /\ pc[r] = "read"
    /\ \/ Cached /\ Deliver(r, TRUE)
       \/ Negative /\ Answer(r)
       \/ ~Cached /\ ~Negative /\ Move(r, "claim")
    /\ UNCHANGED <<row, restarts>>

\* A waiter is told of a failure, and of the end of its patience.
Poll(r) ==
    /\ pc[r] = "wait"
    /\ \/ Cached /\ Deliver(r, FALSE)
       \/ (Negative \/ status = "retryable_failure") /\ Answer(r)
    /\ UNCHANGED <<row, restarts>>

WaitTimeout(r) == pc[r] = "wait" /\ Answer(r) /\ UNCHANGED <<row, restarts>>

-----------------------------------------------------------------------------
\* The claim and the acquisition.

Claimable ==
    \/ status = "retryable_failure"
    \/ status = "fetch_in_progress" /\ lock \in {"stale", "dead"}

Claim(r) ==
    /\ pc[r] = "claim" /\ Claimable /\ Move(r, "queue")
    /\ status' = "fetch_in_progress" /\ lock' = "fresh"
    /\ attempts' = (IF attempts < PermanentAfter THEN attempts + 1 ELSE attempts)
    /\ UNCHANGED <<file, restarts>>

ClaimLost(r) ==
    pc[r] = "claim" /\ ~Claimable /\ Move(r, "wait") /\ UNCHANGED <<row, restarts>>

EnterAcquisition(r) ==
    /\ pc[r] = "queue" /\ freeA > 0
    /\ freeA' = freeA - 1 /\ working' = [working EXCEPT ![r] = 1] /\ Goto(r, "acquire")
    /\ UNCHANGED <<row, carried, recovers, held, freeD, restarts>>

\* Mutant of Mark: without AND status = 'fetch_in_progress'.
MarkAnyStatus(outcome, newFile) ==
    /\ status' = outcome /\ file' = newFile /\ lock' = None
    /\ UNCHANGED <<attempts, restarts>>

\* _mark_available(), _mark_not_available(), _mark_failure(): the row must still
\* be in progress, whoever holds it.
Mark(outcome, newFile) ==
    /\ IF status = "fetch_in_progress"
       THEN status' = outcome /\ file' = newFile /\ lock' = None
       ELSE UNCHANGED <<status, file, lock>>
    /\ UNCHANGED <<attempts, restarts>>

\* Stored in the channel: the student's copy is sent with the acquisition permit
\* in hand, and a rejection of the new file is not recovered from.
StoredInChannel(r) ==
    /\ pc[r] = "acquire" /\ Mark("available", "good")
    /\ Goto(r, "line") /\ carried' = [carried EXCEPT ![r] = "good"]
    /\ recovers' = [recovers EXCEPT ![r] = FALSE] /\ UNCHANGED permits

\* No channel, or its upload failed: the file goes to the student's chat.
StoredInChat(r) == pc[r] = "acquire" /\ Mark("available", "good") /\ Answer(r)

FileMissing(r) == pc[r] = "acquire" /\ Mark("not_available", file) /\ Answer(r)

\* A failed download, of quarantined credentials too, or a failed upload.
AcquisitionFails(r) ==
    /\ pc[r] = "acquire" /\ Answer(r)
    /\ Mark(IF attempts >= PermanentAfter THEN "permanent_failure" ELSE "retryable_failure", file)

-----------------------------------------------------------------------------
\* The delivery.

EnterDelivery(r) ==
    /\ pc[r] = "line" /\ freeD > 0
    /\ freeD' = freeD - 1 /\ held' = [held EXCEPT ![r] = @ + 1] /\ Goto(r, "send")
    /\ UNCHANGED <<row, carried, recovers, working, freeA, restarts>>

\* Sent, or refused for a reason that is not the file, after the retries.
Send(r) == pc[r] = "send" /\ Answer(r) /\ UNCHANGED <<row, restarts>>

\* The file is of an old bot token: the row is reset, whatever it says now; the
\* request claims it with its delivery permit in hand, or asks for another tap.
SendStale(r) ==
    /\ pc[r] = "send" /\ carried[r] = "dead"
    /\ status' = "retryable_failure" /\ file' = None /\ lock' = None
    /\ IF recovers[r]
       THEN /\ Goto(r, "claim") /\ carried' = [carried EXCEPT ![r] = None]
            /\ recovers' = [recovers EXCEPT ![r] = FALSE] /\ UNCHANGED permits
       ELSE Answer(r)
    /\ UNCHANGED <<attempts, restarts>>

-----------------------------------------------------------------------------
\* Time, the reaper and restarts.

\* Mutant of TimedOut: the handler's patience covers the wait for the row only.
TimedOutWaiting(r) == pc[r] = "wait" /\ Answer(r) /\ UNCHANGED <<row, restarts>>

\* The handler's wait_for() cancels the request; the row stays as it is.
TimedOut(r) == pc[r] \notin {"idle", "done"} /\ Answer(r) /\ UNCHANGED <<row, restarts>>

LockAges ==
    /\ status = "fetch_in_progress" /\ lock \in {"fresh", "stale"}
    /\ lock' = (IF lock = "fresh" THEN "stale" ELSE "dead")
    /\ UNCHANGED <<status, file, attempts, pc, carried, recovers, permits, restarts>>

Reap ==
    /\ status = "fetch_in_progress" /\ lock = "dead"
    /\ status' = "retryable_failure" /\ lock' = None
    /\ UNCHANGED <<file, attempts, pc, carried, recovers, permits, restarts>>

\* The bot restarts, perhaps with another token: requests under way are lost.
Restart(newToken) ==
    /\ restarts < Restarts /\ restarts' = restarts + 1
    /\ file' = (IF newToken /\ file = "good" THEN "dead" ELSE file)
    /\ pc' = [r \in Students |-> IF pc[r] = "idle" THEN "idle" ELSE "done"]
    /\ carried' = [r \in Students |-> None] /\ recovers' = [r \in Students |-> FALSE]
    /\ held' = [r \in Students |-> 0] /\ working' = [r \in Students |-> 0]
    /\ freeD' = Deliveries /\ freeA' = Acquisitions
    /\ UNCHANGED <<status, lock, attempts>>

-----------------------------------------------------------------------------
Acquire(r) == StoredInChannel(r) \/ StoredInChat(r) \/ FileMissing(r) \/ AcquisitionFails(r)

Step(r) ==
    \/ InsertRow(r) \/ Begin(r) \/ Poll(r) \/ WaitTimeout(r)
    \/ Claim(r) \/ ClaimLost(r) \/ EnterAcquisition(r) \/ Acquire(r)
    \/ EnterDelivery(r) \/ Send(r) \/ SendStale(r)

Next ==
    \/ \E r \in Students : Refused(r) \/ FindRow(r) \/ Step(r) \/ TimedOut(r)
    \/ LockAges \/ Reap
    \/ \E newToken \in BOOLEAN : Restart(newToken)

Spec == Init /\ [][Next]_vars

\* wait_for() fires, and the reaper looks every minute; nothing else is assumed.
FairSpec ==
    /\ Spec
    /\ \A r \in Students : WF_vars(TimedOut(r))
    /\ WF_vars(LockAges) /\ WF_vars(Reap)

-----------------------------------------------------------------------------
(***************************************************************************)
(* Properties                                                               *)
(***************************************************************************)

\* The row is a FileCache: a download is claimed only while nothing is cached and no
\* younger claim holds it, its answer is stored only under a claim (an acquirer that
\* outlived its lease cannot undo an answer), and a claim ends, by its acquirer, by the
\* next one or, when the handler's timeout cancelled the acquirer, by the reaper.
Lease ==
    IF status # "fetch_in_progress" THEN "free" ELSE IF lock = "fresh" THEN "held" ELSE "lost"
Answered == IF Cached THEN file ELSE IF Negative THEN status ELSE None
Cache == INSTANCE FileCache WITH
    answer <- Answered, lease <- Lease, Negatives <- {"not_available", "permanent_failure"}
ImplementsCache == Cache!FairSpec

\* Every tap is answered, without an exception: requests that recover from a rejected
\* file wait for each other's permits as those of QPaper do, and the handler's timeout
\* takes the permits from them.
EveryTapAnswered == \A r \in Students : (pc[r] # "idle") ~> (pc[r] = "done")

=============================================================================
