------------------------------- MODULE QPaper -------------------------------
(***************************************************************************)
(* One row of the global question paper cache (app/services/                 *)
(* qpaper_service.py): the requests for that paper, which collapse into one  *)
(* acquisition by a compare-and-swap on the row, the two semaphores they     *)
(* pass, and the other writers of the row: the reaper, the pre-warm job,     *)
(* the catalog upsert and the admin's reset.                                 *)
(*                                                                         *)
(* A request's recursion (deliver, claim, acquire, deliver again) is a tail  *)
(* recursion inside "async with": what a request still owes on its way out   *)
(* is the permits it holds, held[r] deliveries and working[r] acquisitions.  *)
(* The age of the lock stands for the clock: it is "fresh", then "stale"     *)
(* (claimable, ACQUIRE_STALE_SECONDS), then "dead" (reapable, twice that).   *)
(***************************************************************************)
EXTENDS Integers, FiniteSets

CONSTANTS
    Students, Warms,    \* requests by students, and by the pre-warm job
    None,
    Deliveries,         \* permits of _deliver_sem
    Acquisitions,       \* permits of _acquire_sem
    PermanentAfter,     \* attempts after which a failure is permanent
    Restarts,           \* bound: restarts of the bot
    Interventions       \* bound: catalog upserts and admin resets that hit the row

Requests == Students \cup Warms

ASSUME RequestsAssumption ==
    IsFiniteSet(Students) /\ IsFiniteSet(Warms) /\ Students \cap Warms = {}
ASSUME BoundsAssumption ==
    /\ Deliveries \in Nat \ {0} /\ Acquisitions \in Nat \ {0} /\ PermanentAfter \in Nat \ {0}
    /\ Restarts \in Nat /\ Interventions \in Nat
ASSUME NoneAssumption == None \notin {"good", "dead", "fresh", "stale"}

VARIABLES
    status, file, lock, attempts,   \* the row; attempts counts up to PermanentAfter
    pc, carried,        \* of each request: where it is, the file it is sending
    held, working,      \* of each request: delivery permits, an acquisition permit
    freeD, freeA,       \* permits left in the semaphores
    overrun,            \* history: a row was taken from a request that was acquiring it
    restarts, interventions

row == <<status, file, lock, attempts>>
permits == <<held, working, freeD, freeA>>
bounds == <<restarts, interventions>>
vars == <<status, file, lock, attempts, pc, carried, held, working, freeD, freeA,
          overrun, restarts, interventions>>

Statuses == {"retryable_failure", "fetch_in_progress", "paper_available",
             "paper_not_available", "permanent_failure"}

\* Where a request is: not begun, before a claim, waiting for the acquisition
\* semaphore, acquiring, polling the row, waiting for the delivery semaphore,
\* sending, answered (or lost in a restart).
Places == {"idle", "claim", "queue", "acquire", "wait", "line", "send", "done"}

TypeOK ==
    /\ status \in Statuses /\ file \in {None, "good", "dead"}
    /\ lock \in {None, "fresh", "stale", "dead"} /\ attempts \in 0..PermanentAfter
    /\ pc \in [Requests -> Places] /\ carried \in [Requests -> {None, "good", "dead"}]
    /\ held \in [Requests -> 0..2] /\ working \in [Requests -> {0, 1}]
    /\ freeD \in Nat /\ freeA \in Nat
    /\ status = "paper_available" => file # None
    /\ (lock # None) <=> (status = "fetch_in_progress")
    /\ \A r \in Requests : (carried[r] # None) <=> (pc[r] \in {"line", "send"})
    /\ overrun \in BOOLEAN /\ restarts \in 0..Restarts /\ interventions \in 0..Interventions

Init ==
    /\ status = "retryable_failure" /\ file = None /\ lock = None /\ attempts = 0
    /\ pc = [r \in Requests |-> "idle"] /\ carried = [r \in Requests |-> None]
    /\ held = [r \in Requests |-> 0] /\ working = [r \in Requests |-> 0]
    /\ freeD = Deliveries /\ freeA = Acquisitions
    /\ overrun = FALSE /\ restarts = 0 /\ interventions = 0

\* The requests that believe they hold the row.
Acquirers == {r \in Requests : pc[r] \in {"queue", "acquire"}}

Goto(r, place) == pc' = [pc EXCEPT ![r] = place]

\* A request returns: every "async with" on its stack gives its permit back.
Answer(r) ==
    /\ pc' = [pc EXCEPT ![r] = "done"] /\ carried' = [carried EXCEPT ![r] = None]
    /\ freeD' = freeD + held[r] /\ held' = [held EXCEPT ![r] = 0]
    /\ freeA' = freeA + working[r] /\ working' = [working EXCEPT ![r] = 0]

Deliver(r) == Goto(r, "line") /\ carried' = [carried EXCEPT ![r] = file] /\ UNCHANGED permits

-----------------------------------------------------------------------------
\* Reading the row: deliver(), and _wait_and_deliver()'s poll.

Cached == status = "paper_available" /\ file # None
Negative == status \in {"paper_not_available", "permanent_failure"}

Begin(r) ==
    /\ pc[r] = "idle" /\ r \in Students
    /\ \/ Cached /\ Deliver(r)
       \/ Negative /\ Answer(r)
       \/ ~Cached /\ ~Negative /\ Goto(r, "claim") /\ UNCHANGED <<carried, permits>>
    /\ UNCHANGED <<row, overrun, bounds>>

\* prewarm_one() also claims a permanent failure, and loses.
BeginWarm(r) ==
    /\ pc[r] = "idle" /\ r \in Warms
    /\ \/ (Cached \/ status = "paper_not_available") /\ Answer(r)
       \/ ~Cached /\ status # "paper_not_available" /\ Goto(r, "claim")
          /\ UNCHANGED <<carried, permits>>
    /\ UNCHANGED <<row, overrun, bounds>>

Poll(r) ==
    /\ pc[r] = "wait"
    /\ \/ Cached /\ Deliver(r)
       \/ Negative /\ Answer(r)
       \/ status = "retryable_failure" /\ Goto(r, "claim") /\ UNCHANGED <<carried, permits>>
    /\ UNCHANGED <<row, overrun, bounds>>

WaitTimeout(r) == pc[r] = "wait" /\ Answer(r) /\ UNCHANGED <<row, overrun, bounds>>

-----------------------------------------------------------------------------
\* The claim.

\* Mutant of Claimable: the lock's age is not looked at.
ClaimableAnyAge == status \in {"retryable_failure", "fetch_in_progress"}

Claimable ==
    \/ status = "retryable_failure"
    \/ status = "fetch_in_progress" /\ lock \in {"stale", "dead"}

OneMore == IF attempts < PermanentAfter THEN attempts + 1 ELSE attempts

Claim(r) ==
    /\ pc[r] = "claim" /\ Claimable
    /\ status' = "fetch_in_progress" /\ lock' = "fresh" /\ attempts' = OneMore
    /\ Goto(r, "queue")
    /\ UNCHANGED <<file, carried, permits, overrun, bounds>>

ClaimLost(r) ==
    /\ pc[r] = "claim" /\ ~Claimable
    /\ IF r \in Students THEN Goto(r, "wait") /\ UNCHANGED <<carried, permits>> ELSE Answer(r)
    /\ UNCHANGED <<row, overrun, bounds>>

-----------------------------------------------------------------------------
\* The acquisition.  Its download and its upload read and write nothing that
\* is shared, so each outcome is one step with the mark that follows it.

EnterAcquisition(r) ==
    /\ pc[r] = "queue" /\ freeA > 0
    /\ freeA' = freeA - 1 /\ working' = [working EXCEPT ![r] = 1] /\ Goto(r, "acquire")
    /\ UNCHANGED <<row, carried, held, freeD, overrun, bounds>>

\* Mutant of Mark: without WHERE status = in_progress.
MarkUnguarded(outcome, newFile) ==
    /\ status' = outcome /\ file' = newFile /\ lock' = None
    /\ UNCHANGED <<attempts, overrun, bounds>>

\* _mark_available(), _mark_failure(), _mark_not_available(): the row must
\* still be in progress, whoever holds it.
Mark(outcome, newFile) ==
    /\ IF status = "fetch_in_progress"
       THEN status' = outcome /\ file' = newFile /\ lock' = None
       ELSE UNCHANGED <<status, file, lock>>
    /\ UNCHANGED <<attempts, overrun, bounds>>

\* Stored in the channel: a student's copy still has to be sent.
StoredInChannel(r) ==
    /\ pc[r] = "acquire" /\ Mark("paper_available", "good")
    /\ IF r \in Students
       THEN Goto(r, "line") /\ carried' = [carried EXCEPT ![r] = "good"] /\ UNCHANGED permits
       ELSE Answer(r)

\* No channel, or its upload failed: the paper goes to the student's chat.
StoredInChat(r) ==
    /\ pc[r] = "acquire" /\ r \in Students
    /\ Mark("paper_available", "good") /\ Answer(r)

PaperMissing(r) ==
    pc[r] = "acquire" /\ Mark("paper_not_available", file) /\ Answer(r)

\* A student without usable credentials leaves the row as it is.
CredentialsQuarantined(r) ==
    /\ pc[r] = "acquire" /\ Answer(r)
    /\ IF r \in Students THEN UNCHANGED <<row, overrun, bounds>>
       ELSE Mark("retryable_failure", file)

ChannelDown(r) ==
    pc[r] = "acquire" /\ r \in Warms /\ Mark("retryable_failure", file) /\ Answer(r)

AcquisitionFails(r) ==
    /\ pc[r] = "acquire" /\ Answer(r)
    /\ \/ attempts < PermanentAfter /\ Mark("retryable_failure", file)
       \/ Mark("permanent_failure", file)     \* the error is permanent, or the attempts are

-----------------------------------------------------------------------------
\* The delivery.

\* Mutant of EnterDelivery: the last permit is never given.
EnterDeliveryButLast(r) ==
    /\ pc[r] = "line" /\ freeD > 1
    /\ freeD' = freeD - 1 /\ held' = [held EXCEPT ![r] = @ + 1] /\ Goto(r, "send")
    /\ UNCHANGED <<row, carried, working, freeA, overrun, bounds>>

EnterDelivery(r) ==
    /\ pc[r] = "line" /\ freeD > 0
    /\ freeD' = freeD - 1 /\ held' = [held EXCEPT ![r] = @ + 1] /\ Goto(r, "send")
    /\ UNCHANGED <<row, carried, working, freeA, overrun, bounds>>

\* Sent, or refused for a reason that is not the file.
Send(r) == pc[r] = "send" /\ Answer(r) /\ UNCHANGED <<row, overrun, bounds>>

\* The file is of an old bot token: the row is reset, whatever it says now,
\* and the request claims it with its delivery permit in hand.
SendStale(r) ==
    /\ pc[r] = "send" /\ carried[r] = "dead"
    /\ status' = "retryable_failure" /\ file' = None /\ lock' = None /\ attempts' = 0
    /\ overrun' = (overrun \/ Acquirers # {})
    /\ Goto(r, "claim") /\ carried' = [carried EXCEPT ![r] = None]
    /\ UNCHANGED <<permits, bounds>>

-----------------------------------------------------------------------------
\* Time, and the other writers of the row.

LockAges ==
    /\ status = "fetch_in_progress" /\ lock \in {"fresh", "stale"}
    /\ lock' = (IF lock = "fresh" THEN "stale" ELSE "dead")
    /\ overrun' = (overrun \/ Acquirers # {})
    /\ UNCHANGED <<status, file, attempts, pc, carried, permits, bounds>>

\* Mutant of Reap: only rows with attempts left.
ReapWithAttemptsLeft ==
    /\ status = "fetch_in_progress" /\ lock = "dead" /\ attempts < PermanentAfter
    /\ status' = "retryable_failure" /\ lock' = None
    /\ UNCHANGED <<file, attempts, pc, carried, permits, overrun, bounds>>

Reap ==
    /\ status = "fetch_in_progress" /\ lock = "dead"
    /\ status' = "retryable_failure" /\ lock' = None
    /\ UNCHANGED <<file, attempts, pc, carried, permits, overrun, bounds>>

\* The catalog lists a paper that was missing.
CatalogLists ==
    /\ status = "paper_not_available" /\ interventions < Interventions
    /\ status' = "retryable_failure" /\ attempts' = 0 /\ interventions' = interventions + 1
    /\ UNCHANGED <<file, lock, pc, carried, permits, overrun, restarts>>

\* The reset leaves telegram_file_id in the row.
AdminReset ==
    /\ interventions < Interventions /\ interventions' = interventions + 1
    /\ status' = "retryable_failure" /\ lock' = None /\ attempts' = 0
    /\ overrun' = (overrun \/ Acquirers # {})
    /\ UNCHANGED <<file, pc, carried, permits, restarts>>

\* The bot restarts, perhaps with another token: requests under way are lost.
Restart(newToken) ==
    /\ restarts < Restarts /\ restarts' = restarts + 1
    /\ file' = (IF newToken /\ file = "good" THEN "dead" ELSE file)
    /\ pc' = [r \in Requests |-> IF pc[r] = "idle" THEN "idle" ELSE "done"]
    /\ carried' = [r \in Requests |-> None]
    /\ held' = [r \in Requests |-> 0] /\ working' = [r \in Requests |-> 0]
    /\ freeD' = Deliveries /\ freeA' = Acquisitions /\ overrun' = FALSE
    /\ UNCHANGED <<status, lock, attempts, interventions>>

-----------------------------------------------------------------------------
Acquire(r) ==
    \/ StoredInChannel(r) \/ StoredInChat(r) \/ PaperMissing(r)
    \/ CredentialsQuarantined(r) \/ ChannelDown(r) \/ AcquisitionFails(r)

Step(r) ==
    \/ Begin(r) \/ BeginWarm(r) \/ Poll(r) \/ WaitTimeout(r)
    \/ Claim(r) \/ ClaimLost(r) \/ EnterAcquisition(r) \/ Acquire(r)
    \/ EnterDelivery(r) \/ Send(r) \/ SendStale(r)

Next ==
    \/ \E r \in Requests : Step(r)
    \/ LockAges \/ Reap \/ CatalogLists \/ AdminReset
    \/ \E newToken \in BOOLEAN : Restart(newToken)

Spec == Init /\ [][Next]_vars

\* A request's next step comes: the semaphores are first come first served,
\* the portal and Telegram answer or time out, a poll lasts WAIT_TIMEOUT_SEC
\* at the longest, and the reaper looks every minute.  No one need ask.
Continue(r) == pc[r] # "idle" /\ Step(r)

FairSpec ==
    /\ Spec
    /\ \A r \in Requests : WF_vars(Continue(r)) /\ WF_vars(WaitTimeout(r))
    /\ WF_vars(LockAges) /\ WF_vars(Reap)

-----------------------------------------------------------------------------
(***************************************************************************)
(* Properties                                                               *)
(***************************************************************************)

\* Concurrent requests for one paper collapse into one acquisition (the module's
\* docstring), until a row is taken from a request that is still acquiring it: by
\* a lock that goes stale under a slow download, a stale file's reset or the admin's.
OneAcquisition == ~overrun => Cardinality(Acquirers) <= 1

\* A good cached file, a negative answer and a permanent failure stay: the marks of
\* overtaken acquirers, the reaper and lost claims do not touch them.  They end by
\* the catalog, the admin, a restart with a new token, or a request that still
\* carries a file of the old token.
Settled == (Cached /\ file = "good") \/ Negative
Override ==
    \/ interventions' > interventions \/ restarts' > restarts
    \/ \E r \in Requests : pc[r] = "send" /\ carried[r] = "dead" /\ pc'[r] = "claim"
TerminalStays == [][Settled /\ ~Override => UNCHANGED <<status, file>>]_vars

\* The row is a FileCache: an acquisition is claimed only while nothing is cached
\* and no younger claim holds it, an answer is stored only under a claim, and a
\* claim ends, by its acquirer, by the next one or by the reaper.
Lease ==
    IF status # "fetch_in_progress" THEN "free" ELSE IF lock = "fresh" THEN "held" ELSE "lost"
Answered == IF Cached THEN file ELSE IF Negative THEN status ELSE None
Cache == INSTANCE FileCache WITH
    answer <- Answered, lease <- Lease, Negatives <- {"paper_not_available", "permanent_failure"}
ImplementsCache == Cache!FairSpec

\* All delivery permits are held by requests that are waiting for one more, or for
\* the acquisition permits that such requests hold.
InLine(r) == pc[r] = "line" \/ (pc[r] = "queue" /\ freeA = 0)
Jammed ==
    /\ freeD = 0
    /\ \A r \in Requests : held[r] > 0 \/ working[r] = 1 => InLine(r)

\* Every request is answered, unless the delivery semaphore is jammed.
EveryRequestAnswered ==
    \A r \in Requests : (pc[r] \notin {"idle", "done"}) ~> (pc[r] = "done" \/ Jammed)

\* A stale file is recovered by a fresh acquisition (_deliver_cached()'s docstring:
\* "auto-recovers by re-acquiring"), so its requests do not jam the semaphore.
NeverJammed == ~Jammed

=============================================================================
