----------------------------- MODULE Dispatcher -----------------------------
(***************************************************************************)
(* The notification outbox (app/services/event_dispatcher_service.py): syncs *)
(* add events, dispatchers claim a batch of them, send each as a message or  *)
(* several of one user's notices as a digest, and mark the rows one by one.  *)
(*                                                                         *)
(* The age of a claim stands for the clock: "fresh", then "stale", older     *)
(* than CLAIM_STALE_SECONDS.  The reaper may act from then on, though the    *)
(* code lets it wait twice as long, and the claims of a batch age one by     *)
(* one.  The order in which a worker sends its messages is left open.        *)
(***************************************************************************)
EXTENDS Integers, FiniteSets

CONSTANTS
    Workers,        \* dispatchers: one for each process
    Users,
    None,
    Events,         \* bound: the last event id
    Batch,          \* DISPATCH_BATCH_SIZE
    MaxAttempts,    \* MAX_DISPATCH_ATTEMPTS
    Faults          \* bound: crashes, lost answers and exceptions

Ids == 1..Events

ASSUME SetsAssumption == IsFiniteSet(Workers)
ASSUME BoundsAssumption ==
    Events \in Nat /\ Batch \in Nat \ {0} /\ MaxAttempts \in Nat /\ Faults \in Nat
ASSUME NoneAssumption ==
    None \notin Users \cup {"fresh", "stale", "sent", "refused", "retry", "raised"}

VARIABLES
    owner, notice,      \* of each event: its user (None: not yet detected), a message event?
    status, age, attempts,  \* the row: "pending", "sent", or permanently failed, because the
                            \* user "refused" or the attempts were "spent"; its claim
    todo,       \* of each worker: the messages still to be sent, each a set of events
    sending,    \* of each worker: the message whose outcome is being recorded; after an
                \* exception, the events of it that are still to be released
    left,       \* of each worker: the events of that message that are not yet marked
    outcome,    \* of each worker: the outcome of that message, "raised" after an exception
    seen,       \* of each worker: the events' attempts when they were claimed
    shown, tries,   \* history of each event: messages delivered, sends that ended
    excused,    \* history: events whose outcome was not recorded, or a failure twice
    loosened,   \* history: events whose claim went stale, or was released by another
                \* worker's exception handler, under the worker that holds them
    faults

events == <<owner, notice>>
row == <<status, age, attempts>>
worker == <<todo, sending, left, outcome, seen>>
history == <<shown, tries, excused, loosened>>
vars == <<owner, notice, status, age, attempts, todo, sending, left, outcome, seen,
          shown, tries, excused, loosened, faults>>

TypeOK ==
    /\ owner \in [Ids -> Users \cup {None}] /\ notice \in [Ids -> BOOLEAN]
    /\ status \in [Ids -> {"pending", "sent", "refused", "spent"}]
    /\ age \in [Ids -> {None, "fresh", "stale"}] /\ attempts \in [Ids -> 0..MaxAttempts]
    /\ todo \in [Workers -> SUBSET SUBSET Ids]
    /\ sending \in [Workers -> SUBSET Ids] /\ left \in [Workers -> SUBSET Ids]
    /\ outcome \in [Workers -> {None, "sent", "refused", "retry", "raised"}]
    /\ seen \in [Workers -> [Ids -> 0..MaxAttempts]]
    /\ \A w \in Workers : left[w] \subseteq sending[w] /\ (sending[w] = {} <=> outcome[w] = None)
    /\ \A e \in Ids : status[e] # "pending" => age[e] = None
    /\ shown \in [Ids -> 0..2] /\ tries \in [Ids -> 0..MaxAttempts + 1]
    /\ excused \subseteq Ids /\ loosened \subseteq Ids /\ faults \in 0..Faults

Init ==
    /\ owner = [e \in Ids |-> None] /\ notice = [e \in Ids |-> FALSE]
    /\ status = [e \in Ids |-> "pending"] /\ age = [e \in Ids |-> None]
    /\ attempts = [e \in Ids |-> 0]
    /\ todo = [w \in Workers |-> {}] /\ sending = [w \in Workers |-> {}]
    /\ left = [w \in Workers |-> {}] /\ outcome = [w \in Workers |-> None]
    /\ seen = [w \in Workers |-> [e \in Ids |-> 0]]
    /\ shown = [e \in Ids |-> 0] /\ tries = [e \in Ids |-> 0]
    /\ excused = {} /\ loosened = {} /\ faults = 0

Held(w) == (UNION todo[w]) \cup left[w]
Holders(e) == {w \in Workers : e \in Held(w)}
Idle(w) == todo[w] = {} /\ sending[w] = {}
First(e, S) == e \in S /\ \A d \in S : e <= d

\* One more for every event of S; the counters matter up to a cap only.
PlusUpTo(count, S, cap) ==
    [e \in Ids |-> IF e \in S /\ count[e] < cap THEN count[e] + 1 ELSE count[e]]
Counted(S) == attempts' = PlusUpTo(attempts, S, MaxAttempts)
Shown(S) == shown' = PlusUpTo(shown, S, 2)
Tried(S) == tries' = PlusUpTo(tries, S, MaxAttempts + 1)

\* What a worker knows of the events it does not hold is of no use.
Forget(w, S) == seen' = [seen EXCEPT ![w] = [e \in Ids |-> IF e \in S THEN 0 ELSE seen[w][e]]]

-----------------------------------------------------------------------------
\* A sync detects a change of u's; ids ascend.
Detect(u, isNotice) ==
    \E e \in Ids :
        /\ owner[e] = None /\ \A d \in 1..(e - 1) : owner[d] # None
        /\ owner' = [owner EXCEPT ![e] = u] /\ notice' = [notice EXCEPT ![e] = isNotice]
        /\ UNCHANGED <<row, worker, history, faults>>

-----------------------------------------------------------------------------
\* Phase 1: the claim, and the grouping of the claimed events.

\* Mutant of Claimable: claimed_at is not looked at.
ClaimableAnyAge(e) == owner[e] # None /\ status[e] = "pending"

Claimable(e) == owner[e] # None /\ status[e] = "pending" /\ age[e] # "fresh"

\* The first Batch claimable events.
Claimed ==
    {e \in Ids : Claimable(e) /\ Cardinality({d \in 1..(e - 1) : Claimable(d)}) < Batch}

\* Two or more events of a user, all of them notices, are one digest.
Messages(C) ==
    LET Group(e) == {d \in C : owner[d] = owner[e]}
        Digest(e) == Cardinality(Group(e)) > 1 /\ \A d \in Group(e) : notice[d]
    IN {IF Digest(e) THEN Group(e) ELSE {e} : e \in C}

\* Mutant of Claim: the claim counts as an attempt.
ClaimCounting(w) ==
    /\ Idle(w) /\ Claimed # {}
    /\ age' = [e \in Ids |-> IF e \in Claimed THEN "fresh" ELSE age[e]]
    /\ Counted(Claimed)
    /\ todo' = [todo EXCEPT ![w] = Messages(Claimed)]
    /\ seen' = [seen EXCEPT ![w] = [e \in Ids |-> IF e \in Claimed THEN attempts'[e] ELSE 0]]
    /\ UNCHANGED <<events, status, sending, left, outcome, history, faults>>

Claim(w) ==
    /\ Idle(w) /\ Claimed # {}
    /\ age' = [e \in Ids |-> IF e \in Claimed THEN "fresh" ELSE age[e]]
    /\ todo' = [todo EXCEPT ![w] = Messages(Claimed)]
    /\ seen' = [seen EXCEPT ![w] = [e \in Ids |-> IF e \in Claimed THEN attempts[e] ELSE 0]]
    /\ UNCHANGED <<events, status, attempts, sending, left, outcome, history, faults>>

-----------------------------------------------------------------------------
\* Phase 2: one message is sent and its events are marked.

\* Message m has an outcome, to be recorded event by event.
Ends(w, m, how) ==
    /\ sending[w] = {} /\ m \in todo[w]
    /\ todo' = [todo EXCEPT ![w] = @ \ {m}]
    /\ sending' = [sending EXCEPT ![w] = m] /\ left' = [left EXCEPT ![w] = m]
    /\ outcome' = [outcome EXCEPT ![w] = how]
    /\ Tried(m)
    /\ UNCHANGED <<events, row, seen, excused, loosened>>

Delivered(w, m) == Ends(w, m, "sent") /\ Shown(m) /\ UNCHANGED faults

\* The user blocked the bot, or the account is gone.
UserRefuses(w, m) == Ends(w, m, "refused") /\ UNCHANGED <<shown, faults>>

\* FloodWait or another Telegram error, till the retries of the loop are spent.
SendFails(w, m) == Ends(w, m, "retry") /\ UNCHANGED <<shown, faults>>

\* Formatting or sending raises.
SendRaises(w, m) ==
    /\ faults < Faults /\ faults' = faults + 1
    /\ Ends(w, m, "raised") /\ UNCHANGED shown

\* Delivered, but the answer is lost: the loop sends it again.
AnswerLost(w, m) ==
    /\ sending[w] = {} /\ m \in todo[w] /\ faults < Faults
    /\ faults' = faults + 1 /\ Shown(m) /\ excused' = excused \cup m
    /\ UNCHANGED <<events, row, worker, tries, loosened>>

\* What a mark does to the row.  None looks at who holds the claim, or at the status.
MarkSent(w, e) ==
    /\ outcome[w] = "sent"
    /\ status' = [status EXCEPT ![e] = IF @ \in {"refused", "spent"} THEN @ ELSE "sent"]
    /\ age' = [age EXCEPT ![e] = None] /\ UNCHANGED attempts

Exhausted(w, e) == seen[w][e] >= MaxAttempts

MarkFailed(w, e) ==
    /\ outcome[w] = "refused" \/ (outcome[w] = "retry" /\ Exhausted(w, e))
    /\ status' = [status EXCEPT ![e] = IF outcome[w] = "retry" THEN "spent" ELSE "refused"]
    /\ age' = [age EXCEPT ![e] = None] /\ UNCHANGED attempts

\* Mutant of Release: a failed send counts as sent.
ReleaseAsSent(w, e) ==
    /\ outcome[w] = "retry" /\ ~Exhausted(w, e)
    /\ age' = [age EXCEPT ![e] = None] /\ Counted({e})
    /\ status' = [status EXCEPT ![e] = "sent"]

Release(w, e) ==
    /\ outcome[w] = "retry" /\ ~Exhausted(w, e)
    /\ age' = [age EXCEPT ![e] = None] /\ Counted({e}) /\ UNCHANGED status

Marked(w, e) == MarkSent(w, e) \/ MarkFailed(w, e) \/ Release(w, e)

\* Mutant of Ticks: only one event of a digest is marked.
TicksDigest(w, e) ==
    /\ left' = [left EXCEPT ![w] = {}] /\ outcome' = [outcome EXCEPT ![w] = None]
    /\ sending' = [sending EXCEPT ![w] = {}] /\ Forget(w, left[w])
    /\ UNCHANGED <<events, todo, history, faults>>

\* The mark of e is done: the next event's turn.
Ticks(w, e) ==
    /\ left' = [left EXCEPT ![w] = @ \ {e}]
    /\ outcome' = [outcome EXCEPT ![w] = IF left[w] = {e} THEN None ELSE @]
    /\ sending' = [sending EXCEPT ![w] = IF left[w] = {e} THEN {} ELSE @]
    /\ Forget(w, {e})
    /\ UNCHANGED <<events, todo, history, faults>>

\* The mark of e raises, before its commit or after it (the answer is lost): the
\* handler is to release every event of the message, marked or not.
MarkRaises(w, e) ==
    /\ faults < Faults /\ faults' = faults + 1
    /\ \/ UNCHANGED row /\ left' = left
       \/ Marked(w, e) /\ left' = [left EXCEPT ![w] = @ \ {e}]
    /\ outcome' = [outcome EXCEPT ![w] = "raised"] /\ Forget(w, sending[w])
    /\ excused' = excused \cup CASE outcome[w] = "sent" -> left'[w]
                                [] outcome[w] = "retry" -> sending[w] \ left'[w]
                                [] OTHER -> {}
    /\ UNCHANGED <<events, todo, sending, shown, tries, loosened>>

\* The handler releases the next event of the message; an exception in that is
\* swallowed.
ReleaseAfter(w, e) ==
    /\ outcome[w] = "raised" /\ First(e, sending[w])
    /\ sending' = [sending EXCEPT ![w] = @ \ {e}] /\ left' = [left EXCEPT ![w] = @ \ {e}]
    /\ outcome' = [outcome EXCEPT ![w] = IF sending[w] = {e} THEN None ELSE @]
    /\ Forget(w, {e})
    /\ \/ /\ age' = [age EXCEPT ![e] = None] /\ Counted({e})
          /\ loosened' = loosened \cup (IF Holders(e) \ {w} # {} THEN {e} ELSE {})
       \/ UNCHANGED <<age, attempts, loosened>>
    /\ UNCHANGED <<events, status, todo, shown, tries, excused, faults>>

-----------------------------------------------------------------------------
\* The process dies, or an exception ends the cycle: its claims stay in the table.
Crash(w) ==
    /\ ~Idle(w) /\ faults < Faults /\ faults' = faults + 1
    /\ excused' = excused \cup (IF outcome[w] = "sent" THEN left[w] ELSE {})
    /\ todo' = [todo EXCEPT ![w] = {}] /\ sending' = [sending EXCEPT ![w] = {}]
    /\ left' = [left EXCEPT ![w] = {}] /\ outcome' = [outcome EXCEPT ![w] = None]
    /\ Forget(w, Ids) /\ UNCHANGED <<events, row, shown, tries, loosened>>

ClaimAges(e) ==
    /\ status[e] = "pending" /\ age[e] = "fresh" /\ age' = [age EXCEPT ![e] = "stale"]
    /\ loosened' = loosened \cup (IF Holders(e) # {} THEN {e} ELSE {})
    /\ UNCHANGED <<events, status, attempts, worker, shown, tries, excused, faults>>

\* reap_stale_claims()
Reap ==
    LET stale == {e \in Ids : status[e] = "pending" /\ age[e] = "stale"}
    IN /\ stale # {}
       /\ age' = [e \in Ids |-> IF e \in stale THEN None ELSE age[e]]
       /\ UNCHANGED <<events, status, attempts, worker, history, faults>>

-----------------------------------------------------------------------------
Send(w) ==
    \E m \in todo[w] :
        \/ Delivered(w, m) \/ UserRefuses(w, m) \/ SendFails(w, m)
        \/ SendRaises(w, m) \/ AnswerLost(w, m)

MarkOne(w) ==
    \/ \E e \in left[w] :
           /\ First(e, left[w]) /\ outcome[w] # "raised"
           /\ (Marked(w, e) /\ Ticks(w, e)) \/ MarkRaises(w, e)
    \/ \E e \in sending[w] : ReleaseAfter(w, e)

Work(w) == Claim(w) \/ Send(w) \/ MarkOne(w)

Next ==
    \/ \E u \in Users, isNotice \in BOOLEAN : Detect(u, isNotice)
    \/ \E w \in Workers : Work(w) \/ Crash(w)
    \/ \E e \in Ids : ClaimAges(e)
    \/ Reap

Spec == Init /\ [][Next]_vars

-----------------------------------------------------------------------------
(***************************************************************************)
(* Properties                                                               *)
(***************************************************************************)

\* "Atomic claim prevents duplicate sends across processes": an event is with one
\* worker, until its claim goes stale under that worker or the exception handler of
\* another, which had released or marked the event before, releases it once more.
ClaimExclusive ==
    \A e \in Ids : Cardinality(Holders(e)) > 1 => e \in loosened

\* "1 duplicate max per crashed event": a user sees an event twice only if a worker
\* died or failed between its message and its mark, an answer was lost, or the claim
\* was loosened.
DuplicatesExcused == \A e \in Ids : shown[e] > 1 => e \in excused \cup loosened

\* "sent=True, permanent_failure=False -> delivered successfully": also when digests,
\* several workers and failing marks meet.
SentWasShown == \A e \in Ids : status[e] = "sent" => shown[e] > 0

\* "restarts/reclaims can never burn the budget of notifications that were never sent":
\* an event's attempts are spent after MaxAttempts + 1 sends, not before.  The
\* exception is a failure that is counted twice: the release of the event, or of
\* another one of its digest, raised after the event's release was committed.
GivenUpAfterTries ==
    \A e \in Ids : status[e] = "spent" => tries[e] > MaxAttempts \/ e \in excused

=============================================================================
