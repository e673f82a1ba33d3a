------------------------------ MODULE Gateway ------------------------------
(***************************************************************************)
(* NitrisGateway (app/nitris/gateway.py): the one object every portal call  *)
(* of the bot goes through.  A caller is an asyncio task (a job-queue       *)
(* worker or an aiogram handler).  It enters acquire(), is rejected by the  *)
(* circuit breaker, waits for a slot, or runs its body; the body may log in *)
(* through _do_login(), which hands the slot back, waits for a pacing token *)
(* and takes a slot again; leaving the body feeds the breaker and the       *)
(* adaptive cap, and the finally block returns the slot.                    *)
(*                                                                         *)
(* asyncio switches tasks only at an await that suspends, so an action is   *)
(* the code between two of them: one locked section, or one section plus    *)
(* the synchronous code around it.  Time is two events: Cool (the recovery  *)
(* window of an OPEN circuit elapses) and Tick (the login bucket gains a    *)
(* token).  A delivery runs under asyncio.wait_for(), which cancels its task *)
(* once, wherever it is then suspended: CancelWait, CancelPacing and         *)
(* CancelResume, and Abort in the body.  The pacing interval itself, metrics *)
(* that nothing reads and the unused acquire(is_login=True) hook are left    *)
(* out.                                                                     *)
(***************************************************************************)
EXTENDS Integers, Sequences, FiniteSets, SequencesExt

CONSTANTS
    Callers,        \* tasks that use the gateway
    Interactive,    \* those not named nitris-bg-* or nitris-shared-*
    Impatient,      \* those under a wait_for(): inbox.py's deliveries
    MaxConcurrent,  \* configured_max_concurrent
    Reserved,       \* RESERVED_INTERACTIVE_SLOTS
    Threshold,      \* circuit_error_threshold
    AdaptAt,        \* consecutive errors that shrink the cap (3 in the code)
    CapFloor,       \* the cap never shrinks below it (2 in the code)
    RecoverAfter,   \* consecutive successes that widen the cap (10)
    Burst,          \* _login_burst
    MaxLogins,      \* logins of one call (login, and one re-login)
    Demand          \* bound: calls the program makes in a behaviour

ASSUME CallersAssumption ==
    /\ IsFiniteSet(Callers)
    /\ Interactive \subseteq Callers
    /\ Impatient \subseteq Interactive
ASSUME CapacityAssumption ==
    /\ MaxConcurrent \in Nat \ {0}
    /\ CapFloor \in Nat \ {0}
    /\ Reserved \in Nat
ASSUME BreakerAssumption ==
    /\ Threshold \in Nat \ {0}
    /\ AdaptAt \in Nat \ {0}
    /\ RecoverAfter \in Nat \ {0}
ASSUME LoginAssumption ==
    Burst \in Nat \ {0} /\ MaxLogins \in Nat /\ Demand \in Nat

VARIABLES
    circuit,        \* circuit_state
    cooled,         \* OPEN, and circuit_recovery_seconds have elapsed
    probeInFlight,  \* _probe_in_flight
    active,         \* metrics.active_requests
    cap,            \* current_max_concurrent
    errors,         \* metrics.consecutive_errors, saturated at ErrorCeil
    successes,      \* metrics.consecutive_successes
    tokens,         \* whole tokens of the login bucket
    paceQueue,      \* _pace_queue: callers whose login has no token yet
    pc,             \* where each caller is
    isProbe,        \* the local is_probe of each caller's acquire()
    logins,         \* logins of the current call
    demand,         \* calls still to be made
    doubled         \* history: calls whose slot is returned twice

breaker  == <<circuit, cooled>>
adaption == <<cap, errors, successes>>
pacing   == <<tokens, paceQueue>>
vars == <<circuit, cooled, probeInFlight, active, cap, errors, successes,
          tokens, paceQueue, pc, isProbe, logins, demand, doubled>>

Outside == {"idle", "waiting", "woken"}         \* not admitted by acquire()
\* Admitted, slot handed back; cancelled, but still to take it back.
Unwinding == {"unwinding", "unwoken"}
Pausing == {"pacing", "rewaiting", "rewoken"} \cup Unwinding
Ending  == {"closing", "refused"}               \* outcome recorded, finally due
Holding == {"body", "login"} \cup Ending        \* admitted, with a slot

\* _caller_is_interactive() is false for the job queue's bg and shared workers.
Background == Callers \ Interactive

\* An error count above both thresholds is told apart from none larger.
ErrorCeil == 1 + (IF AdaptAt > Threshold THEN AdaptAt ELSE Threshold)

TypeOK ==
    /\ circuit \in {"closed", "open", "half_open"}
    /\ cooled \in BOOLEAN
    /\ cooled => circuit = "open"
    /\ probeInFlight \in BOOLEAN
    /\ active \in Int
    /\ active <= MaxConcurrent
    /\ cap \in 1..MaxConcurrent
    /\ errors \in 0..ErrorCeil
    /\ successes \in 0..(RecoverAfter - 1)
    /\ tokens \in 0..Burst
    /\ paceQueue \in Seq(Callers)
    /\ pc \in [Callers -> Outside \cup Pausing \cup Holding]
    /\ isProbe \in [Callers -> BOOLEAN]
    /\ logins \in [Callers -> 0..MaxLogins]
    /\ demand \in 0..Demand
    /\ doubled \in Nat

Init ==
    /\ circuit = "closed"
    /\ cooled = FALSE
    /\ probeInFlight = FALSE
    /\ active = 0
    /\ cap = MaxConcurrent
    /\ errors = 0
    /\ successes = 0
    /\ tokens = Burst
    /\ paceQueue = <<>>
    /\ pc = [c \in Callers |-> "idle"]
    /\ isProbe = [c \in Callers |-> FALSE]
    /\ logins = [c \in Callers |-> 0]
    /\ demand = Demand
    /\ doubled = 0

-----------------------------------------------------------------------------
(* Time.                                                                   *)

\* Minutes do not pass while a task is ready to run.
Quiet == \A c \in Callers : pc[c] \notin {"woken", "rewoken", "unwoken"} \cup Ending

Cool ==
    /\ circuit = "open"
    /\ ~cooled
    /\ Quiet
    /\ cooled' = TRUE
    /\ UNCHANGED <<circuit, probeInFlight, active, adaption, pacing, pc,
                   isProbe, logins, demand, doubled>>

-----------------------------------------------------------------------------
(* Admission: the locked section of acquire().                              *)

\* Mutant of NotifyAll: the notify_all() is forgotten.
NotifyNobody(status) == status

\* notify_all() on the state condition: every sleeper gets to look again.
NotifyAll(status) ==
    [c \in Callers |-> CASE status[c] = "waiting"   -> "woken"
                         [] status[c] = "rewaiting" -> "rewoken"
                         [] status[c] = "unwinding" -> "unwoken"
                         [] OTHER                   -> status[c]]

\* A caller at the top of the admission loop: a new call, or one woken from
\* the capacity wait.
Entering(c) == pc[c] = "woken" \/ (pc[c] = "idle" /\ demand > 0)
CountCall(c) == demand' = IF pc[c] = "idle" THEN demand - 1 ELSE demand

\* The circuit as the gate leaves it: an OPEN circuit past its window is armed.
Gate == IF circuit = "open" /\ cooled THEN "half_open" ELSE circuit

\* Background callers leave Reserved slots of the current cap free.
Limit(c) ==
    IF c \in Interactive THEN cap
    ELSE IF cap - Reserved > 1 THEN cap - Reserved ELSE 1

\* Mutant of Reject: the admission section moved into the try block, so that
\* finally returns a slot that was never taken.
RejectInTry(c) ==
    /\ Entering(c)
    /\ Gate = "open" \/ (Gate = "half_open" /\ probeInFlight)
    /\ circuit' = Gate
    /\ cooled' = FALSE
    /\ active' = IF active > 0 THEN active - 1 ELSE active
    /\ pc' = [pc EXCEPT ![c] = "idle"]
    /\ isProbe' = [isProbe EXCEPT ![c] = FALSE]
    /\ CountCall(c)
    /\ UNCHANGED <<probeInFlight, adaption, pacing, logins, doubled>>

\* NitrisCircuitOpenError leaves acquire() before the try block: nothing is
\* returned or cleared but the caller's own locals.
Reject(c) ==
    /\ Entering(c)
    /\ Gate = "open" \/ (Gate = "half_open" /\ probeInFlight)
    /\ circuit' = Gate
    /\ cooled' = FALSE
    /\ pc' = [pc EXCEPT ![c] = "idle"]
    /\ isProbe' = [isProbe EXCEPT ![c] = FALSE]
    /\ CountCall(c)
    /\ UNCHANGED <<probeInFlight, active, adaption, pacing, logins, doubled>>

\* Past the gate: a HALF_OPEN circuit makes the caller its probe, before the
\* capacity check.  A woken caller keeps the is_probe of an earlier round.
PassGate(c) ==
    /\ Entering(c)
    /\ Gate = "closed" \/ (Gate = "half_open" /\ ~probeInFlight)
    /\ circuit' = Gate
    /\ cooled' = FALSE
    /\ probeInFlight' = (probeInFlight \/ Gate = "half_open")
    /\ isProbe' = [isProbe EXCEPT ![c] = @ \/ Gate = "half_open"]
    /\ CountCall(c)
    /\ UNCHANGED <<adaption, pacing, logins, doubled>>

Admit(c) ==
    /\ PassGate(c)
    /\ active < Limit(c)
    /\ active' = active + 1
    /\ pc' = [pc EXCEPT ![c] = "body"]

WaitForSlot(c) ==
    /\ PassGate(c)
    /\ active >= Limit(c)
    /\ pc' = [pc EXCEPT ![c] = "waiting"]
    /\ UNCHANGED active

-----------------------------------------------------------------------------
(* Logging in: _do_login().                                                 *)

\* Mutant of Turn: first come, first served.
TurnFIFO(q) == 1

\* _dispatch_tokens() on queue q with t tokens: the earliest interactive
\* caller gets the token, else the earliest.  The code loops; every dispatch
\* leaves no token or no waiter (NoIdleToken), so once is all it ever runs.
Turn(q) ==
    LET first == {i \in DOMAIN q : /\ q[i] \in Interactive
                                   /\ \A j \in 1..(i - 1) : q[j] \notin Interactive}
    IN  IF first = {} THEN 1 ELSE CHOOSE i \in first : TRUE

Dispatch(q, t) ==
    IF t > 0 /\ q # <<>>
    THEN tokens' = t - 1 /\ paceQueue' = RemoveAt(q, Turn(q))
    ELSE tokens' = t     /\ paceQueue' = q

\* The bucket gains a whole token; a sleeping login's timer dispatches it.
Tick ==
    /\ tokens < Burst
    /\ Dispatch(paceQueue, tokens + 1)
    /\ UNCHANGED <<breaker, probeInFlight, active, adaption, pc, isProbe,
                   logins, demand, doubled>>

\* _release_slot() and the entry of _pacing_turn(), with no suspension between.
StartLogin(c) ==
    /\ pc[c] = "body"
    /\ logins[c] < MaxLogins
    /\ active' = IF active > 0 THEN active - 1 ELSE active
    /\ pc' = NotifyAll([pc EXCEPT ![c] = "pacing"])
    /\ Dispatch(Append(paceQueue, c), tokens)
    /\ logins' = [logins EXCEPT ![c] = @ + 1]
    /\ UNCHANGED <<breaker, probeInFlight, adaption, isProbe, demand, doubled>>

\* Off the queue, a pacing caller has its token.
Granted(c) == pc[c] = "pacing" /\ ~Contains(paceQueue, c)

\* Mutant of Resume: the slot is taken back without a capacity check.
ResumeUnchecked(c) ==
    /\ Granted(c) \/ pc[c] = "rewoken"
    /\ active' = active + 1
    /\ pc' = [pc EXCEPT ![c] = "login"]
    /\ UNCHANGED <<breaker, probeInFlight, adaption, pacing, isProbe, logins,
                   demand, doubled>>

\* _reacquire_slot(): the whole cap, for every class, whatever the circuit.
Resume(c) ==
    /\ Granted(c) \/ pc[c] = "rewoken"
    /\ active < cap
    /\ active' = active + 1
    /\ pc' = [pc EXCEPT ![c] = "login"]
    /\ UNCHANGED <<breaker, probeInFlight, adaption, pacing, isProbe, logins,
                   demand, doubled>>

WaitToResume(c) ==
    /\ Granted(c) \/ pc[c] = "rewoken"
    /\ active >= cap
    /\ pc' = [pc EXCEPT ![c] = "rewaiting"]
    /\ UNCHANGED <<breaker, probeInFlight, active, adaption, pacing, isProbe,
                   logins, demand, doubled>>

\* client.login() returns: back in the body, still with the slot.
LoginReturns(c) ==
    /\ pc[c] = "login"
    /\ pc' = [pc EXCEPT ![c] = "body"]
    /\ UNCHANGED <<breaker, probeInFlight, active, adaption, pacing, isProbe,
                   logins, demand, doubled>>

-----------------------------------------------------------------------------
(* Leaving the body: one locked section for the outcome, then finally.       *)

Leave(c, from, to) ==
    /\ pc[c] \in from
    /\ pc' = [pc EXCEPT ![c] = to]
    /\ UNCHANGED <<active, pacing, isProbe, logins, demand, doubled>>

\* The body completed: _record_success().
Succeed(c) ==
    /\ Leave(c, {"body"}, "closing")
    /\ errors' = 0
    /\ IF circuit = "half_open"
       THEN circuit' = "closed" /\ probeInFlight' = FALSE
       ELSE UNCHANGED <<circuit, probeInFlight>>
    /\ IF successes + 1 >= RecoverAfter
       THEN /\ successes' = 0
            /\ cap' = IF cap < MaxConcurrent THEN cap + 1 ELSE cap
       ELSE successes' = successes + 1 /\ UNCHANGED cap
    /\ UNCHANGED cooled

\* _note_portal_responded().
NotePortalResponded ==
    /\ circuit' = IF circuit = "half_open" THEN "closed" ELSE circuit
    /\ UNCHANGED <<cooled, probeInFlight, adaption>>

\* A per-user verdict of the portal: LoginError, SessionExpiredError,
\* InboxParseError.
Judged(c) == Leave(c, {"body", "login"}, "closing") /\ NotePortalResponded

\* CredentialsQuarantinedError: login_through_gateway() refused the login
\* from its own set; nothing was sent.
Refused(c) == Leave(c, {"body"}, "refused") /\ NotePortalResponded

\* Any other NitrisError, or the transport failed: _record_error().
RecordError ==
    IF circuit = "half_open"
    THEN /\ circuit' = "open"
         /\ UNCHANGED <<cooled, probeInFlight, adaption>>
    ELSE /\ errors' = IF errors < ErrorCeil THEN errors + 1 ELSE errors
         /\ successes' = 0
         /\ cap' = IF errors' = AdaptAt /\ cap > CapFloor THEN cap - 1 ELSE cap
         /\ circuit' = IF errors' >= Threshold THEN "open" ELSE circuit
         /\ UNCHANGED <<cooled, probeInFlight>>

Fault(c) == Leave(c, {"body", "login"}, "closing") /\ RecordError

\* An error of the bot itself (database, Telegram, bug) is not recorded.
Abort(c) ==
    /\ Leave(c, {"body", "login"}, "closing")
    /\ UNCHANGED <<breaker, probeInFlight, adaption>>

\* Mutant of FlagAfter: the probe's own finally leaves the flag.
FlagKept(c) == probeInFlight

\* The finally block.  Whoever is a probe clears the flag.
FlagAfter(c) == probeInFlight /\ ~isProbe[c]

Close(c) ==
    /\ pc[c] \in Ending
    /\ active' = active - 1
    /\ probeInFlight' = FlagAfter(c)
    /\ isProbe' = [isProbe EXCEPT ![c] = FALSE]
    /\ logins' = [logins EXCEPT ![c] = 0]
    /\ pc' = NotifyAll([pc EXCEPT ![c] = "idle"])
    /\ UNCHANGED <<breaker, adaption, pacing, demand, doubled>>

-----------------------------------------------------------------------------
(* Cancellation by wait_for(): CancelledError at the await where c is.       *)

\* In the admission wait, outside the try block: as in Reject, nothing but
\* the caller's own locals goes.
CancelWait(c) ==
    /\ c \in Impatient
    /\ pc[c] \in {"waiting", "woken"}
    /\ pc' = [pc EXCEPT ![c] = "idle"]
    /\ isProbe' = [isProbe EXCEPT ![c] = FALSE]
    /\ UNCHANGED <<breaker, probeInFlight, active, adaption, pacing, logins,
                   demand, doubled>>

\* _reacquire_slot() in the finally of a cancelled _do_login(): with the slot
\* back, the exception goes on to acquire()'s own finally.
TakeBack(c) ==
    IF active < cap
    THEN active' = active + 1 /\ pc' = [pc EXCEPT ![c] = "closing"]
    ELSE UNCHANGED active /\ pc' = [pc EXCEPT ![c] = "unwinding"]

\* Before the token, _pacing_turn() leaves its queue; after it, the token is
\* gone.
CancelPacing(c) ==
    /\ c \in Impatient
    /\ pc[c] = "pacing"
    /\ IF Granted(c)
       THEN UNCHANGED paceQueue
       ELSE \E i \in DOMAIN paceQueue : /\ paceQueue[i] = c
                                        /\ paceQueue' = RemoveAt(paceQueue, i)
    /\ TakeBack(c)
    /\ UNCHANGED <<breaker, probeInFlight, adaption, tokens, isProbe, logins,
                   demand, doubled>>

Unwind(c) ==
    /\ pc[c] = "unwoken"
    /\ TakeBack(c)
    /\ UNCHANGED <<breaker, probeInFlight, adaption, pacing, isProbe, logins,
                   demand, doubled>>

\* Inside _reacquire_slot() itself the exception leaves before the slot is
\* counted again, and acquire()'s finally returns it all the same.
CancelResume(c) ==
    /\ c \in Impatient
    /\ pc[c] \in {"rewaiting", "rewoken"}
    /\ pc' = [pc EXCEPT ![c] = "closing"]
    /\ doubled' = doubled + 1
    /\ UNCHANGED <<breaker, probeInFlight, active, adaption, pacing, isProbe,
                   logins, demand>>

-----------------------------------------------------------------------------
Ends(c) == Succeed(c) \/ Judged(c) \/ Refused(c) \/ Fault(c) \/ Abort(c)

Next ==
    \/ Cool
    \/ Tick
    \/ \E c \in Callers :
        \/ Reject(c) \/ Admit(c) \/ WaitForSlot(c)
        \/ StartLogin(c) \/ Resume(c) \/ WaitToResume(c) \/ LoginReturns(c)
        \/ Succeed(c) \/ Judged(c) \/ Refused(c) \/ Fault(c) \/ Abort(c)
        \/ Close(c)
        \/ CancelWait(c) \/ CancelPacing(c) \/ Unwind(c) \/ CancelResume(c)

Spec == Init /\ [][Next]_vars

\* Time passes; the event loop runs every ready task; a body ends, since the
\* HTTP client gives every request a timeout.  No call has to be made.
Proceed(c) ==
    \/ pc[c] = "woken" /\ (Reject(c) \/ Admit(c) \/ WaitForSlot(c))
    \/ Resume(c) \/ WaitToResume(c) \/ LoginReturns(c) \/ Ends(c) \/ Close(c)
    \/ Unwind(c)

Fairness == WF_vars(Tick) /\ \A c \in Callers : WF_vars(Proceed(c))
FairSpec == Spec /\ Fairness

-----------------------------------------------------------------------------
(* Properties.                                                              *)

Holders == {c \in Callers : pc[c] \in Holding}

\* No exit path of acquire() or _do_login() leaks a slot, and the only one that
\* returns a slot twice is the cancellation of a login that waits to take its
\* slot back: active_requests never counts more than the tasks that hold a
\* slot, and falls short of them by at most one for each such call.  Without
\* one, it counts them exactly.
SlotConservation ==
    /\ active <= Cardinality(Holders)
    /\ Cardinality(Holders) <= active + doubled

\* Room for c under the limit its wait is for.
HasRoom(c) ==
    \/ pc[c] = "waiting" /\ active < Limit(c)
    \/ pc[c] \in {"rewaiting", "unwinding"} /\ active < cap

\* No lost wakeup: a task sleeps beside a free slot only while some finally
\* block, which will notify it, is still to run.  (_record_success widens the
\* cap and notifies nobody.)
NoLostWakeup ==
    (\E c \in Callers : HasRoom(c)) => \E d \in Callers : pc[d] \in Ending

\* A login never waits for pacing while a token is there to take.
NoIdleToken == tokens = 0 \/ paceQueue = <<>>

\* Whatever the adaptation did meanwhile, a task takes a slot, on entry or
\* after pacing, only below the cap of that moment.
AdmissionRespectsCap == [][active' > active => active' <= cap]_vars

\* A background login gets a pacing token only when no interactive login waits
\* for one, and two logins of one class get theirs in the order they asked.
\* (A login that is cancelled leaves the queue without a token.)
PacePriority ==
    [][\A i \in DOMAIN paceQueue :
         (~Contains(paceQueue', paceQueue[i]) /\ pc'[paceQueue[i]] = "pacing") =>
            \A j \in DOMAIN paceQueue :
                (j # i /\ paceQueue[j] \in Interactive) =>
                    paceQueue[i] \in Interactive /\ i < j]_vars

\* The circuit breaker's flag is never left behind: while _probe_in_flight is
\* set, the call that set it is still on its way to the finally block that
\* clears it ("a HALF-OPEN circuit can never deadlock on a lost probe").
NoLostProbe == probeInFlight => \E c \in Callers : isProbe[c]

\* Every call comes back: to its caller, or with an exception.
EveryCallReturns == \A c \in Callers : pc[c] # "idle" ~> pc[c] = "idle"

=============================================================================
