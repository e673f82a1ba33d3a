---------------------------- MODULE QPaperProofs ----------------------------
(***************************************************************************)
(* What the two file caches promise for every number of requests, permits,   *)
(* attempts and restarts: QPaper, for its interventions too, and at the end   *)
(* Attachment, taken as an instance.                                          *)
(***************************************************************************)
EXTENDS QPaper, FiniteSetTheorems, TLAPS

RowOK ==
    /\ status \in Statuses /\ file \in {None, "good", "dead"}
    /\ lock \in {None, "fresh", "stale", "dead"} /\ attempts \in 0..PermanentAfter
    /\ status = "paper_available" => file # None
    /\ (lock # None) <=> (status = "fetch_in_progress")

RequestsOK ==
    /\ pc \in [Requests -> Places] /\ carried \in [Requests -> {None, "good", "dead"}]
    /\ held \in [Requests -> 0..2] /\ working \in [Requests -> {0, 1}]
    /\ freeD \in Nat /\ freeA \in Nat
    /\ \A r \in Requests : (carried[r] # None) <=> (pc[r] \in {"line", "send"})

CountersOK ==
    overrun \in BOOLEAN /\ restarts \in 0..Restarts /\ interventions \in 0..Interventions

\* A request sends a stale file at most once: past that, the row's file is not
\* stale, so the second permit is for a good one.
Once(r) ==
    /\ pc[r] \in {"idle", "done"} => held[r] = 0
    /\ pc[r] # "send" => held[r] \in {0, 1}
    /\ pc[r] = "line" /\ held[r] = 1 => carried[r] = "good"
    /\ pc[r] = "send" => held[r] \in {1, 2}
    /\ held[r] = 2 => carried[r] = "good"
    /\ held[r] > 0 /\ pc[r] # "send" => file # "dead"
Depth == \A r \in Requests : Once(r)

\* An acquirer that has not been overrun holds a fresh lock, alone.
Alone ==
    ~overrun => /\ \A r, s \in Acquirers : r = s
                /\ Acquirers # {} => status = "fetch_in_progress" /\ lock = "fresh"

IInv == RowOK /\ RequestsOK /\ CountersOK /\ Depth /\ Alone

LEMMA TypesSplit == TypeOK <=> RowOK /\ RequestsOK /\ CountersOK
BY DEF TypeOK, RowOK, RequestsOK, CountersOK

-----------------------------------------------------------------------------
(* The ways a request moves.                                                *)

\* What a move of request r does to the requests, whatever it does to the row.
Moved(r) ==
    /\ RequestsOK' /\ Depth'
    /\ Acquirers' \subseteq Acquirers \cup {r}
    /\ (pc'[r] \notin {"queue", "acquire"} => Acquirers' = Acquirers \ {r})

LEMMA AnswerMoves ==
    ASSUME IInv, NEW r \in Requests, Answer(r), file' = file \/ file' = "good"
    PROVE  Moved(r) /\ pc'[r] = "done"
<1> USE DEF IInv, RequestsOK, Answer
<1>1. pc' \in [Requests -> Places] /\ carried' \in [Requests -> {None, "good", "dead"}]
  BY DEF Places
<1>2. held' \in [Requests -> 0..2] /\ working' \in [Requests -> {0, 1}]
  OBVIOUS
<1>3. freeD' \in Nat /\ freeA' \in Nat
  <2>1. held[r] \in Nat /\ working[r] \in Nat
    OBVIOUS
  <2> QED BY <2>1
<1>4. \A s \in Requests : (carried'[s] # None) <=> (pc'[s] \in {"line", "send"})
  OBVIOUS
<1>5. Depth'
  BY NoneAssumption DEF Depth, Once
<1>6. Acquirers' = Acquirers \ {r} /\ pc'[r] = "done"
  BY DEF Acquirers
<1> QED BY <1>1, <1>2, <1>3, <1>4, <1>5, <1>6 DEF Moved

LEMMA DeliverMoves ==
    ASSUME IInv, NEW r \in Requests, pc[r] \in {"idle", "wait"}, Cached,
           Deliver(r), file' = file
    PROVE  Moved(r) /\ pc'[r] = "line"
<1> USE DEF IInv, RequestsOK, Deliver, Goto, permits
<1>1. pc' \in [Requests -> Places] /\ carried' \in [Requests -> {None, "good", "dead"}]
  BY DEF Places, RowOK
<1>2. \A s \in Requests : (carried'[s] # None) <=> (pc'[s] \in {"line", "send"})
  BY DEF Cached
<1>3. Depth'
  <2>1. \A s \in Requests : s # r => Once(s)'
    BY DEF Depth, Once
  <2>2. held[r] \in {0, 1} /\ (held[r] = 1 => file = "good")
    BY DEF Depth, Once, Cached, RowOK
  <2>3. Once(r)'
    BY <2>2, NoneAssumption DEF Once
  <2> QED BY <2>1, <2>3 DEF Depth
<1>4. Acquirers' = Acquirers \ {r} /\ pc'[r] = "line"
  BY DEF Acquirers
<1> QED BY <1>1, <1>2, <1>3, <1>4 DEF Moved

LEMMA GotoMoves ==
    ASSUME IInv, NEW r \in Requests, pc[r] \in {"idle", "wait", "claim"},
           NEW place \in {"claim", "wait", "queue"}, Goto(r, place),
           UNCHANGED <<carried, permits>>, file' = file
    PROVE  Moved(r) /\ pc'[r] = place
<1> USE DEF IInv, RequestsOK, Goto, permits
<1>1. pc' \in [Requests -> Places]
  BY DEF Places
<1>2. \A s \in Requests : (carried'[s] # None) <=> (pc'[s] \in {"line", "send"})
  OBVIOUS
<1>3. Depth'
  BY DEF Depth, Once
<1>4. /\ Acquirers' \subseteq Acquirers \cup {r}
      /\ place \notin {"queue", "acquire"} => Acquirers' = Acquirers \ {r}
      /\ pc'[r] = place
  BY DEF Acquirers
<1> QED BY <1>1, <1>2, <1>3, <1>4 DEF Moved

\* A move that leaves the row and the acquisitions alone keeps the invariant.
LEMMA FrameIInv ==
    ASSUME IInv, NEW r \in Requests, Moved(r), pc'[r] \notin {"queue", "acquire"},
           UNCHANGED <<row, overrun, bounds>>
    PROVE  IInv'
BY DEF IInv, Moved, RowOK, CountersOK, Alone, row, bounds

-----------------------------------------------------------------------------
(* The invariant.                                                           *)

LEMMA InitIInv == Init => IInv
<1> SUFFICES ASSUME Init PROVE IInv
  OBVIOUS
<1> USE DEF Init
<1>1. RowOK
  BY BoundsAssumption, NoneAssumption DEF RowOK, Statuses
<1>4. CountersOK
  <2>1. overrun \in BOOLEAN
    OBVIOUS
  <2>2. restarts \in 0..Restarts /\ interventions \in 0..Interventions
    BY BoundsAssumption
  <2> QED BY <2>1, <2>2 DEF CountersOK
<1>2. RequestsOK
  BY BoundsAssumption DEF RequestsOK, Places
<1>3. Depth /\ Alone
  BY DEF Depth, Once, Alone, Acquirers
<1> QED BY <1>1, <1>2, <1>3, <1>4 DEF IInv

LEMMA ReadStep ==
    ASSUME IInv, NEW r \in Requests, Begin(r) \/ BeginWarm(r) \/ Poll(r) \/ WaitTimeout(r)
    PROVE  IInv'
<1>1. pc[r] \in {"idle", "wait"} /\ file' = file /\ UNCHANGED <<row, overrun, bounds>>
  BY DEF Begin, BeginWarm, Poll, WaitTimeout, row
<1>2. \/ Answer(r)
      \/ Cached /\ Deliver(r)
      \/ Goto(r, "claim") /\ UNCHANGED <<carried, permits>>
  BY DEF Begin, BeginWarm, Poll, WaitTimeout
<1> QED BY <1>1, <1>2, AnswerMoves, DeliverMoves, GotoMoves, FrameIInv

LEMMA ClaimStep ==
    ASSUME IInv, NEW r \in Requests, Claim(r)
    PROVE  IInv'
<1>1. Moved(r)
  BY GotoMoves DEF Claim
<1>2. RowOK'
  BY BoundsAssumption, NoneAssumption DEF Claim, IInv, RowOK, Statuses, OneMore
<1>3. ~overrun => Acquirers = {}
  BY DEF Claim, Claimable, IInv, Alone
<1>4. Alone'
  BY <1>1, <1>3 DEF Claim, Moved, Alone
<1> QED BY <1>1, <1>2, <1>4 DEF IInv, Moved, Claim, CountersOK, bounds

LEMMA ClaimLostStep ==
    ASSUME IInv, NEW r \in Requests, ClaimLost(r)
    PROVE  IInv'
<1>1. Moved(r) /\ pc'[r] \in {"wait", "done"}
  BY AnswerMoves, GotoMoves DEF ClaimLost, row
<1> QED BY <1>1, FrameIInv DEF ClaimLost

LEMMA EnterAcquisitionStep ==
    ASSUME IInv, NEW r \in Requests, EnterAcquisition(r)
    PROVE  IInv'
<1> USE DEF EnterAcquisition, Goto
<1>1. pc' \in [Requests -> Places] /\ working' \in [Requests -> {0, 1}] /\ freeA' \in Nat
  BY DEF IInv, RequestsOK, Places
<1>2. \A s \in Requests : (carried'[s] # None) <=> (pc'[s] \in {"line", "send"})
  BY DEF IInv, RequestsOK
<1>3. Depth'
  BY DEF IInv, RequestsOK, Depth, Once, row
<1>4. Acquirers' = Acquirers
  BY DEF IInv, RequestsOK, Acquirers
<1>5. RowOK' /\ Alone' /\ CountersOK'
  BY <1>4 DEF IInv, RowOK, Alone, CountersOK, row, bounds
<1> QED BY <1>1, <1>2, <1>3, <1>5 DEF IInv, RequestsOK

\* A mark by an acquirer that leaves.
LEMMA MarkStep ==
    ASSUME IInv, NEW r \in Requests, pc[r] = "acquire", Moved(r),
           pc'[r] \notin {"queue", "acquire"},
           NEW outcome \in Statuses \ {"fetch_in_progress"}, NEW newFile \in {None, "good", "dead"},
           outcome = "paper_available" => newFile # None, Mark(outcome, newFile)
    PROVE  IInv'
<1>1. RowOK'
  BY NoneAssumption DEF Mark, IInv, RowOK, Statuses
<1>2. r \in Acquirers /\ Acquirers' = Acquirers \ {r}
  BY DEF Moved, Acquirers
<1>3. Alone'
  BY <1>2 DEF IInv, Alone, Mark
<1> QED BY <1>1, <1>3 DEF IInv, Moved, Mark, CountersOK, bounds

LEMMA StoredInChannelStep ==
    ASSUME IInv, NEW r \in Requests, StoredInChannel(r)
    PROVE  IInv'
<1>1. file' = file \/ file' = "good"
  BY DEF StoredInChannel, Mark
<1>2. CASE r \in Students
  <2> USE <1>2 DEF StoredInChannel, Goto, permits
  <2>1. RequestsOK'
    BY NoneAssumption DEF IInv, RequestsOK, Places
  <2>2. Depth'
    BY <1>1 DEF IInv, RequestsOK, Depth, Once
  <2>3. Acquirers' = Acquirers \ {r} /\ pc'[r] = "line"
    BY DEF IInv, RequestsOK, Acquirers
  <2>4. Moved(r)
    BY <2>1, <2>2, <2>3 DEF Moved
  <2> QED BY <2>3, <2>4, MarkStep, NoneAssumption DEF Statuses
<1>3. CASE r \notin Students
  BY <1>1, <1>3, AnswerMoves, MarkStep, NoneAssumption DEF StoredInChannel, Statuses
<1> QED BY <1>2, <1>3

LEMMA AcquireStep ==
    ASSUME IInv, NEW r \in Requests, Acquire(r)
    PROVE  IInv'
<1>1. CASE StoredInChannel(r)
  BY <1>1, StoredInChannelStep
<1>2. CASE StoredInChat(r)
  <2>1. file' = file \/ file' = "good"
    BY <1>2 DEF StoredInChat, Mark
  <2> QED BY <1>2, <2>1, AnswerMoves, MarkStep, NoneAssumption DEF StoredInChat, Statuses
<1>3. CASE CredentialsQuarantined(r) /\ r \in Students
  <2>1. file' = file
    BY <1>3 DEF CredentialsQuarantined, row
  <2> QED BY <1>3, <2>1, AnswerMoves, FrameIInv DEF CredentialsQuarantined
<1>4. CASE \/ PaperMissing(r) \/ ChannelDown(r) \/ AcquisitionFails(r)
           \/ CredentialsQuarantined(r) /\ r \notin Students
  <2>1. PICK outcome \in {"paper_not_available", "retryable_failure", "permanent_failure"} :
          pc[r] = "acquire" /\ Mark(outcome, file) /\ Answer(r)
    BY <1>4 DEF PaperMissing, ChannelDown, AcquisitionFails, CredentialsQuarantined
  <2>2. file' = file /\ file \in {None, "good", "dead"}
    BY <2>1 DEF Mark, IInv, RowOK
  <2> QED BY <2>1, <2>2, AnswerMoves, MarkStep DEF Statuses
<1> QED BY <1>1, <1>2, <1>3, <1>4 DEF Acquire

LEMMA EnterDeliveryStep ==
    ASSUME IInv, NEW r \in Requests, EnterDelivery(r)
    PROVE  IInv'
<1> USE DEF EnterDelivery, Goto
<1>1. held[r] \in {0, 1}
  BY DEF IInv, Depth, Once
<1>2. pc' \in [Requests -> Places] /\ held' \in [Requests -> 0..2] /\ freeD' \in Nat
  BY <1>1 DEF IInv, RequestsOK, Places
<1>3. \A s \in Requests : (carried'[s] # None) <=> (pc'[s] \in {"line", "send"})
  BY DEF IInv, RequestsOK
<1>4. Depth'
  <2>1. \A s \in Requests : s # r => Once(s)'
    BY DEF IInv, RequestsOK, Depth, Once, row
  <2>2. Once(r)'
    BY <1>1 DEF IInv, RequestsOK, Depth, Once
  <2> QED BY <2>1, <2>2 DEF Depth
<1>5. Acquirers' = Acquirers
  BY DEF IInv, RequestsOK, Acquirers
<1>6. RowOK' /\ Alone' /\ CountersOK'
  BY <1>5 DEF IInv, RowOK, Alone, CountersOK, row, bounds
<1> QED BY <1>2, <1>3, <1>4, <1>6 DEF IInv, RequestsOK

LEMMA SendStep ==
    ASSUME IInv, NEW r \in Requests, Send(r)
    PROVE  IInv'
<1>1. file' = file
  BY DEF Send, row
<1> QED BY <1>1, AnswerMoves, FrameIInv DEF Send

LEMMA SendStaleStep ==
    ASSUME IInv, NEW r \in Requests, SendStale(r)
    PROVE  IInv'
<1> USE DEF SendStale, Goto, permits
<1>1. RowOK' /\ CountersOK'
  BY BoundsAssumption, NoneAssumption DEF IInv, RowOK, CountersOK, Statuses, bounds
<1>2. RequestsOK'
  BY DEF IInv, RequestsOK, Places
<1>3. held[r] = 1
  BY DEF IInv, RequestsOK, Depth, Once
<1>4. Depth'
  BY <1>3, NoneAssumption DEF IInv, RequestsOK, Depth, Once
<1>5. Acquirers' = Acquirers
  BY DEF IInv, RequestsOK, Acquirers
<1>6. Alone'
  BY <1>5 DEF Alone
<1> QED BY <1>1, <1>2, <1>4, <1>6 DEF IInv

LEMMA EnvironmentStep ==
    ASSUME IInv, LockAges \/ Reap \/ CatalogLists \/ AdminReset
    PROVE  IInv'
<1>1. RequestsOK' /\ Depth' /\ Acquirers' = Acquirers
  BY DEF LockAges, Reap, CatalogLists, AdminReset, permits,
         IInv, RequestsOK, Depth, Once, Acquirers
<1>2. RowOK'
  BY BoundsAssumption, NoneAssumption
     DEF LockAges, Reap, CatalogLists, AdminReset, IInv, RowOK, Statuses
<1>3. CountersOK'
  <2>1. overrun' \in BOOLEAN
    BY DEF LockAges, Reap, CatalogLists, AdminReset, bounds, IInv, CountersOK
  <2>2. restarts' = restarts /\ interventions' \in 0..Interventions
    BY BoundsAssumption DEF LockAges, Reap, CatalogLists, AdminReset, bounds, IInv, CountersOK
  <2> QED BY <2>1, <2>2 DEF IInv, CountersOK
<1>4. Alone'
  BY <1>1, NoneAssumption DEF LockAges, Reap, CatalogLists, AdminReset, IInv, Alone
<1> QED BY <1>1, <1>2, <1>3, <1>4 DEF IInv

LEMMA RestartStep ==
    ASSUME IInv, NEW newToken \in BOOLEAN, Restart(newToken)
    PROVE  IInv'
<1> USE DEF Restart
<1>1. RowOK'
  BY NoneAssumption DEF IInv, RowOK
<1>4. CountersOK'
  <2>1. overrun' \in BOOLEAN
    OBVIOUS
  <2>2. restarts' \in 0..Restarts /\ interventions' \in 0..Interventions
    BY BoundsAssumption DEF IInv, CountersOK
  <2> QED BY <2>1, <2>2 DEF CountersOK
<1>2. RequestsOK'
  BY BoundsAssumption DEF IInv, RequestsOK, Places
<1>3. Depth' /\ Alone'
  BY DEF IInv, RequestsOK, Depth, Once, Alone, Acquirers
<1> QED BY <1>1, <1>2, <1>3, <1>4 DEF IInv

LEMMA StepIInv == IInv /\ [Next]_vars => IInv'
<1> SUFFICES ASSUME IInv, [Next]_vars PROVE IInv'
  OBVIOUS
<1>1. ASSUME NEW r \in Requests, Step(r) PROVE IInv'
  BY <1>1, ReadStep, ClaimStep, ClaimLostStep, EnterAcquisitionStep, AcquireStep,
     EnterDeliveryStep, SendStep, SendStaleStep DEF Step
<1>2. CASE LockAges \/ Reap \/ CatalogLists \/ AdminReset
  BY <1>2, EnvironmentStep
<1>3. CASE \E newToken \in BOOLEAN : Restart(newToken)
  BY <1>3, RestartStep
<1>4. CASE UNCHANGED vars
  BY <1>4 DEF vars, IInv, RowOK, RequestsOK, CountersOK, Depth, Once, Alone, Acquirers
<1> QED BY <1>1, <1>2, <1>3, <1>4 DEF Next

LEMMA Invariance == Spec => []IInv
BY InitIInv, StepIInv, PTL DEF Spec

-----------------------------------------------------------------------------
(* The theorems.                                                            *)

\* The row and the requests stay well formed; among it, no request ever holds more
\* than two delivery permits: a stale file is met at most once on the way.
THEOREM TypeCorrect == Spec => []TypeOK
<1>1. IInv => TypeOK
  BY TypesSplit DEF IInv
<1> QED BY <1>1, Invariance, PTL

\* One acquisition at a time, till a row is taken from a living acquirer.
THEOREM Collapsed == Spec => []OneAcquisition
<1>1. IInv => OneAcquisition
  <2> SUFFICES ASSUME IInv, ~overrun PROVE Cardinality(Acquirers) <= 1
    BY DEF OneAcquisition
  <2>1. CASE Acquirers = {}
    BY <2>1, FS_EmptySet
  <2>2. CASE Acquirers # {}
    <3>1. PICK r \in Acquirers : TRUE
      BY <2>2
    <3>2. Acquirers = {r}
      BY <3>1 DEF IInv, Alone
    <3>3. Cardinality({r}) = 1
      BY FS_Singleton
    <3> QED BY <3>2, <3>3
  <2> QED BY <2>1, <2>2
<1> QED BY <1>1, Invariance, PTL

\* Good files and final answers survive everything but a reset, the catalog, a new
\* token and a request that carries a stale file.
THEOREM AnswersStay == Spec => TerminalStays
<1>1. IInv /\ [Next]_vars => [Settled /\ ~Override => UNCHANGED <<status, file>>]_vars
  <2> SUFFICES ASSUME IInv, Next, Settled, ~Override PROVE UNCHANGED <<status, file>>
    OBVIOUS
  <2>1. status # "fetch_in_progress" /\ status # "retryable_failure"
    BY DEF Settled, Cached, Negative
  <2>2. ASSUME NEW r \in Requests, Step(r) PROVE UNCHANGED <<status, file>>
    <3>1. CASE Claim(r)
      BY <2>1, <3>1 DEF Claim, Claimable
    <3>2. CASE Acquire(r)
      BY <2>1, <3>2 DEF Acquire, StoredInChannel, StoredInChat, PaperMissing, ChannelDown,
                        CredentialsQuarantined, AcquisitionFails, Mark, row
    <3>3. CASE SendStale(r)
      BY <3>3 DEF SendStale, Goto, Override, IInv, RequestsOK
    <3> QED BY <2>2, <3>1, <3>2, <3>3
            DEF Step, Begin, BeginWarm, Poll, WaitTimeout, ClaimLost, EnterAcquisition,
                EnterDelivery, Send, row
  <2>3. CASE LockAges \/ Reap
    BY <2>1, <2>3 DEF LockAges, Reap
  <2>4. CASE CatalogLists \/ AdminReset \/ \E newToken \in BOOLEAN : Restart(newToken)
    BY <2>4 DEF CatalogLists, AdminReset, Restart, Override, IInv, CountersOK
  <2> QED BY <2>2, <2>3, <2>4 DEF Next
<1> QED BY <1>1, Invariance, PTL DEF Spec, TerminalStays

\* Every step of the detailed cache is a step of the abstract one, or none.
LEMMA StepCache ==
    ASSUME RowOK, [Next]_vars
    PROVE  [Cache!Next]_(Cache!vars)
<1> USE DEF Cache!vars, Answered, Lease, Cached, Negative
<1>1. CASE UNCHANGED row
  BY <1>1 DEF row
<1>2. ASSUME NEW r \in Requests, Step(r) PROVE [Cache!Next]_(Cache!vars)
  <2>1. CASE Claim(r)
    <3>1. Answered = None /\ Lease # "held" /\ Answered' = None /\ Lease' = "held"
      BY <2>1 DEF Claim, Claimable, RowOK, Statuses
    <3> QED BY <3>1 DEF Cache!Next, Cache!Claim
  <2>2. ASSUME NEW outcome \in Statuses \ {"fetch_in_progress"}, NEW newFile,
               outcome = "paper_available" => newFile = "good", Mark(outcome, newFile)
        PROVE  [Cache!Next]_(Cache!vars)
    <3>1. CASE status = "fetch_in_progress"
      <4>1. Lease # "free" /\ Lease' = "free"
        BY <2>2, <3>1 DEF Mark
      <4>2. Answered' \in {None, "good"} \cup {"paper_not_available", "permanent_failure"}
        BY <2>2, <3>1 DEF Mark, Statuses
      <4> QED BY <4>1, <4>2 DEF Cache!Next, Cache!Settle
    <3>2. CASE status # "fetch_in_progress"
      BY <2>2, <3>2 DEF Mark
    <3> QED BY <3>1, <3>2
  <2>3. CASE Acquire(r)
    BY <2>2, <2>3, <1>1 DEF Acquire, StoredInChannel, StoredInChat, PaperMissing, Statuses,
                            CredentialsQuarantined, ChannelDown, AcquisitionFails
  <2>4. CASE SendStale(r)
    <3>1. status' = "retryable_failure"
      BY <2>4 DEF SendStale
    <3>2. Answered' = None /\ Lease' = "free"
      BY <3>1
    <3>3. Lease = "free" \/ Answered = None
      OBVIOUS
    <3> QED BY <3>2, <3>3 DEF Cache!Next, Cache!Settle, Cache!Forget
  <2> QED BY <1>1, <1>2, <2>1, <2>3, <2>4
          DEF Step, Begin, BeginWarm, Poll, WaitTimeout, ClaimLost, EnterAcquisition,
              EnterDelivery, Send
<1>3. CASE LockAges
  BY <1>3 DEF LockAges, Cache!Next, Cache!Expire
<1>4. CASE Reap \/ CatalogLists \/ AdminReset
  <2>1. status' = "retryable_failure"
    BY <1>4 DEF Reap, CatalogLists, AdminReset
  <2>2. Answered' = None /\ Lease' = "free"
    BY <2>1
  <2>3. Lease = "free" \/ Answered = None
    OBVIOUS
  <2> QED BY <2>2, <2>3 DEF Cache!Next, Cache!Settle, Cache!Forget
<1>5. ASSUME NEW newToken \in BOOLEAN, Restart(newToken) PROVE [Cache!Next]_(Cache!vars)
  <2>1. Lease' = Lease
    BY <1>5 DEF Restart
  <2>2. Answered' = Answered \/ (Answered = "good" /\ Answered' = "dead")
    BY <1>5, NoneAssumption DEF Restart, RowOK
  <2> QED BY <2>1, <2>2 DEF Cache!Next, Cache!Spoil
<1>6. CASE UNCHANGED vars
  BY <1>6, <1>1 DEF vars, row
<1> QED BY <1>2, <1>3, <1>4, <1>5, <1>6 DEF Next

\* The row is a FileCache, its liveness apart: the leases, the marks of whoever holds
\* the row and the resets are those the abstract cache allows.
THEOREM RefinesCache == Spec => Cache!Spec
<1>1. Init => Cache!Init
  BY DEF Init, Cache!Init, Answered, Lease, Cached, Negative
<1>2. RowOK /\ [Next]_vars => [Cache!Next]_(Cache!vars)
  BY StepCache
<1>3. IInv => RowOK
  BY DEF IInv
<1> QED BY <1>1, <1>2, <1>3, Invariance, PTL DEF Spec, Cache!Spec

-----------------------------------------------------------------------------
(* The permits of the semaphores.  A request is cancelled, fails or answers    *)
(* while it holds up to two delivery permits and one for an acquisition; what   *)
(* is held and what is free always add up.                                     *)

\* The permits in the hands of S: a pair for each.
Tokens(S, h) == {t \in S \X {0, 1} : t[2] < h[t[1]]}

LEMMA TokensFinite ==
    ASSUME NEW S, IsFiniteSet(S), NEW h
    PROVE  IsFiniteSet(Tokens(S, h)) /\ Cardinality(Tokens(S, h)) \in Nat
<1>1. IsFiniteSet({0, 1})
  <2>1. {0, 1} = {0} \cup {1} /\ IsFiniteSet({0})
    BY FS_Singleton
  <2> QED BY <2>1, FS_AddElement
<1>2. IsFiniteSet(S \X {0, 1})
  BY <1>1, FS_Product
<1>3. Tokens(S, h) \subseteq S \X {0, 1}
  BY DEF Tokens
<1> QED BY <1>2, <1>3, FS_Subset, FS_CardinalityType

LEMMA TokensTake ==
    ASSUME NEW S, IsFiniteSet(S), NEW h \in [S -> 0..2], NEW r \in S, h[r] \in {0, 1}
    PROVE  Cardinality(Tokens(S, [h EXCEPT ![r] = h[r] + 1])) = Cardinality(Tokens(S, h)) + 1
<1>1. <<r, h[r]>> \notin Tokens(S, h)
  BY DEF Tokens
<1>2. Tokens(S, [h EXCEPT ![r] = h[r] + 1]) = Tokens(S, h) \cup {<<r, h[r]>>}
  BY DEF Tokens
<1> QED BY <1>1, <1>2, TokensFinite, FS_AddElement

LEMMA TokensGive ==
    ASSUME NEW S, IsFiniteSet(S), NEW h \in [S -> 0..2], NEW r \in S
    PROVE  Cardinality(Tokens(S, h)) = Cardinality(Tokens(S, [h EXCEPT ![r] = 0])) + h[r]
<1> DEFINE k == [h EXCEPT ![r] = 0]
           m == [h EXCEPT ![r] = 1]
<1> SUFFICES Cardinality(Tokens(S, h)) = Cardinality(Tokens(S, k)) + h[r]
  OBVIOUS
<1>1. k \in [S -> 0..2] /\ k[r] = 0 /\ m \in [S -> 0..2] /\ m[r] = 1
  OBVIOUS
<1>2. Cardinality(Tokens(S, k)) \in Nat
  BY TokensFinite
<1>3. CASE h[r] = 0
  <2>1. k = h
    BY <1>3
  <2>2. Cardinality(Tokens(S, k)) = Cardinality(Tokens(S, h))
    BY <2>1
  <2> HIDE DEF k
  <2> QED BY <1>2, <1>3, <2>2
<1>4. [k EXCEPT ![r] = k[r] + 1] = m
  OBVIOUS
<1>5. Cardinality(Tokens(S, m)) = Cardinality(Tokens(S, k)) + 1
  <2> HIDE DEF k, m
  <2> QED BY <1>1, <1>4, TokensTake
<1>6. CASE h[r] = 1
  <2>1. h = m
    BY <1>6
  <2> QED BY <1>5, <1>6, <2>1
<1>7. CASE h[r] = 2
  <2>1. [m EXCEPT ![r] = m[r] + 1] = h
    <3>1. m[r] + 1 = 2 /\ [m EXCEPT ![r] = 2] = [h EXCEPT ![r] = 2]
      BY <1>1
    <3>2. [h EXCEPT ![r] = 2] = h
      BY <1>7
    <3> HIDE DEF m
    <3> QED BY <3>1, <3>2
  <2>2. Cardinality(Tokens(S, h)) = Cardinality(Tokens(S, m)) + 1
    <3> HIDE DEF k, m
    <3> QED BY <1>1, <2>1, TokensTake
  <2> QED BY <1>2, <1>5, <1>7, <2>2
<1> QED BY <1>3, <1>6, <1>7

LEMMA TokensNone ==
    ASSUME NEW S
    PROVE  Cardinality(Tokens(S, [r \in S |-> 0])) = 0
<1>1. Tokens(S, [r \in S |-> 0]) = {}
  BY DEF Tokens
<1> QED BY <1>1, FS_EmptySet

PermitsAddUp ==
    /\ Deliveries = freeD + Cardinality(Tokens(Requests, held))
    /\ Acquisitions = freeA + Cardinality(Tokens(Requests, working))

\* Who acquires, or sends what it acquired, holds an acquisition permit, and no one else.
Workers ==
    \A r \in Requests : working[r] = 1 =>
        pc[r] = "acquire" \/ (pc[r] \in {"line", "send"} /\ carried[r] = "good")

\* A request gives all its permits back, takes one, or keeps what it has.
LEMMA PermitSteps ==
    ASSUME [Next]_vars
    PROVE  \/ UNCHANGED permits
           \/ \E r \in Requests : Answer(r) \/ EnterDelivery(r) \/ EnterAcquisition(r)
           \/ \E newToken \in BOOLEAN : Restart(newToken)
<1>1. ASSUME NEW r \in Requests, Step(r)
      PROVE  UNCHANGED permits \/ Answer(r) \/ EnterDelivery(r) \/ EnterAcquisition(r)
  <2>1. CASE Acquire(r)
    BY <2>1 DEF Acquire, StoredInChannel, StoredInChat, PaperMissing, CredentialsQuarantined,
                ChannelDown, AcquisitionFails
  <2>2. CASE Begin(r) \/ BeginWarm(r) \/ Poll(r) \/ WaitTimeout(r) \/ ClaimLost(r)
    BY <2>2 DEF Begin, BeginWarm, Poll, WaitTimeout, ClaimLost, Deliver
  <2>3. CASE Claim(r) \/ Send(r) \/ SendStale(r)
    BY <2>3 DEF Claim, Send, SendStale
  <2> QED BY <1>1, <2>1, <2>2, <2>3 DEF Step
<1>2. CASE LockAges \/ Reap \/ CatalogLists \/ AdminReset \/ UNCHANGED vars
  BY <1>2 DEF LockAges, Reap, CatalogLists, AdminReset, permits, vars
<1> QED BY <1>1, <1>2 DEF Next

LEMMA WorkersStep ==
    ASSUME IInv, Workers, [Next]_vars
    PROVE  Workers'
<1> USE DEF Workers, IInv, RequestsOK
<1>1. ASSUME NEW r \in Requests, Step(r) PROVE Workers'
  <2>1. ASSUME Answer(r) PROVE Workers'
    BY <2>1 DEF Answer
  <2>2. ASSUME pc[r] \in {"idle", "wait", "claim"}, NEW place \in {"claim", "wait", "queue", "line"},
               Goto(r, place), UNCHANGED permits,
               \A s \in Requests \ {r} : carried'[s] = carried[s]
        PROVE  Workers'
    BY <2>2 DEF Goto, permits
  <2>3. CASE Acquire(r)
    <3>1. CASE StoredInChannel(r) /\ r \in Students
      BY <3>1 DEF StoredInChannel, Goto, permits
    <3> QED BY <2>1, <2>3, <3>1 DEF Acquire, StoredInChannel, StoredInChat, PaperMissing,
                CredentialsQuarantined, ChannelDown, AcquisitionFails
  <2>4. CASE Begin(r) \/ BeginWarm(r) \/ Poll(r) \/ WaitTimeout(r) \/ ClaimLost(r) \/ Claim(r)
    BY <2>1, <2>2, <2>4 DEF Begin, BeginWarm, Poll, WaitTimeout, ClaimLost, Claim, Deliver
  <2>5. CASE Send(r)
    BY <2>1, <2>5 DEF Send
  <2>6. CASE SendStale(r) \/ EnterDelivery(r) \/ EnterAcquisition(r)
    BY <2>6 DEF SendStale, EnterDelivery, EnterAcquisition, Goto, permits
  <2> QED BY <1>1, <2>3, <2>4, <2>5, <2>6 DEF Step
<1>2. CASE LockAges \/ Reap \/ CatalogLists \/ AdminReset \/ UNCHANGED vars
  BY <1>2 DEF LockAges, Reap, CatalogLists, AdminReset, permits, vars
<1>3. ASSUME NEW newToken \in BOOLEAN, Restart(newToken) PROVE Workers'
  BY <1>3 DEF Restart
<1> QED BY <1>1, <1>2, <1>3 DEF Next

LEMMA PermitsStep ==
    ASSUME IInv, Workers, PermitsAddUp, [Next]_vars
    PROVE  PermitsAddUp'
<1>1. /\ IsFiniteSet(Requests) /\ held \in [Requests -> 0..2] /\ working \in [Requests -> 0..2]
      /\ freeD \in Nat /\ freeA \in Nat
  <2>1. IsFiniteSet(Requests)
    BY RequestsAssumption, FS_Union DEF Requests
  <2>2. held \in [Requests -> 0..2] /\ working \in [Requests -> {0, 1}] /\ freeD \in Nat /\ freeA \in Nat
    BY DEF IInv, RequestsOK
  <2>3. working \in [Requests -> 0..2]
    BY <2>2
  <2> QED BY <2>1, <2>2, <2>3
<1>2. Cardinality(Tokens(Requests, held)) \in Nat /\ Cardinality(Tokens(Requests, working)) \in Nat
  BY <1>1, TokensFinite
<1>3. CASE UNCHANGED permits
  BY <1>3 DEF PermitsAddUp, permits
<1>4. ASSUME NEW r \in Requests, Answer(r) PROVE PermitsAddUp'
  <2>1. /\ Cardinality(Tokens(Requests, held)) = Cardinality(Tokens(Requests, held')) + held[r]
        /\ Cardinality(Tokens(Requests, working)) = Cardinality(Tokens(Requests, working')) + working[r]
    BY <1>1, <1>4, TokensGive DEF Answer
  <2>2. /\ Cardinality(Tokens(Requests, held')) \in Nat
        /\ Cardinality(Tokens(Requests, working')) \in Nat
    BY <1>1, TokensFinite
  <2>3. held[r] \in Nat /\ working[r] \in Nat
    BY <1>1
  <2> QED BY <1>1, <1>4, <2>1, <2>2, <2>3 DEF PermitsAddUp, Answer
<1>5. ASSUME NEW r \in Requests, EnterDelivery(r) PROVE PermitsAddUp'
  <2>1. held[r] \in {0, 1} /\ held' = [held EXCEPT ![r] = held[r] + 1]
    BY <1>5 DEF EnterDelivery, IInv, Depth, Once
  <2>2. Cardinality(Tokens(Requests, held')) = Cardinality(Tokens(Requests, held)) + 1
    BY <1>1, <2>1, TokensTake
  <2> QED BY <1>1, <1>2, <1>5, <2>2 DEF PermitsAddUp, EnterDelivery
<1>6. ASSUME NEW r \in Requests, EnterAcquisition(r) PROVE PermitsAddUp'
  <2>1. working[r] = 0
    BY <1>6 DEF EnterAcquisition, Workers, IInv, RequestsOK
  <2>2. working[r] \in {0, 1} /\ working' = [working EXCEPT ![r] = working[r] + 1]
    BY <1>6, <2>1 DEF EnterAcquisition
  <2>3. Cardinality(Tokens(Requests, working')) = Cardinality(Tokens(Requests, working)) + 1
    BY <1>1, <2>2, TokensTake
  <2> QED BY <1>1, <1>2, <1>6, <2>3 DEF PermitsAddUp, EnterAcquisition
<1>7. ASSUME NEW newToken \in BOOLEAN, Restart(newToken) PROVE PermitsAddUp'
  BY <1>7, TokensNone, BoundsAssumption DEF PermitsAddUp, Restart
<1> QED BY <1>3, <1>4, <1>5, <1>6, <1>7, PermitSteps

\* No permit of the delivery or the acquisition semaphore is lost or made up, by an error,
\* a timeout, a recovered file or a restart: qpaper_service's "async with" blocks, one inside
\* the other when a request recovers, give back what was taken.
THEOREM PermitsConserved == Spec => []PermitsAddUp
<1>1. Init => Workers /\ PermitsAddUp
  <2> SUFFICES ASSUME Init PROVE Workers /\ PermitsAddUp
    OBVIOUS
  <2>1. Workers
    BY DEF Init, Workers
  <2> QED BY <2>1, TokensNone, BoundsAssumption DEF Init, PermitsAddUp
<1>2. IInv /\ Workers /\ PermitsAddUp /\ [Next]_vars => Workers' /\ PermitsAddUp'
  BY WorkersStep, PermitsStep
<1> QED BY <1>1, <1>2, Invariance, PTL DEF Spec

-----------------------------------------------------------------------------
(* The attachments of notices: their cache shares the code's shape, and here   *)
(* the names of the variables and constants, with that of the papers.           *)

VARIABLE recovers       \* of each request: a rejected file is recovered from
Notices == INSTANCE Attachment

NoticeRowOK ==
    /\ status \in Notices!Statuses /\ file \in {None, "good", "dead"}
    /\ lock \in {None, "fresh", "stale", "dead"} /\ attempts \in 0..PermanentAfter
    /\ (file # None) <=> (status = "available")
    /\ (lock # None) <=> (status = "fetch_in_progress")

NoticeTapsOK ==
    /\ pc \in [Students -> Notices!Places] /\ carried \in [Students -> {None, "good", "dead"}]
    /\ recovers \in [Students -> BOOLEAN]
    /\ held \in [Students -> 0..2] /\ working \in [Students -> {0, 1}]
    /\ freeD \in Nat /\ freeA \in Nat /\ restarts \in 0..Restarts
    /\ \A r \in Students : (carried[r] # None) <=> (pc[r] \in {"line", "send"})

\* A request takes a second delivery permit only for a file it does not recover from, and
\* an acquisition permit goes with it only to such a file.
NoticeOnce(r) ==
    /\ pc[r] \in {"idle", "done", "insert", "read"} => held[r] = 0
    /\ pc[r] # "send" => held[r] \in {0, 1}
    /\ recovers[r] => \/ pc[r] = "line" /\ held[r] = 0
                      \/ pc[r] = "send" /\ held[r] = 1
    /\ working[r] = 1 => pc[r] \in {"acquire", "line", "send"} /\ ~recovers[r]

NoticePermits ==
    /\ Deliveries = freeD + Cardinality(Tokens(Students, held))
    /\ Acquisitions = freeA + Cardinality(Tokens(Students, working))

NoticeInv ==
    NoticeRowOK /\ NoticeTapsOK /\ (\A r \in Students : NoticeOnce(r)) /\ NoticePermits

LEMMA NoticeTypes == NoticeInv => Notices!TypeOK
<1> SUFFICES ASSUME NoticeInv PROVE Notices!TypeOK
  OBVIOUS
<1>1. IsFiniteSet(Students)
  BY RequestsAssumption
<1>2. freeD \in 0..Deliveries /\ freeA \in 0..Acquisitions
  <2>1. /\ Cardinality(Tokens(Students, held)) \in Nat
        /\ Cardinality(Tokens(Students, working)) \in Nat
    BY <1>1, TokensFinite
  <2>2. freeD \in Nat /\ freeA \in Nat
    BY DEF NoticeInv, NoticeTapsOK
  <2> QED BY <2>1, <2>2 DEF NoticeInv, NoticePermits
<1> QED BY <1>2 DEF NoticeInv, NoticeRowOK, NoticeTapsOK, Notices!TypeOK

\* Every step, as far as the row goes.
LEMMA NoticeRowStep ==
    ASSUME NoticeRowOK, [Notices!Next]_(Notices!vars)
    PROVE  NoticeRowOK'
<1> USE BoundsAssumption, NoneAssumption DEF NoticeRowOK, Notices!Statuses
<1>1. CASE UNCHANGED Notices!row
  BY <1>1 DEF Notices!row
<1>2. ASSUME NEW r \in Students, Notices!Step(r) PROVE NoticeRowOK'
  <2>1. CASE Notices!Acquire(r)
    <3>1. CASE Notices!Mark("available", "good")
      BY <3>1 DEF Notices!Mark
    <3>2. CASE \E outcome \in {"not_available", "retryable_failure", "permanent_failure"} :
                   Notices!Mark(outcome, file)
      BY <3>2 DEF Notices!Mark
    <3> QED BY <2>1, <3>1, <3>2 DEF Notices!Acquire, Notices!StoredInChannel, Notices!StoredInChat,
                Notices!FileMissing, Notices!AcquisitionFails
  <2>2. CASE Notices!InsertRow(r)
    BY <2>2 DEF Notices!InsertRow
  <2>3. CASE Notices!Claim(r)
    <3>1. file = None /\ attempts' \in 0..PermanentAfter
      BY <2>3 DEF Notices!Claim, Notices!Claimable
    <3> QED BY <2>3, <3>1 DEF Notices!Claim
  <2>4. CASE Notices!SendStale(r)
    BY <2>4 DEF Notices!SendStale
  <2> QED BY <1>1, <1>2, <2>1, <2>2, <2>3, <2>4
          DEF Notices!Step, Notices!Begin, Notices!Poll, Notices!WaitTimeout, Notices!ClaimLost,
              Notices!EnterAcquisition, Notices!EnterDelivery, Notices!Send
<1>3. CASE Notices!LockAges \/ Notices!Reap
  BY <1>3 DEF Notices!LockAges, Notices!Reap
<1>4. ASSUME NEW newToken \in BOOLEAN, Notices!Restart(newToken) PROVE NoticeRowOK'
  BY <1>4 DEF Notices!Restart
<1>5. ASSUME NEW r \in Students, Notices!Refused(r) \/ Notices!FindRow(r) \/ Notices!TimedOut(r)
      PROVE  NoticeRowOK'
  BY <1>1, <1>5 DEF Notices!Refused, Notices!FindRow, Notices!TimedOut
<1>6. CASE UNCHANGED Notices!vars
  BY <1>6 DEF Notices!vars
<1> QED BY <1>2, <1>3, <1>4, <1>5, <1>6 DEF Notices!Next

\* Every step of the attachment's row is a step of the abstract cache, or none.
LEMMA NoticeCacheStep ==
    ASSUME NoticeRowOK, [Notices!Next]_(Notices!vars)
    PROVE  [Notices!Cache!Next]_(Notices!Cache!vars)
<1> USE DEF Notices!Cache!vars, Notices!Answered, Notices!Lease, Notices!Cached, Notices!Negative
<1> DEFINE Goal == [Notices!Cache!Next]_(Notices!Cache!vars)
<1>1. CASE UNCHANGED <<status, file, lock>>
  BY <1>1
<1>2. ASSUME NEW r \in Students, Notices!Step(r) PROVE Goal
  <2>1. ASSUME NEW outcome \in {"available", "not_available", "retryable_failure", "permanent_failure"},
               NEW newFile, outcome = "available" => newFile = "good", Notices!Mark(outcome, newFile)
        PROVE  Goal
    <3>1. CASE status = "fetch_in_progress"
      <4>1. Notices!Lease # "free" /\ Notices!Lease' = "free"
        BY <2>1, <3>1 DEF Notices!Mark
      <4>2. Notices!Answered' \in {None, "good"} \cup {"not_available", "permanent_failure"}
        BY <2>1, <3>1 DEF Notices!Mark
      <4> QED BY <4>1, <4>2 DEF Notices!Cache!Next, Notices!Cache!Settle
    <3>2. CASE status # "fetch_in_progress"
      BY <2>1, <3>2 DEF Notices!Mark
    <3> QED BY <3>1, <3>2
  <2>2. CASE Notices!Acquire(r)
    BY <2>1, <2>2 DEF Notices!Acquire, Notices!StoredInChannel, Notices!StoredInChat,
                Notices!FileMissing, Notices!AcquisitionFails
  <2>3. CASE Notices!InsertRow(r)
    BY <1>1, <2>3 DEF Notices!InsertRow
  <2>4. CASE Notices!Claim(r)
    <3>1. /\ Notices!Answered = None /\ Notices!Lease # "held"
          /\ Notices!Answered' = None /\ Notices!Lease' = "held"
      BY <2>4 DEF Notices!Claim, Notices!Claimable, NoticeRowOK
    <3> QED BY <3>1 DEF Notices!Cache!Next, Notices!Cache!Claim
  <2>5. CASE Notices!SendStale(r)
    <3>1. Notices!Answered' = None /\ Notices!Lease' = "free"
      BY <2>5 DEF Notices!SendStale
    <3>2. Notices!Lease = "free" \/ Notices!Answered = None
      OBVIOUS
    <3> QED BY <3>1, <3>2 DEF Notices!Cache!Next, Notices!Cache!Settle, Notices!Cache!Forget
  <2> QED BY <1>1, <1>2, <2>2, <2>3, <2>4, <2>5
          DEF Notices!Step, Notices!Begin, Notices!Poll, Notices!WaitTimeout, Notices!ClaimLost,
              Notices!EnterAcquisition, Notices!EnterDelivery, Notices!Send, Notices!row
<1>3. CASE Notices!LockAges
  BY <1>3 DEF Notices!LockAges, Notices!Cache!Next, Notices!Cache!Expire
<1>4. CASE Notices!Reap
  <2>1. /\ Notices!Answered = None /\ Notices!Lease # "free"
        /\ Notices!Answered' = None /\ Notices!Lease' = "free"
    BY <1>4 DEF Notices!Reap
  <2> QED BY <2>1 DEF Notices!Cache!Next, Notices!Cache!Settle
<1>5. ASSUME NEW newToken \in BOOLEAN, Notices!Restart(newToken) PROVE Goal
  <2>1. Notices!Lease' = Notices!Lease
    BY <1>5 DEF Notices!Restart
  <2>2. \/ Notices!Answered' = Notices!Answered
        \/ Notices!Answered = "good" /\ Notices!Answered' = "dead"
    BY <1>5, NoneAssumption DEF Notices!Restart, NoticeRowOK
  <2> QED BY <2>1, <2>2 DEF Notices!Cache!Next, Notices!Cache!Spoil
<1>6. ASSUME NEW r \in Students, Notices!Refused(r) \/ Notices!FindRow(r) \/ Notices!TimedOut(r)
      PROVE  Goal
  BY <1>1, <1>6 DEF Notices!Refused, Notices!FindRow, Notices!TimedOut, Notices!row
<1>7. CASE UNCHANGED Notices!vars
  BY <1>1, <1>7 DEF Notices!vars
<1> QED BY <1>2, <1>3, <1>4, <1>5, <1>6, <1>7 DEF Notices!Next

\* The refinement, its liveness apart: attachment_service's marks, claims and resets of the
\* row, its failures counted or not, are those the abstract cache allows.
THEOREM NoticesRefineCache == Notices!Spec => Notices!Cache!Spec
<1>1. Notices!Init => NoticeRowOK /\ Notices!Cache!Init
  BY BoundsAssumption, NoneAssumption
     DEF Notices!Init, NoticeRowOK, Notices!Statuses, Notices!Cache!Init, Notices!Answered,
         Notices!Lease, Notices!Cached, Notices!Negative
<1>2. NoticeRowOK /\ [Notices!Next]_(Notices!vars) =>
          NoticeRowOK' /\ [Notices!Cache!Next]_(Notices!Cache!vars)
  BY NoticeRowStep, NoticeCacheStep
<1> QED BY <1>1, <1>2, PTL DEF Notices!Spec, Notices!Cache!Spec

\* The taps: a request is answered or cancelled, moves on, or takes a permit.
LEMMA NoticeTapsStep ==
    ASSUME NoticeRowOK, NoticeTapsOK, \A r \in Students : NoticeOnce(r),
           [Notices!Next]_(Notices!vars)
    PROVE  NoticeTapsOK' /\ (\A r \in Students : NoticeOnce(r))'
<1> USE BoundsAssumption, NoneAssumption DEF NoticeTapsOK, Notices!Places, NoticeOnce
<1> DEFINE Goal == NoticeTapsOK' /\ (\A r \in Students : NoticeOnce(r))'
<1>1. ASSUME NEW r \in Students, Notices!Answer(r), UNCHANGED restarts PROVE Goal
  <2>1. freeD' \in Nat /\ freeA' \in Nat
    BY <1>1 DEF Notices!Answer
  <2> QED BY <1>1, <2>1 DEF Notices!Answer
<1>2. ASSUME NEW r \in Students, pc[r] \notin {"line", "send"}, ~recovers[r], working[r] = 0,
             NEW place \in {"insert", "read", "claim", "queue", "wait"},
             place \in {"insert", "read"} => held[r] = 0,
             Notices!Move(r, place), UNCHANGED restarts
      PROVE  Goal
  BY <1>2 DEF Notices!Move, Notices!Goto, Notices!permits
<1>3. ASSUME NEW r \in Students, NEW withRecover \in BOOLEAN, pc[r] \in {"read", "wait"},
             withRecover => pc[r] = "read",
             Notices!Cached, Notices!Deliver(r, withRecover), UNCHANGED restarts
      PROVE  Goal
  BY <1>3 DEF Notices!Deliver, Notices!Cached, Notices!Goto, Notices!permits, NoticeRowOK
<1>4. ASSUME NEW r \in Students, Notices!Step(r) PROVE Goal
  <2>1. CASE Notices!InsertRow(r) \/ Notices!ClaimLost(r) \/ Notices!Claim(r)
    BY <1>2, <2>1 DEF Notices!InsertRow, Notices!ClaimLost, Notices!Claim
  <2>2. CASE Notices!Begin(r)
    BY <1>1, <1>2, <1>3, <2>2 DEF Notices!Begin
  <2>3. CASE Notices!Poll(r) \/ Notices!WaitTimeout(r)
    BY <1>1, <1>3, <2>3 DEF Notices!Poll, Notices!WaitTimeout
  <2>4. CASE Notices!EnterAcquisition(r)
    BY <2>4 DEF Notices!EnterAcquisition, Notices!Goto
  <2>5. CASE Notices!StoredInChannel(r)
    BY <2>5 DEF Notices!StoredInChannel, Notices!Goto, Notices!Mark, Notices!permits
  <2>6. CASE Notices!StoredInChat(r) \/ Notices!FileMissing(r) \/ Notices!AcquisitionFails(r)
    BY <1>1, <2>6 DEF Notices!StoredInChat, Notices!FileMissing, Notices!AcquisitionFails, Notices!Mark
  <2>7. CASE Notices!EnterDelivery(r)
    BY <2>7 DEF Notices!EnterDelivery, Notices!Goto
  <2>8. CASE Notices!Send(r)
    BY <1>1, <2>8 DEF Notices!Send
  <2>9. CASE Notices!SendStale(r)
    <3>1. CASE recovers[r]
      <4>1. /\ pc[r] = "send" /\ held[r] = 1 /\ working[r] = 0
            /\ pc' = [pc EXCEPT ![r] = "claim"] /\ carried' = [carried EXCEPT ![r] = None]
            /\ recovers' = [recovers EXCEPT ![r] = FALSE]
            /\ UNCHANGED <<held, working, freeD, freeA, restarts>>
        BY <2>9, <3>1 DEF Notices!SendStale, Notices!Goto, Notices!permits
      <4>2. NoticeTapsOK'
        BY <4>1
      <4>3. (\A s \in Students : NoticeOnce(s))'
        BY <4>1
      <4> QED BY <4>2, <4>3
    <3> QED BY <1>1, <2>9, <3>1 DEF Notices!SendStale
  <2> QED BY <1>4, <2>1, <2>2, <2>3, <2>4, <2>5, <2>6, <2>7, <2>8, <2>9
          DEF Notices!Step, Notices!Acquire
<1>5. CASE Notices!LockAges \/ Notices!Reap \/ UNCHANGED Notices!vars
  BY <1>5 DEF Notices!LockAges, Notices!Reap, Notices!permits, Notices!vars
<1>6. ASSUME NEW newToken \in BOOLEAN, Notices!Restart(newToken) PROVE Goal
  BY <1>6 DEF Notices!Restart
<1>7. ASSUME NEW r \in Students, Notices!Refused(r) \/ Notices!FindRow(r) \/ Notices!TimedOut(r)
      PROVE  Goal
  BY <1>1, <1>2, <1>7 DEF Notices!Refused, Notices!FindRow, Notices!TimedOut
<1> QED BY <1>4, <1>5, <1>6, <1>7 DEF Notices!Next

\* A tap gives all its permits back, takes one, or keeps what it has.
LEMMA NoticePermitSteps ==
    ASSUME [Notices!Next]_(Notices!vars)
    PROVE  \/ UNCHANGED permits
           \/ \E r \in Students :
                  Notices!Answer(r) \/ Notices!EnterDelivery(r) \/ Notices!EnterAcquisition(r)
           \/ \E newToken \in BOOLEAN : Notices!Restart(newToken)
<1> USE DEF permits, Notices!permits
<1>1. ASSUME NEW r \in Students, Notices!Step(r)
      PROVE  \/ UNCHANGED permits
             \/ Notices!Answer(r) \/ Notices!EnterDelivery(r) \/ Notices!EnterAcquisition(r)
  <2>1. CASE Notices!Acquire(r)
    BY <2>1 DEF Notices!Acquire, Notices!StoredInChannel, Notices!StoredInChat,
                Notices!FileMissing, Notices!AcquisitionFails
  <2>2. CASE Notices!Begin(r) \/ Notices!Poll(r) \/ Notices!WaitTimeout(r)
    BY <2>2 DEF Notices!Begin, Notices!Poll, Notices!WaitTimeout, Notices!Deliver, Notices!Move
  <2>3. CASE Notices!InsertRow(r) \/ Notices!ClaimLost(r) \/ Notices!Claim(r)
    BY <2>3 DEF Notices!InsertRow, Notices!ClaimLost, Notices!Claim, Notices!Move
  <2>4. CASE Notices!Send(r) \/ Notices!SendStale(r)
    BY <2>4 DEF Notices!Send, Notices!SendStale
  <2> QED BY <1>1, <2>1, <2>2, <2>3, <2>4 DEF Notices!Step
<1>2. CASE Notices!LockAges \/ Notices!Reap \/ UNCHANGED Notices!vars
  BY <1>2 DEF Notices!LockAges, Notices!Reap, Notices!vars
<1>3. ASSUME NEW r \in Students, Notices!Refused(r) \/ Notices!FindRow(r) \/ Notices!TimedOut(r)
      PROVE  UNCHANGED permits \/ Notices!Answer(r)
  BY <1>3 DEF Notices!Refused, Notices!FindRow, Notices!TimedOut, Notices!Move
<1> QED BY <1>1, <1>2, <1>3 DEF Notices!Next

LEMMA NoticePermitsStep ==
    ASSUME NoticeTapsOK, \A r \in Students : NoticeOnce(r), NoticePermits,
           [Notices!Next]_(Notices!vars)
    PROVE  NoticePermits'
<1>1. /\ IsFiniteSet(Students) /\ held \in [Students -> 0..2] /\ working \in [Students -> 0..2]
      /\ freeD \in Nat /\ freeA \in Nat
  <2>1. held \in [Students -> 0..2] /\ working \in [Students -> {0, 1}] /\ freeD \in Nat /\ freeA \in Nat
    BY DEF NoticeTapsOK
  <2>2. working \in [Students -> 0..2]
    BY <2>1
  <2> QED BY RequestsAssumption, <2>1, <2>2
<1>2. Cardinality(Tokens(Students, held)) \in Nat /\ Cardinality(Tokens(Students, working)) \in Nat
  BY <1>1, TokensFinite
<1>3. CASE UNCHANGED permits
  BY <1>3 DEF NoticePermits, permits
<1>4. ASSUME NEW r \in Students, Notices!Answer(r) PROVE NoticePermits'
  <2>1. /\ Cardinality(Tokens(Students, held)) = Cardinality(Tokens(Students, held')) + held[r]
        /\ Cardinality(Tokens(Students, working)) = Cardinality(Tokens(Students, working')) + working[r]
    BY <1>1, <1>4, TokensGive DEF Notices!Answer
  <2>2. /\ Cardinality(Tokens(Students, held')) \in Nat
        /\ Cardinality(Tokens(Students, working')) \in Nat
    BY <1>1, TokensFinite
  <2>3. held[r] \in Nat /\ working[r] \in Nat
    BY <1>1
  <2> QED BY <1>1, <1>4, <2>1, <2>2, <2>3 DEF NoticePermits, Notices!Answer
<1>5. ASSUME NEW r \in Students, Notices!EnterDelivery(r) PROVE NoticePermits'
  <2>1. held[r] \in {0, 1} /\ held' = [held EXCEPT ![r] = held[r] + 1]
    BY <1>5 DEF Notices!EnterDelivery, NoticeOnce
  <2>2. Cardinality(Tokens(Students, held')) = Cardinality(Tokens(Students, held)) + 1
    BY <1>1, <2>1, TokensTake
  <2> QED BY <1>1, <1>2, <1>5, <2>2 DEF NoticePermits, Notices!EnterDelivery
<1>6. ASSUME NEW r \in Students, Notices!EnterAcquisition(r) PROVE NoticePermits'
  <2>1. working[r] = 0
    BY <1>6 DEF Notices!EnterAcquisition, NoticeOnce, NoticeTapsOK
  <2>2. working[r] \in {0, 1} /\ working' = [working EXCEPT ![r] = working[r] + 1]
    BY <1>6, <2>1 DEF Notices!EnterAcquisition
  <2>3. Cardinality(Tokens(Students, working')) = Cardinality(Tokens(Students, working)) + 1
    BY <1>1, <2>2, TokensTake
  <2> QED BY <1>1, <1>2, <1>6, <2>3 DEF NoticePermits, Notices!EnterAcquisition
<1>7. ASSUME NEW newToken \in BOOLEAN, Notices!Restart(newToken) PROVE NoticePermits'
  BY <1>7, TokensNone, BoundsAssumption DEF NoticePermits, Notices!Restart
<1> QED BY <1>3, <1>4, <1>5, <1>6, <1>7, NoticePermitSteps

\* The variables of the attachment cache keep their types; the counts of its two semaphores
\* stay within them because attachment_service's "async with" blocks, one inside the other
\* when a request recovers, give back what was taken, cancelled by the handler or not.
THEOREM NoticesTypeCorrect == Notices!Spec => []Notices!TypeOK
<1>1. Notices!Init => NoticeInv
  <2> SUFFICES ASSUME Notices!Init PROVE NoticeInv
    OBVIOUS
  <2>1. NoticeRowOK /\ NoticeTapsOK /\ \A r \in Students : NoticeOnce(r)
    BY BoundsAssumption, NoneAssumption
       DEF Notices!Init, NoticeRowOK, NoticeTapsOK, NoticeOnce, Notices!Statuses, Notices!Places
  <2>2. NoticePermits
    BY TokensNone, BoundsAssumption DEF Notices!Init, NoticePermits
  <2> QED BY <2>1, <2>2 DEF NoticeInv
<1>2. NoticeInv /\ [Notices!Next]_(Notices!vars) => NoticeInv'
  <2> SUFFICES ASSUME NoticeInv, [Notices!Next]_(Notices!vars) PROVE NoticeInv'
    OBVIOUS
  <2> QED BY NoticeRowStep, NoticeTapsStep, NoticePermitsStep DEF NoticeInv
<1> QED BY <1>1, <1>2, NoticeTypes, PTL DEF Notices!Spec

=============================================================================
