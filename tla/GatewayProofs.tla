--------------------------- MODULE GatewayProofs ---------------------------
(***************************************************************************)
(* What the runs of Gateway.tla show for small instances, proved for every  *)
(* set of callers, cap, reserve, threshold and burst.                       *)
(***************************************************************************)
EXTENDS Gateway, FiniteSetTheorems, SequenceTheorems, WellFoundedInduction, TLAPS

-----------------------------------------------------------------------------
(* Operators of the model.                                                  *)

Phases == Outside \cup Pausing \cup Holding

\* A slot that _dispatch_tokens() pops exists.
LEMMA TurnInRange ==
    ASSUME NEW q \in Seq(Callers), q # <<>>
    PROVE  Turn(q) \in 1..Len(q)
<1> DEFINE first == {i \in DOMAIN q : /\ q[i] \in Interactive
                                      /\ \A j \in 1..(i - 1) : q[j] \notin Interactive}
<1>1. 1 \in 1..Len(q)
  BY EmptySeq
<1>2. CASE first = {}
  BY <1>1, <1>2 DEF Turn
<1>3. CASE first # {}
  BY <1>3 DEF Turn
<1> QED BY <1>2, <1>3

LEMMA RemoveAtSeq ==
    ASSUME NEW q \in Seq(Callers), NEW i \in 1..Len(q)
    PROVE  /\ RemoveAt(q, i) \in Seq(Callers)
           /\ Len(RemoveAt(q, i)) = Len(q) - 1
<1> DEFINE a == SubSeq(q, 1, i - 1)
           b == SubSeq(q, i + 1, Len(q))
<1>1. a \in Seq(Callers) /\ Len(a) = i - 1
  OBVIOUS
<1>2. b \in Seq(Callers) /\ Len(b) = Len(q) - i
  OBVIOUS
<1>3. a \o b \in Seq(Callers) /\ Len(a \o b) = Len(a) + Len(b)
  <2> HIDE DEF a, b
  <2> QED BY <1>1, <1>2, ConcatProperties
<1>4. RemoveAt(q, i) = a \o b
  BY DEF RemoveAt
<1>5. Len(q) \in Nat /\ i \in Nat
  BY LenProperties
<1>6. a \o b \in Seq(Callers) /\ Len(a \o b) = Len(q) - 1
  <2> HIDE DEF a, b
  <2> QED BY <1>1, <1>2, <1>3, <1>5
<1> QED BY <1>4, <1>6

\* Dispatching keeps the bucket and the queue well formed, and never leaves a
\* token beside a waiter if at most one of the two was there before.
LEMMA DispatchProperties ==
    ASSUME NEW q \in Seq(Callers), NEW t \in 0..Burst, Burst \in Nat,
           Dispatch(q, t)
    PROVE  /\ tokens' \in 0..Burst
           /\ paceQueue' \in Seq(Callers)
           /\ (t <= 1 \/ Len(q) <= 1) => (tokens' = 0 \/ paceQueue' = <<>>)
<1>1. CASE t > 0 /\ q # <<>>
  <2>1. Turn(q) \in 1..Len(q)
    BY <1>1, TurnInRange
  <2>2. /\ RemoveAt(q, Turn(q)) \in Seq(Callers)
        /\ Len(RemoveAt(q, Turn(q))) = Len(q) - 1
    BY <2>1, RemoveAtSeq
  <2>3. tokens' = t - 1 /\ paceQueue' = RemoveAt(q, Turn(q))
    BY <1>1 DEF Dispatch
  <2>4. Len(q) <= 1 => paceQueue' = <<>>
    BY <2>1, <2>2, <2>3, EmptySeq
  <2> QED BY <1>1, <2>2, <2>3, <2>4
<1>2. CASE ~(t > 0 /\ q # <<>>)
  BY <1>2 DEF Dispatch
<1> QED BY <1>1, <1>2

\* notify_all() moves sleepers only, and leaves nobody asleep.
LEMMA NotifyAllProperties ==
    ASSUME NEW status \in [Callers -> Phases]
    PROVE  /\ NotifyAll(status) \in [Callers -> Phases]
           /\ \A c \in Callers : /\ NotifyAll(status)[c] \in Holding <=> status[c] \in Holding
                                 /\ NotifyAll(status)[c] \notin {"waiting", "rewaiting", "unwinding"}
<1> QED BY DEF NotifyAll, Phases, Outside, Pausing, Unwinding, Holding, Ending

-----------------------------------------------------------------------------
(* The inductive invariant.                                                 *)

IInv == TypeOK /\ SlotConservation /\ NoLostWakeup /\ NoIdleToken

\* One task more, or one fewer, that holds a slot.
LEMMA HoldersGain ==
    ASSUME NEW c \in Callers, c \notin Holders, Holders' = Holders \cup {c}
    PROVE  Cardinality(Holders') = Cardinality(Holders) + 1
<1>1. IsFiniteSet(Holders)
  BY FS_Subset, CallersAssumption DEF Holders
<1> QED BY <1>1, FS_AddElement

LEMMA HoldersLoss ==
    ASSUME NEW c \in Callers, c \in Holders, Holders' = Holders \ {c}
    PROVE  /\ Cardinality(Holders') = Cardinality(Holders) - 1
           /\ Cardinality(Holders) > 0
<1>1. IsFiniteSet(Holders)
  BY FS_Subset, CallersAssumption DEF Holders
<1>2. Cardinality(Holders \ {c}) = Cardinality(Holders) - 1
  BY <1>1, FS_RemoveElement
<1>3. Cardinality(Holders) \in Nat /\ Cardinality(Holders) # 0
  BY <1>1, FS_CardinalityType, FS_EmptySet
<1> QED BY <1>2, <1>3

LEMMA HoldersNat == Cardinality(Holders) \in Nat
<1> QED BY FS_Subset, FS_CardinalityType, CallersAssumption DEF Holders

\* At the start no slot is taken and nobody waits.
LEMMA InitInv == Init => IInv
<1> SUFFICES ASSUME Init PROVE IInv
  OBVIOUS
<1>1. TypeOK
  <2>1. paceQueue \in Seq(Callers)
    BY EmptySeq DEF Init
  <2>2. ErrorCeil \in Nat
    BY BreakerAssumption DEF ErrorCeil
  <2>3. isProbe \in [Callers -> BOOLEAN] /\ cooled \in BOOLEAN /\ probeInFlight \in BOOLEAN
    BY DEF Init
  <2>4. (cooled => circuit = "open")
    BY DEF Init
  <2>5. pc \in [Callers -> Outside \cup Pausing \cup Holding]
    BY DEF Init, Outside
  <2>6. logins \in [Callers -> 0..MaxLogins]
    BY LoginAssumption DEF Init
  <2> QED
    BY <2>1, <2>2, <2>3, <2>4, <2>5, <2>6, CapacityAssumption, BreakerAssumption,
       LoginAssumption
    DEF Init, TypeOK
<1>2. SlotConservation
  <2>1. Holders = {}
    BY DEF Init, Holders, Holding, Ending
  <2> QED BY <2>1, FS_EmptySet DEF Init, SlotConservation
<1>3. NoLostWakeup /\ NoIdleToken
  BY DEF Init, NoLostWakeup, HasRoom, NoIdleToken
<1> QED BY <1>1, <1>2, <1>3 DEF IInv

\* A step in which nobody gains room and no finally block runs loses no wakeup.
LEMMA WakeupFrame ==
    ASSUME NoLostWakeup,
           \A d \in Callers : HasRoom(d)' => HasRoom(d),
           \A d \in Callers : pc[d] \in Ending => pc'[d] \in Ending
    PROVE  NoLostWakeup'
<1> QED BY DEF NoLostWakeup

\* The limit of either class lies between one and the cap.
LEMMA LimitInRange ==
    ASSUME NEW c \in Callers, cap \in 1..MaxConcurrent
    PROVE  Limit(c) \in 1..cap
<1> QED BY CapacityAssumption DEF Limit

LEMMA ErrorCeilNat == ErrorCeil \in Nat /\ ErrorCeil > 0
<1> QED BY BreakerAssumption DEF ErrorCeil

\* What an outcome does to the breaker and the cap: RecordError keeps both in
\* range and never widens the cap.
LEMMA RecordErrorType ==
    ASSUME TypeOK, RecordError
    PROVE  /\ circuit' \in {"closed", "open", "half_open"}
           /\ cooled' = cooled /\ (cooled' => circuit' = "open")
           /\ probeInFlight' = probeInFlight
           /\ errors' \in 0..ErrorCeil
           /\ successes' \in 0..(RecoverAfter - 1)
           /\ cap' \in 1..cap
<1>1. CASE circuit = "half_open"
  BY <1>1 DEF RecordError, TypeOK, adaption
<1>2. CASE circuit # "half_open"
  BY <1>2, ErrorCeilNat, CapacityAssumption, BreakerAssumption
  DEF RecordError, TypeOK
<1> QED BY <1>1, <1>2

\* An outcome leaves TypeOK, the slot and every sleeper as they were: the four
\* parts of the invariant need only what Leave and the outcome say of the cap.
LEMMA LeaveInv ==
    ASSUME IInv, NEW c \in Callers, NEW from \in SUBSET {"body", "login"},
           NEW to \in Ending, Leave(c, from, to),
           circuit' \in {"closed", "open", "half_open"},
           cooled' = cooled, cooled' => circuit' = "open",
           probeInFlight' \in BOOLEAN,
           errors' \in 0..ErrorCeil, successes' \in 0..(RecoverAfter - 1),
           cap' \in 1..MaxConcurrent
    PROVE  IInv'
<1> USE DEF IInv
<1>1. TypeOK'
  BY DEF TypeOK, Leave, pacing, Holding
<1>2. SlotConservation'
  <2>1. Holders' = Holders
    BY DEF TypeOK, Leave, Holders, Holding, Ending
  <2> QED BY <2>1 DEF SlotConservation, Leave
<1>3. NoLostWakeup'
  <2>1. pc'[c] \in Ending
    BY DEF Leave, TypeOK
  <2> QED BY <2>1 DEF NoLostWakeup
<1>4. NoIdleToken'
  BY DEF NoIdleToken, Leave, pacing
<1> QED BY <1>1, <1>2, <1>3, <1>4

\* A task that gives its slot back and notifies keeps the invariant.
LEMMA ReturnsSlot ==
    ASSUME IInv, NEW c \in Callers, NEW to \in {"idle", "pacing"},
           pc[c] \in Holding,
           pc' = NotifyAll([pc EXCEPT ![c] = to]),
           active' = active - 1 \/ (active' = active /\ active <= 0),
           doubled' = doubled
    PROVE  /\ active' \in Int /\ active' <= MaxConcurrent
           /\ pc' \in [Callers -> Outside \cup Pausing \cup Holding]
           /\ SlotConservation'
           /\ NoLostWakeup'
<1> USE DEF IInv
<1> DEFINE status == [pc EXCEPT ![c] = to]
<1>1. status \in [Callers -> Phases]
  BY DEF TypeOK, Phases, Outside, Pausing
<1>2. /\ pc' \in [Callers -> Phases]
      /\ \A d \in Callers : /\ pc'[d] \in Holding <=> status[d] \in Holding
                            /\ pc'[d] \notin {"waiting", "rewaiting", "unwinding"}
  <2> HIDE DEF status
  <2>1. pc' = NotifyAll(status)
    BY DEF status
  <2> QED BY <1>1, <2>1, NotifyAllProperties
<1>3. c \in Holders
  BY DEF Holders
<1>4. Holders' = Holders \ {c}
  <2>1. \A d \in Callers : status[d] \in Holding <=> (d # c /\ pc[d] \in Holding)
    BY DEF TypeOK, Holding, Ending
  <2> QED BY <1>2, <2>1 DEF Holders
<1>5. /\ Cardinality(Holders') = Cardinality(Holders) - 1
      /\ Cardinality(Holders) > 0
  BY <1>3, <1>4, HoldersLoss
<1>6. SlotConservation' /\ active' \in Int /\ active' <= MaxConcurrent
  <2>1. active \in Int /\ active <= MaxConcurrent /\ doubled \in Nat
    BY DEF TypeOK
  <2>2. active' <= Cardinality(Holders')
    BY <1>5, <2>1, HoldersNat DEF SlotConservation
  <2>3. Cardinality(Holders') <= active' + doubled'
    BY <1>5, <2>1, HoldersNat DEF SlotConservation
  <2> QED BY <2>1, <2>2, <2>3, CapacityAssumption DEF SlotConservation
<1>7. NoLostWakeup'
  BY <1>2 DEF NoLostWakeup, HasRoom
<1> QED BY <1>2, <1>6, <1>7 DEF Phases

\* A task that takes a slot below the cap keeps the invariant.
LEMMA TakesSlot ==
    ASSUME IInv, NEW c \in Callers, NEW to \in {"body", "login", "closing"},
           pc[c] \notin Holding,
           pc' = [pc EXCEPT ![c] = to],
           active < cap, active' = active + 1, cap' = cap, doubled' = doubled
    PROVE  /\ active' \in Int /\ active' <= MaxConcurrent
           /\ pc' \in [Callers -> Outside \cup Pausing \cup Holding]
           /\ SlotConservation'
           /\ NoLostWakeup'
<1> USE DEF IInv
<1>1. active' \in Int /\ active' <= MaxConcurrent
  BY CapacityAssumption DEF TypeOK
<1>2. pc' \in [Callers -> Outside \cup Pausing \cup Holding]
  BY DEF TypeOK, Holding, Ending
<1>3. SlotConservation'
  <2>1. c \notin Holders
    BY DEF Holders
  <2>2. Holders' = Holders \cup {c}
    BY DEF TypeOK, Holders, Holding, Ending
  <2>3. Cardinality(Holders') = Cardinality(Holders) + 1
    BY <2>1, <2>2, HoldersGain
  <2> QED BY <2>3, HoldersNat DEF SlotConservation, TypeOK
<1>4. NoLostWakeup'
  <2>1. \A d \in Callers : HasRoom(d)' => HasRoom(d)
    <3> SUFFICES ASSUME NEW d \in Callers, HasRoom(d)' PROVE HasRoom(d)
      OBVIOUS
    <3>1. Limit(d)' = Limit(d) /\ Limit(d) \in 1..cap
      BY LimitInRange DEF Limit, TypeOK
    <3>2. d # c
      BY DEF HasRoom, TypeOK
    <3>3. pc'[d] = pc[d]
      BY <3>2 DEF TypeOK
    <3> QED BY <3>1, <3>3 DEF HasRoom, TypeOK
  <2>2. \A d \in Callers : pc[d] \in Ending => pc'[d] \in Ending
    BY DEF TypeOK, Ending, Holding
  <2> QED BY <2>1, <2>2, WakeupFrame
<1> QED BY <1>1, <1>2, <1>3, <1>4

\* A cancelled login that has its slot back, or goes to sleep without one,
\* keeps the invariant.
LEMMA TakesBack ==
    ASSUME IInv, NEW c \in Callers, pc[c] \notin Holding, TakeBack(c),
           cap' = cap, doubled' = doubled
    PROVE  /\ active' \in Int /\ active' <= MaxConcurrent
           /\ pc' \in [Callers -> Outside \cup Pausing \cup Holding]
           /\ SlotConservation'
           /\ NoLostWakeup'
<1> USE DEF IInv
<1>1. CASE active < cap
  <2>1. active' = active + 1 /\ pc' = [pc EXCEPT ![c] = "closing"]
    BY <1>1 DEF TakeBack
  <2> QED BY <1>1, <2>1, TakesSlot
<1>2. CASE ~(active < cap)
  <2>1. active' = active /\ pc' = [pc EXCEPT ![c] = "unwinding"]
    BY <1>2 DEF TakeBack
  <2>2. active' \in Int /\ active' <= MaxConcurrent
    BY <2>1 DEF TypeOK
  <2>3. pc' \in [Callers -> Outside \cup Pausing \cup Holding]
    BY <2>1 DEF TypeOK, Pausing, Unwinding
  <2>4. SlotConservation'
    <3>1. Holders' = Holders
      BY <2>1 DEF TypeOK, Holders, Holding, Ending
    <3> QED BY <2>1, <3>1 DEF SlotConservation
  <2>5. NoLostWakeup'
    <3>1. \A d \in Callers : HasRoom(d)' => HasRoom(d)
      BY <1>2, <2>1 DEF TypeOK, HasRoom, Limit
    <3>2. \A d \in Callers : pc[d] \in Ending => pc'[d] \in Ending
      BY <2>1 DEF TypeOK, Ending, Holding
    <3> QED BY <3>1, <3>2, WakeupFrame
  <2> QED BY <2>2, <2>3, <2>4, <2>5
<1> QED BY <1>1, <1>2

\* Counting a call keeps the demand in range: it is counted only if due.
LEMMA CountCallType ==
    ASSUME TypeOK, NEW c \in Callers, Entering(c), CountCall(c)
    PROVE  demand' \in 0..Demand
<1> QED BY LoginAssumption DEF TypeOK, Entering, CountCall

\* The breaker's part of the state past the gate.
LEMMA PassGateType ==
    ASSUME TypeOK, NEW c \in Callers, PassGate(c)
    PROVE  /\ circuit' \in {"closed", "open", "half_open"}
           /\ cooled' \in BOOLEAN /\ ~cooled'
           /\ probeInFlight' \in BOOLEAN
           /\ isProbe' \in [Callers -> BOOLEAN]
           /\ demand' \in 0..Demand
<1>1. demand' \in 0..Demand
  BY CountCallType DEF PassGate
<1>2. isProbe' \in [Callers -> BOOLEAN]
  BY DEF PassGate, TypeOK
<1>3. probeInFlight' \in BOOLEAN /\ cooled' \in BOOLEAN /\ ~cooled'
  BY DEF PassGate, TypeOK
<1>4. circuit' \in {"closed", "open", "half_open"}
  BY DEF PassGate, Gate, TypeOK
<1> QED BY <1>1, <1>2, <1>3, <1>4

\* One case per action.
LEMMA StepInv == IInv /\ [Next]_vars => IInv'
<1> SUFFICES ASSUME IInv, [Next]_vars PROVE IInv'
  OBVIOUS
<1> USE DEF IInv
<1>1. CASE Cool
  <2>1. TypeOK'
    BY <1>1 DEF Cool, TypeOK, adaption, pacing
  <2>2. SlotConservation'
    BY <1>1 DEF Cool, SlotConservation, Holders
  <2>3. NoLostWakeup' /\ NoIdleToken'
    BY <1>1 DEF Cool, NoLostWakeup, NoIdleToken, HasRoom, Limit, adaption, pacing
  <2> QED BY <2>1, <2>2, <2>3
<1>2. CASE Tick
  <2>1. /\ tokens' \in 0..Burst
        /\ paceQueue' \in Seq(Callers)
        /\ NoIdleToken'
    <3>1. /\ paceQueue \in Seq(Callers)
          /\ tokens + 1 \in 0..Burst
          /\ Dispatch(paceQueue, tokens + 1)
      BY <1>2, LoginAssumption DEF Tick, TypeOK
    <3>2. tokens + 1 <= 1 \/ Len(paceQueue) <= 1
      BY EmptySeq DEF NoIdleToken, TypeOK
    <3> QED BY <3>1, <3>2, LoginAssumption, DispatchProperties DEF NoIdleToken
  <2>2. TypeOK'
    BY <1>2, <2>1 DEF Tick, TypeOK, breaker, adaption
  <2>3. SlotConservation' /\ NoLostWakeup'
    BY <1>2 DEF Tick, SlotConservation, Holders, NoLostWakeup, HasRoom, Limit,
                adaption
  <2> QED BY <2>1, <2>2, <2>3
<1> SUFFICES ASSUME NEW c \in Callers,
                    \/ Reject(c) \/ Admit(c) \/ WaitForSlot(c)
                    \/ StartLogin(c) \/ Resume(c) \/ WaitToResume(c) \/ LoginReturns(c)
                    \/ Succeed(c) \/ Judged(c) \/ Refused(c) \/ Fault(c) \/ Abort(c)
                    \/ Close(c)
                    \/ CancelWait(c) \/ CancelPacing(c) \/ Unwind(c) \/ CancelResume(c)
             PROVE  IInv'
  <2>1. CASE UNCHANGED vars
    BY <2>1 DEF vars, TypeOK, SlotConservation, Holders, NoLostWakeup, HasRoom,
                Limit, NoIdleToken
  <2> QED BY <1>1, <1>2, <2>1 DEF Next
<1>3. CASE Reject(c)
  <2>1. TypeOK'
    <3>1. demand' \in 0..Demand
      BY <1>3, CountCallType DEF Reject
    <3>2. isProbe' \in [Callers -> BOOLEAN]
      BY <1>3 DEF Reject, TypeOK
    <3>3. /\ circuit' \in {"closed", "open", "half_open"}
          /\ cooled' \in BOOLEAN /\ ~cooled'
      BY <1>3 DEF Reject, Gate, TypeOK
    <3> QED
      BY <1>3, <3>1, <3>2, <3>3 DEF Reject, TypeOK, adaption, pacing, Outside
  <2>2. SlotConservation'
    <3>1. Holders' = Holders
      BY <1>3 DEF Reject, Entering, TypeOK, Holders, Holding, Ending
    <3> QED BY <1>3, <3>1 DEF Reject, SlotConservation
  <2>3. NoLostWakeup'
    <3>1. \A d \in Callers : HasRoom(d)' => HasRoom(d)
      BY <1>3 DEF Reject, Entering, TypeOK, HasRoom, Limit, adaption
    <3>2. \A d \in Callers : pc[d] \in Ending => pc'[d] \in Ending
      BY <1>3 DEF Reject, Entering, TypeOK, Ending
    <3> QED BY <3>1, <3>2, WakeupFrame
  <2>4. NoIdleToken'
    BY <1>3 DEF Reject, NoIdleToken, pacing
  <2> QED BY <2>1, <2>2, <2>3, <2>4
<1>4. CASE Admit(c)
  <2>1. pc[c] \notin Holding /\ active < cap
    <3>1. Limit(c) \in 1..cap
      BY LimitInRange DEF TypeOK
    <3> QED BY <1>4, <3>1 DEF Admit, PassGate, Entering, TypeOK, Holding, Ending
  <2>2. /\ active' \in Int /\ active' <= MaxConcurrent
        /\ pc' \in [Callers -> Outside \cup Pausing \cup Holding]
        /\ SlotConservation'
        /\ NoLostWakeup'
    BY <1>4, <2>1, TakesSlot DEF Admit, PassGate, adaption
  <2>3. TypeOK'
    <3>1. PassGate(c)
      BY <1>4 DEF Admit
    <3> QED
      BY <1>4, <2>2, <3>1, PassGateType DEF Admit, PassGate, TypeOK, adaption, pacing, Outside
  <2>4. NoIdleToken'
    BY <1>4 DEF Admit, PassGate, NoIdleToken, pacing
  <2> QED BY <2>2, <2>3, <2>4
<1>5. CASE WaitForSlot(c)
  <2>1. TypeOK'
    <3>1. PassGate(c)
      BY <1>5 DEF WaitForSlot
    <3> QED
      BY <1>5, <3>1, PassGateType DEF WaitForSlot, PassGate, TypeOK, adaption, pacing, Outside
  <2>2. SlotConservation'
    <3>1. Holders' = Holders
      BY <1>5 DEF WaitForSlot, PassGate, Entering, TypeOK, Holders, Holding, Ending
    <3> QED BY <1>5, <3>1 DEF WaitForSlot, PassGate, SlotConservation
  <2>3. NoLostWakeup'
    <3>1. Limit(c) \in 1..cap
      BY LimitInRange DEF TypeOK
    <3>2. \A d \in Callers : HasRoom(d)' => HasRoom(d)
      BY <1>5, <3>1 DEF WaitForSlot, PassGate, Entering, TypeOK, HasRoom, Limit, adaption
    <3>3. \A d \in Callers : pc[d] \in Ending => pc'[d] \in Ending
      BY <1>5 DEF WaitForSlot, PassGate, Entering, TypeOK, Ending
    <3> QED BY <3>2, <3>3, WakeupFrame
  <2>4. NoIdleToken'
    BY <1>5 DEF WaitForSlot, PassGate, NoIdleToken, pacing
  <2> QED BY <2>1, <2>2, <2>3, <2>4
<1>6. CASE StartLogin(c)
  <2>1. active' = active - 1 \/ (active' = active /\ active <= 0)
    BY <1>6 DEF StartLogin, TypeOK
  <2>2. /\ active' \in Int /\ active' <= MaxConcurrent
        /\ pc' \in [Callers -> Outside \cup Pausing \cup Holding]
        /\ SlotConservation'
        /\ NoLostWakeup'
    BY <1>6, <2>1, ReturnsSlot DEF StartLogin, Holding
  <2>3. /\ tokens' \in 0..Burst
        /\ paceQueue' \in Seq(Callers)
        /\ NoIdleToken'
    <3>1. /\ Append(paceQueue, c) \in Seq(Callers)
          /\ Len(Append(paceQueue, c)) = Len(paceQueue) + 1
      BY AppendProperties DEF TypeOK
    <3>2. tokens <= 1 \/ Len(Append(paceQueue, c)) <= 1
      BY <3>1 DEF NoIdleToken, TypeOK
    <3>3. Dispatch(Append(paceQueue, c), tokens) /\ tokens \in 0..Burst
      BY <1>6 DEF StartLogin, TypeOK
    <3> QED BY <3>1, <3>2, <3>3, LoginAssumption, DispatchProperties DEF NoIdleToken
  <2>4. TypeOK'
    <3>1. logins' \in [Callers -> 0..MaxLogins]
      BY <1>6, LoginAssumption DEF StartLogin, TypeOK
    <3> QED BY <1>6, <2>2, <2>3, <3>1 DEF StartLogin, TypeOK, breaker, adaption
  <2> QED BY <2>2, <2>3, <2>4
<1>7. CASE Resume(c)
  <2>1. pc[c] \notin Holding
    BY <1>7 DEF Resume, Granted, Holding, Ending
  <2>2. /\ active' \in Int /\ active' <= MaxConcurrent
        /\ pc' \in [Callers -> Outside \cup Pausing \cup Holding]
        /\ SlotConservation'
        /\ NoLostWakeup'
    BY <1>7, <2>1, TakesSlot DEF Resume, adaption
  <2>3. TypeOK'
    BY <1>7, <2>2 DEF Resume, TypeOK, breaker, adaption, pacing
  <2>4. NoIdleToken'
    BY <1>7 DEF Resume, NoIdleToken, pacing
  <2> QED BY <2>2, <2>3, <2>4
<1>8. CASE WaitToResume(c)
  <2>1. TypeOK'
    BY <1>8 DEF WaitToResume, TypeOK, breaker, adaption, pacing, Pausing
  <2>2. SlotConservation'
    <3>1. Holders' = Holders
      BY <1>8 DEF WaitToResume, Granted, TypeOK, Holders, Holding, Ending
    <3> QED BY <1>8, <3>1 DEF WaitToResume, SlotConservation
  <2>3. NoLostWakeup'
    <3>1. \A d \in Callers : HasRoom(d)' => HasRoom(d)
      BY <1>8 DEF WaitToResume, TypeOK, HasRoom, Limit, adaption
    <3>2. \A d \in Callers : pc[d] \in Ending => pc'[d] \in Ending
      BY <1>8 DEF WaitToResume, Granted, TypeOK, Ending
    <3> QED BY <3>1, <3>2, WakeupFrame
  <2>4. NoIdleToken'
    BY <1>8 DEF WaitToResume, NoIdleToken, pacing
  <2> QED BY <2>1, <2>2, <2>3, <2>4
<1>9. CASE LoginReturns(c)
  <2>1. TypeOK'
    BY <1>9 DEF LoginReturns, TypeOK, breaker, adaption, pacing, Holding
  <2>2. SlotConservation'
    <3>1. Holders' = Holders
      BY <1>9 DEF LoginReturns, TypeOK, Holders, Holding
    <3> QED BY <1>9, <3>1 DEF LoginReturns, SlotConservation
  <2>3. NoLostWakeup'
    <3>1. \A d \in Callers : HasRoom(d)' => HasRoom(d)
      BY <1>9 DEF LoginReturns, TypeOK, HasRoom, Limit, adaption
    <3>2. \A d \in Callers : pc[d] \in Ending => pc'[d] \in Ending
      BY <1>9 DEF LoginReturns, TypeOK, Ending
    <3> QED BY <3>1, <3>2, WakeupFrame
  <2>4. NoIdleToken'
    BY <1>9 DEF LoginReturns, NoIdleToken, pacing
  <2> QED BY <2>1, <2>2, <2>3, <2>4
<1>10. CASE Succeed(c)
  <2>1. errors' \in 0..ErrorCeil /\ successes' \in 0..(RecoverAfter - 1)
    BY <1>10, ErrorCeilNat, BreakerAssumption DEF Succeed, TypeOK
  <2>2. cap' \in 1..MaxConcurrent
    BY <1>10, CapacityAssumption DEF Succeed, TypeOK
  <2>3. /\ circuit' \in {"closed", "open", "half_open"}
        /\ cooled' = cooled /\ probeInFlight' \in BOOLEAN
        /\ cooled' => circuit' = "open"
    BY <1>10 DEF Succeed, TypeOK
  <2>4. Leave(c, {"body"}, "closing")
    BY <1>10 DEF Succeed
  <2> QED BY <2>1, <2>2, <2>3, <2>4, LeaveInv DEF Ending
<1>11. CASE Judged(c) \/ Refused(c)
  <2>1. PICK from \in SUBSET {"body", "login"}, to \in Ending : Leave(c, from, to)
    BY <1>11 DEF Judged, Refused, Ending
  <2>2. NotePortalResponded
    BY <1>11 DEF Judged, Refused
  <2> QED BY <2>1, <2>2, LeaveInv DEF NotePortalResponded, TypeOK, adaption
<1>12. CASE Fault(c)
  <2>1. Leave(c, {"body", "login"}, "closing") /\ RecordError
    BY <1>12 DEF Fault
  <2>2. cap' \in 1..MaxConcurrent
    BY <2>1, RecordErrorType, CapacityAssumption DEF TypeOK
  <2>3. probeInFlight' \in BOOLEAN
    BY <2>1, RecordErrorType DEF TypeOK
  <2> QED BY <2>1, <2>2, <2>3, RecordErrorType, LeaveInv DEF Ending
<1>13. CASE Abort(c)
  <2>1. Leave(c, {"body", "login"}, "closing")
    BY <1>13 DEF Abort
  <2> QED BY <1>13, <2>1, LeaveInv DEF Abort, TypeOK, Ending, breaker, adaption
<1>14. CASE Close(c)
  <2>1. /\ active' \in Int /\ active' <= MaxConcurrent
        /\ pc' \in [Callers -> Outside \cup Pausing \cup Holding]
        /\ SlotConservation'
        /\ NoLostWakeup'
    BY <1>14, ReturnsSlot DEF Close, Holding
  <2>2. TypeOK'
    <3>1. logins' \in [Callers -> 0..MaxLogins]
      BY <1>14, LoginAssumption DEF Close, TypeOK
    <3>2. isProbe' \in [Callers -> BOOLEAN] /\ probeInFlight' \in BOOLEAN
      BY <1>14 DEF Close, FlagAfter, TypeOK
    <3> QED
      BY <1>14, <2>1, <3>1, <3>2 DEF Close, TypeOK, breaker, adaption, pacing
  <2>3. NoIdleToken'
    BY <1>14 DEF Close, NoIdleToken, pacing
  <2> QED BY <2>1, <2>2, <2>3
<1>15. CASE CancelWait(c)
  <2>1. TypeOK'
    <3>1. isProbe' \in [Callers -> BOOLEAN]
      BY <1>15 DEF CancelWait, TypeOK
    <3>2. pc' \in [Callers -> Outside \cup Pausing \cup Holding]
      BY <1>15 DEF CancelWait, TypeOK, Outside
    <3> QED BY <1>15, <3>1, <3>2 DEF CancelWait, TypeOK, breaker, adaption, pacing
  <2>2. SlotConservation'
    <3>1. Holders' = Holders
      BY <1>15 DEF CancelWait, TypeOK, Holders, Holding, Ending
    <3> QED BY <1>15, <3>1 DEF CancelWait, SlotConservation
  <2>3. NoLostWakeup'
    <3>1. \A d \in Callers : HasRoom(d)' => HasRoom(d)
      BY <1>15 DEF CancelWait, TypeOK, HasRoom, Limit, adaption
    <3>2. \A d \in Callers : pc[d] \in Ending => pc'[d] \in Ending
      BY <1>15 DEF CancelWait, TypeOK, Ending
    <3> QED BY <3>1, <3>2, WakeupFrame
  <2>4. NoIdleToken'
    BY <1>15 DEF CancelWait, NoIdleToken, pacing
  <2> QED BY <2>1, <2>2, <2>3, <2>4
<1>16. CASE CancelPacing(c)
  <2>1. pc[c] \notin Holding
    BY <1>16 DEF CancelPacing, Holding, Ending
  <2>2. /\ active' \in Int /\ active' <= MaxConcurrent
        /\ pc' \in [Callers -> Outside \cup Pausing \cup Holding]
        /\ SlotConservation'
        /\ NoLostWakeup'
    BY <1>16, <2>1, TakesBack DEF CancelPacing, adaption
  <2>3. paceQueue' \in Seq(Callers) /\ NoIdleToken'
    <3>1. CASE Granted(c)
      BY <1>16, <3>1 DEF CancelPacing, TypeOK, NoIdleToken
    <3>2. CASE ~ Granted(c)
      <4>1. PICK i \in DOMAIN paceQueue : paceQueue' = RemoveAt(paceQueue, i)
        BY <1>16, <3>2 DEF CancelPacing
      <4>2. paceQueue \in Seq(Callers) /\ i \in 1..Len(paceQueue) /\ paceQueue # <<>>
        BY <4>1, LenProperties DEF TypeOK
      <4>3. paceQueue' \in Seq(Callers)
        BY <4>1, <4>2, RemoveAtSeq
      <4>4. tokens = 0 /\ tokens' = tokens
        BY <1>16, <4>2 DEF CancelPacing, NoIdleToken
      <4> QED BY <4>3, <4>4 DEF NoIdleToken
    <3> QED BY <3>1, <3>2
  <2>4. TypeOK'
    BY <1>16, <2>2, <2>3 DEF CancelPacing, TypeOK, breaker, adaption
  <2> QED BY <2>2, <2>3, <2>4
<1>17. CASE Unwind(c)
  <2>1. pc[c] \notin Holding
    BY <1>17 DEF Unwind, Holding, Ending
  <2>2. /\ active' \in Int /\ active' <= MaxConcurrent
        /\ pc' \in [Callers -> Outside \cup Pausing \cup Holding]
        /\ SlotConservation'
        /\ NoLostWakeup'
    BY <1>17, <2>1, TakesBack DEF Unwind, adaption
  <2>3. TypeOK'
    BY <1>17, <2>2 DEF Unwind, TypeOK, breaker, adaption, pacing
  <2>4. NoIdleToken'
    BY <1>17 DEF Unwind, NoIdleToken, pacing
  <2> QED BY <2>2, <2>3, <2>4
<1>18. CASE CancelResume(c)
  <2>1. TypeOK'
    <3>1. pc' \in [Callers -> Outside \cup Pausing \cup Holding]
      BY <1>18 DEF CancelResume, TypeOK, Holding, Ending
    <3>2. doubled' \in Nat
      BY <1>18 DEF CancelResume, TypeOK
    <3> QED BY <1>18, <3>1, <3>2 DEF CancelResume, TypeOK, breaker, adaption, pacing
  <2>2. SlotConservation'
    <3>1. c \notin Holders
      BY <1>18 DEF CancelResume, Holders, Holding, Ending
    <3>2. Holders' = Holders \cup {c}
      BY <1>18 DEF CancelResume, TypeOK, Holders, Holding, Ending
    <3>3. Cardinality(Holders') = Cardinality(Holders) + 1
      BY <3>1, <3>2, HoldersGain
    <3> QED BY <1>18, <3>3, HoldersNat DEF CancelResume, SlotConservation, TypeOK
  <2>3. NoLostWakeup'
    BY <1>18 DEF CancelResume, NoLostWakeup, TypeOK, Ending
  <2>4. NoIdleToken'
    BY <1>18 DEF CancelResume, NoIdleToken, pacing
  <2> QED BY <2>1, <2>2, <2>3, <2>4
<1> QED
  BY <1>3, <1>4, <1>5, <1>6, <1>7, <1>8, <1>9, <1>10, <1>11, <1>12, <1>13, <1>14,
     <1>15, <1>16, <1>17, <1>18

-----------------------------------------------------------------------------
(* The order in which logins get their tokens.                              *)

LEMMA LeastIndex ==
    ASSUME NEW T \in SUBSET Nat, T # {}
    PROVE  \E m \in T : \A k \in T : m <= k
<1> DEFINE Below == {p \in Nat \X Nat : p[1] < p[2]}
<1>1. IsWellFoundedOn(Below, Nat)
  BY NatLessThanWellFounded DEF OpToRel
<1>2. PICK m \in T : \A k \in T : ~ (<<k, m>> \in Below)
  <2> HIDE DEF Below
  <2> QED BY <1>1, WFMin
<1>3. \A k \in T : m <= k
  <2> SUFFICES ASSUME NEW k \in T, ~ (m <= k)
               PROVE  FALSE
    OBVIOUS
  <2>1. m \in Nat /\ k \in Nat /\ k < m
    OBVIOUS
  <2>2. <<k, m>> \in Below
    BY <2>1
  <2> QED BY <1>2, <2>2
<1> QED BY <1>3

\* _dispatch_tokens() serves an interactive login when one waits, and no
\* interactive login stands before the one it serves.
LEMMA TurnServesInteractive ==
    ASSUME NEW q \in Seq(Callers),
           NEW j \in 1..Len(q), q[j] \in Interactive
    PROVE  q[Turn(q)] \in Interactive /\ Turn(q) <= j
<1> DEFINE T == {i \in 1..Len(q) : q[i] \in Interactive}
           first == {i \in DOMAIN q : /\ q[i] \in Interactive
                                      /\ \A k \in 1..(i - 1) : q[k] \notin Interactive}
<1>0. DOMAIN q = 1..Len(q) /\ Len(q) \in Nat
  BY LenProperties
<1>1. PICK m \in T : \A k \in T : m <= k
  <2>1. T \in SUBSET Nat /\ T # {}
    BY <1>0
  <2> HIDE DEF T
  <2> QED BY <2>1, LeastIndex
<1>2. m \in first
  <2> SUFFICES ASSUME NEW k \in 1..(m - 1), q[k] \in Interactive
               PROVE  FALSE
    BY <1>0, <1>1
  <2>1. k \in T
    BY <1>0, <1>1
  <2> QED BY <1>0, <1>1, <2>1
<1>3. Turn(q) \in first
  BY <1>2 DEF Turn
<1>4. Turn(q) <= j
  BY <1>0, <1>3
<1> QED BY <1>3, <1>4

\* A waiter other than the one served stays in the queue.
LEMMA RemoveAtKeepsOthers ==
    ASSUME NEW q \in Seq(Callers), NEW k \in 1..Len(q),
           NEW i \in 1..Len(q), i # k
    PROVE  Contains(RemoveAt(q, k), q[i])
<1> DEFINE a == SubSeq(q, 1, k - 1)
           b == SubSeq(q, k + 1, Len(q))
<1>0. Len(q) \in Nat /\ i \in Nat /\ k \in Nat
  BY LenProperties
<1>1. /\ a \in Seq(Callers) /\ Len(a) = k - 1
      /\ \A l \in 1..(k - 1) : a[l] = q[l]
  OBVIOUS
<1>2. /\ b \in Seq(Callers) /\ Len(b) = Len(q) - k
      /\ \A l \in 1..(Len(q) - k) : b[l] = q[k + l]
  OBVIOUS
<1> HIDE DEF a, b
<1>3. /\ Len(a \o b) = Len(q) - 1
      /\ \A l \in 1..(Len(q) - 1) :
            (a \o b)[l] = IF l <= k - 1 THEN a[l] ELSE b[l - (k - 1)]
  <2>1. /\ Len(a \o b) = Len(a) + Len(b)
        /\ \A l \in 1..(Len(a) + Len(b)) :
              (a \o b)[l] = IF l <= Len(a) THEN a[l] ELSE b[l - Len(a)]
    BY <1>1, <1>2, ConcatProperties
  <2> QED BY <1>0, <1>1, <1>2, <2>1
<1>4. \E l \in 1..Len(a \o b) : (a \o b)[l] = q[i]
  <2>1. CASE i < k
    BY <1>0, <1>1, <1>3, <2>1
  <2>2. CASE i > k
    <3>1. /\ i - 1 \in 1..(Len(q) - 1) /\ ~(i - 1 <= k - 1)
          /\ (i - 1) - (k - 1) = i - k
          /\ i - k \in 1..(Len(q) - k) /\ k + (i - k) = i
      BY <1>0, <2>2
    <3>2. (a \o b)[i - 1] = b[i - k]
      BY <1>3, <3>1
    <3> QED BY <1>2, <1>3, <3>1, <3>2
  <2> QED BY <1>0, <2>1, <2>2
<1>5. RemoveAt(q, k) = a \o b
  BY DEF RemoveAt, a, b
<1> QED BY <1>4, <1>5 DEF Contains

\* One dispatch serves one waiter at most, and it is the right one.
LEMMA DispatchOrder ==
    ASSUME NEW q \in Seq(Callers), NEW t, Dispatch(q, t),
           NEW i \in 1..Len(q), ~ Contains(paceQueue', q[i]),
           NEW j \in 1..Len(q), j # i, q[j] \in Interactive
    PROVE  q[i] \in Interactive /\ i < j
<1>0. Len(q) \in Nat /\ q # <<>>
  BY LenProperties
<1>1. t > 0 /\ paceQueue' = RemoveAt(q, Turn(q))
  <2>1. Contains(q, q[i])
    BY DEF Contains
  <2> QED BY <1>0, <2>1 DEF Dispatch
<1>2. Turn(q) \in 1..Len(q)
  BY <1>0, TurnInRange
<1>3. i = Turn(q)
  BY <1>1, <1>2, RemoveAtKeepsOthers
<1> QED BY <1>2, <1>3, TurnServesInteractive

-----------------------------------------------------------------------------
(* The theorems.                                                            *)

\* So it holds of the gateway at all times.
LEMMA Invariance == Spec => []IInv
<1> QED BY InitInv, StepInv, PTL DEF Spec

\* Every variable of the gateway keeps its type: in particular the counter of
\* requests in flight never exceeds the configured maximum, whatever the
\* adaptation does.
THEOREM TypeCorrect == Spec => []TypeOK
<1>1. IInv => TypeOK
  BY DEF IInv
<1> QED BY <1>1, Invariance, PTL

\* No exit path of acquire() or _do_login() leaks a slot, and none returns one
\* twice but a login cancelled while _reacquire_slot() waits, once each.
THEOREM SlotsConserved == Spec => []SlotConservation
<1>1. IInv => SlotConservation
  BY DEF IInv
<1> QED BY <1>1, Invariance, PTL

\* No task sleeps beside a free slot with nobody left to notify it.
THEOREM WakeupsKept == Spec => []NoLostWakeup
<1>1. IInv => NoLostWakeup
  BY DEF IInv
<1> QED BY <1>1, Invariance, PTL

\* No login waits for pacing beside a token.
THEOREM TokensUsed == Spec => []NoIdleToken
<1>1. IInv => NoIdleToken
  BY DEF IInv
<1> QED BY <1>1, Invariance, PTL

\* Slots are taken below the cap of the moment, on entry and after pacing.
THEOREM CapRespected == Spec => AdmissionRespectsCap
<1>1. IInv /\ [Next]_vars => [active' > active => active' <= cap]_vars
  <2> SUFFICES ASSUME IInv, Next, active' > active
               PROVE  active' <= cap
    BY DEF vars
  <2> USE DEF IInv
  <2>1. PICK c \in Callers : Admit(c) \/ Resume(c) \/ CancelPacing(c) \/ Unwind(c)
    <3>1. Cool \/ Tick => active' = active
      BY DEF Cool, Tick
    <3>2. ASSUME NEW c \in Callers,
                 \/ Reject(c) \/ WaitForSlot(c) \/ StartLogin(c) \/ WaitToResume(c)
                 \/ LoginReturns(c) \/ Succeed(c) \/ Judged(c) \/ Refused(c)
                 \/ Fault(c) \/ Abort(c) \/ Close(c)
                 \/ CancelWait(c) \/ CancelResume(c)
          PROVE  active' <= active
      BY <3>2 DEF CancelWait, CancelResume, Reject, WaitForSlot, StartLogin, WaitToResume, LoginReturns,
                  Succeed, Judged, Refused, Fault, Abort, Close, Leave, TypeOK
    <3>3. active \in Int
      BY DEF TypeOK
    <3>4. active' \in Int
      <4>1. IInv'
        BY StepInv
      <4> QED BY <4>1 DEF TypeOK
    <3> QED BY <3>1, <3>2, <3>3, <3>4 DEF Next
  <2>2. CASE Admit(c)
    BY <2>2, LimitInRange DEF Admit, TypeOK
  <2>3. CASE Resume(c)
    BY <2>3 DEF Resume, TypeOK
  <2>4. CASE CancelPacing(c) \/ Unwind(c)
    BY <2>4 DEF CancelPacing, Unwind, TakeBack, TypeOK
  <2> QED BY <2>1, <2>2, <2>3, <2>4
<1> QED BY <1>1, Invariance, PTL DEF Spec, AdmissionRespectsCap

\* While an interactive login waits no background login is served, and the
\* logins of one class are served in the order they asked: _dispatch_tokens().
THEOREM TokensInOrder == Spec => PacePriority
<1> DEFINE Ordered ==
      \A i \in DOMAIN paceQueue :
         (~Contains(paceQueue', paceQueue[i]) /\ pc'[paceQueue[i]] = "pacing") =>
            \A j \in DOMAIN paceQueue :
                (j # i /\ paceQueue[j] \in Interactive) =>
                    paceQueue[i] \in Interactive /\ i < j
<1>1. IInv /\ [Next]_vars => [Ordered]_vars
  <2> SUFFICES ASSUME IInv, Next
               PROVE  Ordered
    OBVIOUS
  <2>1. /\ paceQueue \in Seq(Callers)
        /\ DOMAIN paceQueue = 1..Len(paceQueue) /\ Len(paceQueue) \in Nat
    BY LenProperties DEF IInv, TypeOK
  <2> SUFFICES ASSUME NEW i \in 1..Len(paceQueue),
                      ~ Contains(paceQueue', paceQueue[i]),
                      pc'[paceQueue[i]] = "pacing",
                      NEW j \in 1..Len(paceQueue), j # i,
                      paceQueue[j] \in Interactive
               PROVE  paceQueue[i] \in Interactive /\ i < j
    BY <2>1
  <2>2. CASE paceQueue' = paceQueue
    BY <2>2 DEF Contains
  <2>3. CASE Tick
    BY <2>1, <2>3, DispatchOrder DEF Tick
  <2>4. ASSUME NEW c \in Callers, StartLogin(c)
        PROVE  paceQueue[i] \in Interactive /\ i < j
    <3> DEFINE q == Append(paceQueue, c)
    <3>1. /\ q \in Seq(Callers) /\ Len(q) = Len(paceQueue) + 1
          /\ \A l \in 1..Len(paceQueue) : q[l] = paceQueue[l]
      BY <2>1, AppendProperties
    <3>2. Dispatch(q, tokens)
      BY <2>4 DEF StartLogin
    <3>3. i \in 1..Len(q) /\ j \in 1..Len(q) /\ q[i] = paceQueue[i] /\ q[j] = paceQueue[j]
      BY <2>1, <3>1
    <3> HIDE DEF q
    <3> QED BY <3>1, <3>2, <3>3, DispatchOrder
  <2>5. ASSUME NEW c \in Callers, CancelPacing(c), ~ Granted(c)
        PROVE  FALSE
    <3>1. PICK k \in DOMAIN paceQueue : /\ paceQueue[k] = c
                                       /\ paceQueue' = RemoveAt(paceQueue, k)
      BY <2>5 DEF CancelPacing
    <3>2. i # k
      <4>1. pc'[c] # "pacing"
        BY <2>5 DEF CancelPacing, TakeBack, IInv, TypeOK
      <4> QED BY <3>1, <4>1
    <3>3. k \in 1..Len(paceQueue)
      BY <2>1, <3>1
    <3> QED BY <2>1, <3>1, <3>2, <3>3, RemoveAtKeepsOthers
  <2>6. \/ Tick \/ (\E c \in Callers : StartLogin(c)) \/ paceQueue' = paceQueue
        \/ \E c \in Callers : CancelPacing(c) /\ ~ Granted(c)
    BY DEF Next, CancelWait, CancelPacing, Unwind, CancelResume, Cool, Reject, Admit, WaitForSlot, PassGate, Resume, WaitToResume,
           LoginReturns, Succeed, Judged, Refused, Fault, Abort, Leave, Close, pacing
  <2> QED BY <2>2, <2>3, <2>4, <2>5, <2>6
<1> QED BY <1>1, Invariance, PTL DEF Spec, PacePriority

=============================================================================
