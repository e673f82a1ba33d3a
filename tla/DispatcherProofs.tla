-------------------------- MODULE DispatcherProofs --------------------------
(***************************************************************************)
(* What Dispatcher promises for every number of dispatchers, users, events, *)
(* attempts and faults, and every size of a batch.                          *)
(***************************************************************************)
EXTENDS Dispatcher, FiniteSetTheorems, TLAPS

-----------------------------------------------------------------------------
(* The inductive invariant.                                                 *)

\* The messages of a worker share no event, with each other or with the one whose
\* outcome it records.
Shape ==
    \A w \in Workers :
        /\ \A m \in todo[w] : m # {} /\ m \cap sending[w] = {}
        /\ \A m, n \in todo[w] : m = n \/ m \cap n = {}

\* Whoever holds an event holds a fresh claim on a pending row, alone.
Exclusive ==
    \A e \in Ids \ loosened : \A w \in Holders(e) :
        status[e] = "pending" /\ age[e] = "fresh" /\ Holders(e) = {w}

\* What is about to be marked as sent was sent.
Delivery == \A w \in Workers : outcome[w] = "sent" => \A e \in left[w] : shown[e] > 0

\* A delivered event is out of the queue, or its mark is the worker's next business.
Settled(e) == status[e] # "pending" \/ \E w \in Workers : e \in left[w] /\ outcome[w] = "sent"
Once ==
    \A e \in Ids \ (excused \cup loosened) :
        shown[e] <= 1 /\ (shown[e] = 1 => Settled(e))

\* Every counted attempt has a send of its own, and so has every one that is still
\* to be counted: where the send failed, that of the events not yet released; else
\* that of the whole message, which a failing mark would have released.
Owed(w) == IF outcome[w] = "retry" THEN left[w] ELSE sending[w]
Recording(e) == {w \in Workers : e \in Owed(w)}
Tally ==
    \A e \in Ids \ excused :
        tries[e] > MaxAttempts \/ attempts[e] + Cardinality(Recording(e)) <= tries[e]
Known == \A w \in Workers : \A e \in Ids : seen[w][e] <= attempts[e]

IInv == /\ TypeOK /\ Shape /\ Exclusive /\ Delivery /\ Once /\ Tally /\ Known
        /\ SentWasShown /\ GivenUpAfterTries

-----------------------------------------------------------------------------
(* The counters, and the messages of a batch.                               *)

LEMMA CapsAreNat == /\ MaxAttempts \in Nat /\ MaxAttempts + 1 \in Nat
                    /\ 0 \in 0..MaxAttempts /\ 0 \in 0..MaxAttempts + 1 /\ 0 \in 0..2
BY BoundsAssumption

\* A counter grows by one at most, on the events counted only, up to its cap.
LEMMA PlusUpToCounts ==
    ASSUME NEW cap \in Nat, NEW count \in [Ids -> 0..cap], NEW S
    PROVE  /\ PlusUpTo(count, S, cap) \in [Ids -> 0..cap]
           /\ \A e \in Ids :
                /\ count[e] \in Nat /\ PlusUpTo(count, S, cap)[e] \in Nat
                /\ count[e] <= PlusUpTo(count, S, cap)[e]
                /\ PlusUpTo(count, S, cap)[e] <= count[e] + 1
                /\ e \notin S => PlusUpTo(count, S, cap)[e] = count[e]
                /\ e \in S => \/ PlusUpTo(count, S, cap)[e] = count[e] + 1
                              \/ PlusUpTo(count, S, cap)[e] = cap
<1>1. ASSUME NEW e \in Ids
      PROVE  /\ count[e] \in 0..cap
             /\ (IF e \in S /\ count[e] < cap THEN count[e] + 1 ELSE count[e]) \in 0..cap
  OBVIOUS
<1>2. PlusUpTo(count, S, cap) \in [Ids -> 0..cap]
  BY <1>1 DEF PlusUpTo
<1>3. \A e \in Ids : PlusUpTo(count, S, cap)[e] =
                       IF e \in S /\ count[e] < cap THEN count[e] + 1 ELSE count[e]
  BY DEF PlusUpTo
<1> QED BY <1>1, <1>2, <1>3

LEMMA ShownCounts ==
    ASSUME TypeOK, NEW S, Shown(S), NEW e \in Ids
    PROVE  /\ shown[e] \in Nat /\ shown'[e] \in Nat
           /\ shown'[e] <= shown[e] + 1
           /\ e \notin S => shown'[e] = shown[e]
           /\ e \in S => shown'[e] > 0
<1>1. shown \in [Ids -> 0..2] /\ 2 \in Nat /\ shown' = PlusUpTo(shown, S, 2)
  BY DEF TypeOK, Shown
<1>2. /\ shown[e] \in Nat /\ PlusUpTo(shown, S, 2)[e] \in Nat
      /\ PlusUpTo(shown, S, 2)[e] <= shown[e] + 1
      /\ e \notin S => PlusUpTo(shown, S, 2)[e] = shown[e]
      /\ e \in S => \/ PlusUpTo(shown, S, 2)[e] = shown[e] + 1
                    \/ PlusUpTo(shown, S, 2)[e] = 2
  BY <1>1, PlusUpToCounts
<1> QED BY <1>1, <1>2

LEMMA TriedCounts ==
    ASSUME TypeOK, NEW S, Tried(S), NEW e \in S, e \in Ids
    PROVE  tries'[e] > MaxAttempts \/ tries'[e] = tries[e] + 1
<1>1. /\ tries \in [Ids -> 0..MaxAttempts + 1] /\ MaxAttempts + 1 \in Nat
      /\ tries' = PlusUpTo(tries, S, MaxAttempts + 1)
  BY CapsAreNat DEF TypeOK, Tried
<1>2. \/ PlusUpTo(tries, S, MaxAttempts + 1)[e] = tries[e] + 1
      \/ PlusUpTo(tries, S, MaxAttempts + 1)[e] = MaxAttempts + 1
  BY <1>1, PlusUpToCounts
<1> QED BY <1>1, <1>2, CapsAreNat

LEMMA CountedCounts ==
    ASSUME TypeOK, NEW S, Counted(S), NEW e \in Ids
    PROVE  attempts'[e] <= attempts[e] + 1 /\ (e \notin S => attempts'[e] = attempts[e])
<1>1. /\ attempts \in [Ids -> 0..MaxAttempts] /\ MaxAttempts \in Nat
      /\ attempts' = PlusUpTo(attempts, S, MaxAttempts)
  BY CapsAreNat DEF TypeOK, Counted
<1>2. /\ PlusUpTo(attempts, S, MaxAttempts)[e] <= attempts[e] + 1
      /\ e \notin S => PlusUpTo(attempts, S, MaxAttempts)[e] = attempts[e]
  BY <1>1, PlusUpToCounts
<1> QED BY <1>1, <1>2

\* The messages of a batch are the batch, cut into disjoint parts.
LEMMA MessagesPartition ==
    ASSUME NEW C \in SUBSET Ids
    PROVE  /\ Messages(C) \subseteq SUBSET Ids
           /\ UNION Messages(C) = C
           /\ \A m \in Messages(C) : m # {}
           /\ \A m, n \in Messages(C) : m = n \/ m \cap n = {}
<1> DEFINE Group(e) == {d \in C : owner[d] = owner[e]}
           Digest(e) == Cardinality(Group(e)) > 1 /\ \A d \in Group(e) : notice[d]
           Message(e) == IF Digest(e) THEN Group(e) ELSE {e}
<1>1. Messages(C) = {Message(e) : e \in C}
  BY DEF Messages
<1>2. \A e \in C : e \in Message(e) /\ Message(e) \subseteq C /\ Message(e) \subseteq Group(e)
  OBVIOUS
<1>3. ASSUME NEW e \in C, NEW f \in C, NEW x, x \in Message(e), x \in Message(f)
      PROVE  Message(e) = Message(f)
  <2>1. owner[e] = owner[f]
    BY <1>2, <1>3
  <2>2. Group(e) = Group(f)
    BY <2>1
  <2>3. Digest(e) <=> Digest(f)
    BY <2>2
  <2> QED BY <1>3, <2>2, <2>3
<1> HIDE DEF Message
<1>4. \A m, n \in Messages(C) : m = n \/ m \cap n = {}
  BY <1>1, <1>3
<1> QED BY <1>1, <1>2, <1>4

LEMMA ClaimedPending ==
    /\ Claimed \subseteq Ids
    /\ \A e \in Claimed : status[e] = "pending" /\ age[e] # "fresh"
BY DEF Claimed, Claimable

-----------------------------------------------------------------------------
(* Types.                                                                   *)

RowType ==
    /\ status \in [Ids -> {"pending", "sent", "refused", "spent"}]
    /\ age \in [Ids -> {None, "fresh", "stale"}] /\ attempts \in [Ids -> 0..MaxAttempts]
    /\ \A e \in Ids : status[e] # "pending" => age[e] = None
WorkerType ==
    /\ todo \in [Workers -> SUBSET SUBSET Ids]
    /\ sending \in [Workers -> SUBSET Ids] /\ left \in [Workers -> SUBSET Ids]
    /\ outcome \in [Workers -> {None, "sent", "refused", "retry", "raised"}]
    /\ \A w \in Workers : left[w] \subseteq sending[w] /\ (sending[w] = {} <=> outcome[w] = None)
HistoryType ==
    /\ owner \in [Ids -> Users \cup {None}] /\ notice \in [Ids -> BOOLEAN]
    /\ shown \in [Ids -> 0..2] /\ tries \in [Ids -> 0..MaxAttempts + 1]
    /\ excused \subseteq Ids /\ loosened \subseteq Ids /\ faults \in 0..Faults
SeenType == seen \in [Workers -> [Ids -> 0..MaxAttempts]]

LEMMA TypeParts == TypeOK <=> RowType /\ WorkerType /\ HistoryType /\ SeenType
BY DEF TypeOK, RowType, WorkerType, HistoryType, SeenType

LEMMA ForgetSeen ==
    ASSUME SeenType, NEW w \in Workers, NEW S, Forget(w, S)
    PROVE  /\ SeenType'
           /\ \A v \in Workers, e \in Ids : seen'[v][e] = seen[v][e] \/ seen'[v][e] = 0
<1>1. [e \in Ids |-> IF e \in S THEN 0 ELSE seen[w][e]] \in [Ids -> 0..MaxAttempts]
  BY CapsAreNat DEF SeenType
<1>2. SeenType'
  BY <1>1 DEF Forget, SeenType
<1> QED BY <1>2 DEF Forget, SeenType

\* The four ends of a message, and a mark that does not raise.
Sends(w, m) == Delivered(w, m) \/ UserRefuses(w, m) \/ SendFails(w, m) \/ SendRaises(w, m)
Marks(w, e) == Marked(w, e) /\ Ticks(w, e)

\* A mark that raises leaves the message to the handler, and what is not recorded
\* of it, or would be counted again, excused.
LEMMA MarkRaisesFields ==
    ASSUME WorkerType, NEW w \in Workers, NEW e \in left[w], MarkRaises(w, e)
    PROVE  /\ e \in Ids /\ left[w] \subseteq Ids /\ sending[w] \subseteq Ids
           /\ e \in sending[w] /\ left[w] \subseteq sending[w] /\ sending' = sending
           /\ \/ UNCHANGED row /\ left' = left
              \/ Marked(w, e) /\ left'[w] = left[w] \ {e}
           /\ left'[w] \subseteq left[w] /\ left' \in [Workers -> SUBSET Ids]
           /\ \A v \in Workers : v # w => left'[v] = left[v] /\ outcome'[v] = outcome[v]
           /\ outcome'[w] = "raised"
           /\ outcome' \in [Workers -> {None, "sent", "refused", "retry", "raised"}]
           /\ excused \subseteq excused' /\ excused' \subseteq excused \cup sending[w]
           /\ outcome[w] = "sent" => left'[w] \subseteq excused'
           /\ outcome[w] = "retry" => sending[w] \ left'[w] \subseteq excused'
<1>1. e \in Ids /\ left[w] \subseteq Ids /\ sending[w] \subseteq Ids /\ left[w] \subseteq sending[w]
  BY DEF WorkerType
<1>2. \/ UNCHANGED row /\ left' = left
      \/ Marked(w, e) /\ left' = [left EXCEPT ![w] = @ \ {e}]
  BY DEF MarkRaises
<1>3. /\ left' \in [Workers -> SUBSET Ids]
      /\ \/ UNCHANGED row /\ left' = left
         \/ Marked(w, e) /\ left'[w] = left[w] \ {e}
      /\ \A v \in Workers : v # w => left'[v] = left[v]
  BY <1>2 DEF WorkerType
<1>4. left'[w] \subseteq left[w]
  BY <1>3
<1>5. outcome' = [outcome EXCEPT ![w] = "raised"] /\ sending' = sending
  BY DEF MarkRaises
<1>6. /\ outcome' \in [Workers -> {None, "sent", "refused", "retry", "raised"}]
      /\ outcome'[w] = "raised" /\ \A v \in Workers : v # w => outcome'[v] = outcome[v]
  BY <1>5 DEF WorkerType
<1>7. excused' = excused \cup CASE outcome[w] = "sent" -> left'[w]
                              [] outcome[w] = "retry" -> sending[w] \ left'[w]
                              [] OTHER -> {}
  BY DEF MarkRaises
<1>8. /\ excused \subseteq excused' /\ excused' \subseteq excused \cup sending[w]
      /\ outcome[w] = "sent" => left'[w] \subseteq excused'
      /\ outcome[w] = "retry" => sending[w] \ left'[w] \subseteq excused'
  <2>1. CASE outcome[w] = "sent"
    BY <1>1, <1>4, <1>7, <2>1
  <2>2. CASE outcome[w] = "retry"
    BY <1>7, <2>2
  <2>3. CASE outcome[w] # "sent" /\ outcome[w] # "retry"
    BY <1>7, <2>3
  <2> QED BY <2>1, <2>2, <2>3
<1> QED BY <1>1, <1>3, <1>4, <1>5, <1>6, <1>8

LEMMA HistoryTypeStep ==
    ASSUME HistoryType, WorkerType, [Next]_vars
    PROVE  HistoryType'
<1> USE DEF HistoryType
<1>1. \A S : /\ PlusUpTo(shown, S, 2) \in [Ids -> 0..2]
             /\ PlusUpTo(tries, S, MaxAttempts + 1) \in [Ids -> 0..MaxAttempts + 1]
  BY PlusUpToCounts, CapsAreNat
<1>2. \A w \in Workers : \A m \in todo[w] : m \subseteq Ids
  BY DEF WorkerType
<1>3. ASSUME NEW u \in Users, NEW n \in BOOLEAN, Detect(u, n) PROVE HistoryType'
  BY <1>3 DEF Detect, history
<1>4. ASSUME NEW w \in Workers, Claim(w) PROVE HistoryType'
  BY <1>4 DEF Claim, events, history
<1>5. ASSUME NEW w \in Workers, NEW m \in todo[w], Sends(w, m) PROVE HistoryType'
  BY <1>1, <1>5, BoundsAssumption
  DEF Sends, Delivered, UserRefuses, SendFails, SendRaises, Ends, Tried, Shown, events
<1>6. ASSUME NEW w \in Workers, NEW m \in todo[w], AnswerLost(w, m) PROVE HistoryType'
  BY <1>1, <1>2, <1>6, BoundsAssumption DEF AnswerLost, Shown, events
<1>7. ASSUME NEW w \in Workers, NEW e \in left[w], Marks(w, e) PROVE HistoryType'
  BY <1>7 DEF Marks, Ticks, events, history
<1>8. ASSUME NEW w \in Workers, NEW e \in left[w], MarkRaises(w, e) PROVE HistoryType'
  <2>1. excused' \subseteq Ids
    BY <1>8, MarkRaisesFields
  <2> QED BY <1>8, <2>1, BoundsAssumption DEF MarkRaises, events
<1>9. ASSUME NEW w \in Workers, NEW e \in sending[w], ReleaseAfter(w, e) PROVE HistoryType'
  <2>1. e \in Ids
    BY DEF WorkerType
  <2> QED BY <1>9, <2>1 DEF ReleaseAfter, events
<1>10. ASSUME NEW w \in Workers, Crash(w) PROVE HistoryType'
  <2>1. left[w] \subseteq Ids
    BY DEF WorkerType
  <2> QED BY <1>10, <2>1, BoundsAssumption DEF Crash, events
<1>11. ASSUME NEW e \in Ids, ClaimAges(e) PROVE HistoryType'
  BY <1>11 DEF ClaimAges, events
<1>12. CASE Reap \/ UNCHANGED vars
  BY <1>12 DEF Reap, vars, events, history
<1> QED
  BY <1>3, <1>4, <1>5, <1>6, <1>7, <1>8, <1>9, <1>10, <1>11, <1>12
  DEF Next, Work, Send, MarkOne, Sends, Marks

LEMMA RowTypeStep ==
    ASSUME RowType, WorkerType, [Next]_vars
    PROVE  RowType'
<1> USE DEF RowType
<1>1. \A S : PlusUpTo(attempts, S, MaxAttempts) \in [Ids -> 0..MaxAttempts]
  BY PlusUpToCounts, CapsAreNat
<1>2. ASSUME NEW u \in Users, NEW n \in BOOLEAN, Detect(u, n) PROVE RowType'
  BY <1>2 DEF Detect, row
<1>3. ASSUME NEW w \in Workers, Claim(w) PROVE RowType'
  BY <1>3, ClaimedPending DEF Claim
<1>4. ASSUME NEW w \in Workers, NEW m \in todo[w], Sends(w, m) PROVE RowType'
  BY <1>4 DEF Sends, Delivered, UserRefuses, SendFails, SendRaises, Ends, row
<1>5. ASSUME NEW w \in Workers, NEW m \in todo[w], AnswerLost(w, m) PROVE RowType'
  BY <1>5 DEF AnswerLost, row
<1>6. ASSUME NEW w \in Workers, NEW e \in left[w], Marked(w, e) PROVE RowType'
  <2>1. e \in Ids
    BY DEF WorkerType
  <2>2. CASE MarkSent(w, e)
    BY <2>1, <2>2 DEF MarkSent
  <2>3. CASE MarkFailed(w, e)
    BY <2>1, <2>3 DEF MarkFailed
  <2>4. CASE Release(w, e)
    BY <1>1, <2>1, <2>4 DEF Release, Counted
  <2> QED BY <1>6, <2>2, <2>3, <2>4 DEF Marked
<1>7. ASSUME NEW w \in Workers, NEW e \in left[w], Marks(w, e) \/ MarkRaises(w, e)
      PROVE  RowType'
  <2>1. Marked(w, e) \/ UNCHANGED row
    BY <1>7 DEF Marks, MarkRaises
  <2> QED BY <1>6, <2>1 DEF row
<1>8. ASSUME NEW w \in Workers, NEW e \in sending[w], ReleaseAfter(w, e) PROVE RowType'
  <2>1. e \in Ids
    BY DEF WorkerType
  <2> QED BY <1>1, <1>8, <2>1 DEF ReleaseAfter, Counted
<1>9. ASSUME NEW e \in Ids, ClaimAges(e) PROVE RowType'
  BY <1>9 DEF ClaimAges
<1>10. CASE Reap
  BY <1>10 DEF Reap
<1>11. CASE UNCHANGED vars \/ \E w \in Workers : Crash(w)
  BY <1>11 DEF vars, Crash, row
<1> QED
  BY <1>2, <1>3, <1>4, <1>5, <1>7, <1>8, <1>9, <1>10, <1>11
  DEF Next, Work, Send, MarkOne, Sends, Marks

LEMMA SeenTypeStep ==
    ASSUME SeenType, RowType, [Next]_vars
    PROVE  SeenType'
<1>1. CASE seen' = seen
  BY <1>1 DEF SeenType
<1>2. CASE \E w \in Workers : \E S : Forget(w, S)
  BY <1>2, ForgetSeen
<1>3. ASSUME NEW w \in Workers, Claim(w) PROVE SeenType'
  <2>1. [e \in Ids |-> IF e \in Claimed THEN attempts[e] ELSE 0] \in [Ids -> 0..MaxAttempts]
    BY CapsAreNat DEF RowType
  <2> QED BY <1>3, <2>1 DEF Claim, SeenType
<1>4. ASSUME NEW w \in Workers, NEW m \in todo[w], Sends(w, m) \/ AnswerLost(w, m)
      PROVE  SeenType'
  BY <1>1, <1>4
  DEF Sends, Delivered, UserRefuses, SendFails, SendRaises, Ends, AnswerLost, worker
<1>5. ASSUME NEW w \in Workers, NEW e \in left[w], Marks(w, e) \/ MarkRaises(w, e)
      PROVE  SeenType'
  BY <1>2, <1>5 DEF Marks, Ticks, MarkRaises
<1>6. ASSUME NEW w \in Workers, Crash(w) \/ \E e \in sending[w] : ReleaseAfter(w, e)
      PROVE  SeenType'
  BY <1>2, <1>6 DEF Crash, ReleaseAfter
<1>7. ASSUME \/ \E u \in Users, n \in BOOLEAN : Detect(u, n)
             \/ \E e \in Ids : ClaimAges(e)
             \/ Reap \/ UNCHANGED vars
      PROVE  SeenType'
  BY <1>1, <1>7 DEF Detect, ClaimAges, Reap, vars, worker
<1> QED
  BY <1>3, <1>4, <1>5, <1>6, <1>7 DEF Next, Work, Send, MarkOne, Sends, Marks

-----------------------------------------------------------------------------
(* What the workers hold.                                                   *)

\* A claim is of what nobody with a fresh claim holds, and by a worker that has
\* nothing left.
LEMMA ClaimWork ==
    ASSUME WorkerType, Shape, NEW w \in Workers, Claim(w)
    PROVE  /\ WorkerType' /\ Shape'
           /\ Held(w)' = Claimed
           /\ \A v \in Workers : v # w => Held(v)' = Held(v)
<1>1. todo[w] = {} /\ left[w] = {} /\ sending[w] = {}
  BY DEF Claim, Idle, WorkerType
<1>2. /\ todo' = [todo EXCEPT ![w] = Messages(Claimed)]
      /\ sending' = sending /\ left' = left /\ outcome' = outcome
  BY DEF Claim
<1>3. /\ Messages(Claimed) \subseteq SUBSET Ids
      /\ UNION Messages(Claimed) = Claimed
      /\ \A m \in Messages(Claimed) : m # {}
      /\ \A m, n \in Messages(Claimed) : m = n \/ m \cap n = {}
  BY ClaimedPending, MessagesPartition
<1>4. WorkerType'
  BY <1>2, <1>3 DEF WorkerType
<1>5. todo'[w] = Messages(Claimed) /\ \A v \in Workers : v # w => todo'[v] = todo[v]
  BY <1>2 DEF WorkerType
<1>6. Shape'
  <2> SUFFICES ASSUME NEW v \in Workers
               PROVE  (/\ \A m \in todo[v] : m # {} /\ m \cap sending[v] = {}
                       /\ \A m, n \in todo[v] : m = n \/ m \cap n = {})'
    BY DEF Shape
  <2>1. CASE v = w
    BY <1>1, <1>2, <1>3, <1>5, <2>1
  <2>2. CASE v # w
    BY <1>2, <1>5, <2>2 DEF Shape
  <2> QED BY <2>1, <2>2
<1>7. Held(w)' = Claimed
  BY <1>1, <1>2, <1>3, <1>5 DEF Held
<1> QED BY <1>2, <1>4, <1>5, <1>6, <1>7 DEF Held

\* The end of a message: the worker goes on holding what it held.
LEMMA SendsWork ==
    ASSUME WorkerType, Shape, NEW w \in Workers, NEW m \in todo[w], Sends(w, m)
    PROVE  /\ WorkerType' /\ Shape'
           /\ \A v \in Workers : Held(v)' = Held(v)
           /\ left[w] = {} /\ left' = [left EXCEPT ![w] = m]
           /\ sending[w] = {} /\ sending' = [sending EXCEPT ![w] = m]
           /\ \E how \in {"sent", "refused", "retry", "raised"} :
                outcome' = [outcome EXCEPT ![w] = how] /\ (how = "sent" => Shown(m))
<1>1. PICK how \in {"sent", "refused", "retry", "raised"} : Ends(w, m, how) /\ (how = "sent" => Shown(m))
  BY DEF Sends, Delivered, UserRefuses, SendFails, SendRaises
<1>2. /\ sending[w] = {}
      /\ todo' = [todo EXCEPT ![w] = @ \ {m}]
      /\ sending' = [sending EXCEPT ![w] = m] /\ left' = [left EXCEPT ![w] = m]
      /\ outcome' = [outcome EXCEPT ![w] = how]
  BY <1>1 DEF Ends
<1>3. m # {} /\ m \subseteq Ids /\ left[w] = {}
  BY <1>2 DEF Shape, WorkerType
<1>4. /\ todo'[w] = todo[w] \ {m} /\ sending'[w] = m /\ left'[w] = m /\ outcome'[w] = how
      /\ \A v \in Workers : v # w => /\ todo'[v] = todo[v] /\ sending'[v] = sending[v]
                                     /\ left'[v] = left[v] /\ outcome'[v] = outcome[v]
  BY <1>2 DEF WorkerType
<1>5. WorkerType'
  <2>1. /\ todo' \in [Workers -> SUBSET SUBSET Ids]
        /\ sending' \in [Workers -> SUBSET Ids] /\ left' \in [Workers -> SUBSET Ids]
        /\ outcome' \in [Workers -> {None, "sent", "refused", "retry", "raised"}]
    BY <1>2, <1>3 DEF WorkerType
  <2>2. how # None
    BY NoneAssumption
  <2>3. \A v \in Workers : left'[v] \subseteq sending'[v] /\ (sending'[v] = {} <=> outcome'[v] = None)
    BY <1>3, <1>4, <2>2 DEF WorkerType
  <2> QED BY <2>1, <2>3 DEF WorkerType
<1>6. Shape'
  <2> SUFFICES ASSUME NEW v \in Workers
               PROVE  (/\ \A n \in todo[v] : n # {} /\ n \cap sending[v] = {}
                       /\ \A n, l \in todo[v] : n = l \/ n \cap l = {})'
    BY DEF Shape
  <2>1. CASE v = w
    BY <1>4, <2>1 DEF Shape
  <2>2. CASE v # w
    BY <1>4, <2>2 DEF Shape
  <2> QED BY <2>1, <2>2
<1>7. Held(w)' = Held(w)
  BY <1>3, <1>4 DEF Held
<1>8. \A v \in Workers : Held(v)' = Held(v)
  BY <1>4, <1>7 DEF Held
<1> QED BY <1>1, <1>2, <1>3, <1>5, <1>6, <1>8

\* A marked event is held no longer.
LEMMA MarksWork ==
    ASSUME WorkerType, Shape, NEW w \in Workers, NEW e \in left[w], Ticks(w, e)
    PROVE  /\ WorkerType' /\ Shape'
           /\ Held(w)' = Held(w) \ {e}
           /\ \A v \in Workers : v # w => Held(v)' = Held(v)
           /\ left' = [left EXCEPT ![w] = @ \ {e}]
           /\ \A v \in Workers, d \in Ids : d \in left'[v] => outcome'[v] = outcome[v]
<1>1. /\ left' = [left EXCEPT ![w] = @ \ {e}] /\ todo' = todo
      /\ outcome' = [outcome EXCEPT ![w] = IF left[w] = {e} THEN None ELSE @]
      /\ sending' = [sending EXCEPT ![w] = IF left[w] = {e} THEN {} ELSE @]
  BY DEF Ticks
<1>2. /\ left'[w] = left[w] \ {e}
      /\ outcome'[w] = IF left[w] = {e} THEN None ELSE outcome[w]
      /\ sending'[w] = IF left[w] = {e} THEN {} ELSE sending[w]
      /\ \A v \in Workers : v # w => /\ sending'[v] = sending[v]
                                     /\ left'[v] = left[v] /\ outcome'[v] = outcome[v]
  BY <1>1 DEF WorkerType
<1>3. WorkerType'
  <2>1. /\ sending' \in [Workers -> SUBSET Ids] /\ left' \in [Workers -> SUBSET Ids]
        /\ outcome' \in [Workers -> {None, "sent", "refused", "retry", "raised"}]
    BY <1>1 DEF WorkerType
  <2>2. \A v \in Workers : left'[v] \subseteq sending'[v] /\ (sending'[v] = {} <=> outcome'[v] = None)
    BY <1>2 DEF WorkerType
  <2> QED BY <1>1, <2>1, <2>2 DEF WorkerType
<1>4. Shape'
  <2> SUFFICES ASSUME NEW v \in Workers
               PROVE  (/\ \A n \in todo[v] : n # {} /\ n \cap sending[v] = {}
                       /\ \A n, l \in todo[v] : n = l \/ n \cap l = {})'
    BY DEF Shape
  <2>1. sending'[v] \subseteq sending[v]
    BY <1>2
  <2> QED BY <1>1, <2>1 DEF Shape
<1>5. e \notin UNION todo[w]
  BY DEF Shape, WorkerType
<1>6. Held(w)' = Held(w) \ {e}
  BY <1>1, <1>2, <1>5 DEF Held
<1>7. \A v \in Workers, d \in Ids : d \in left'[v] => outcome'[v] = outcome[v]
  BY <1>2
<1> QED BY <1>1, <1>2, <1>3, <1>4, <1>6, <1>7 DEF Held

\* An exception keeps the message for its handler.
LEMMA RaisesWork ==
    ASSUME WorkerType, Shape, NEW w \in Workers, NEW e \in left[w], MarkRaises(w, e)
    PROVE  /\ WorkerType' /\ Shape'
           /\ Held(w)' \subseteq Held(w) /\ (left'[w] = left[w] \ {e} => e \notin Held(w)')
           /\ \A v \in Workers : v # w => Held(v)' = Held(v)
<1>1. /\ left'[w] \subseteq left[w] /\ left[w] \subseteq sending[w] /\ e \in sending[w]
      /\ left' \in [Workers -> SUBSET Ids]
      /\ outcome' \in [Workers -> {None, "sent", "refused", "retry", "raised"}]
      /\ outcome'[w] = "raised"
      /\ \A v \in Workers : v # w => left'[v] = left[v] /\ outcome'[v] = outcome[v]
  BY MarkRaisesFields
<1>2. todo' = todo /\ sending' = sending
  BY DEF MarkRaises
<1>3. WorkerType'
  <2>1. ASSUME NEW v \in Workers
        PROVE  left'[v] \subseteq sending'[v] /\ (sending'[v] = {} <=> outcome'[v] = None)
    <3>1. CASE v = w
      BY <1>1, <1>2, <3>1, NoneAssumption
    <3>2. CASE v # w
      BY <1>1, <1>2, <3>2 DEF WorkerType
    <3> QED BY <3>1, <3>2
  <2> QED BY <1>1, <1>2, <2>1 DEF WorkerType
<1>4. Shape'
  BY <1>2 DEF Shape
<1>5. e \notin UNION todo[w]
  BY <1>1 DEF Shape
<1> QED BY <1>1, <1>2, <1>3, <1>4, <1>5 DEF Held

\* The handler lets go of the events one by one.
LEMMA ReleaseWork ==
    ASSUME WorkerType, Shape, NEW w \in Workers, NEW e \in sending[w], ReleaseAfter(w, e)
    PROVE  /\ WorkerType' /\ Shape'
           /\ Held(w)' = Held(w) \ {e}
           /\ \A v \in Workers : v # w => Held(v)' = Held(v)
           /\ left' = [left EXCEPT ![w] = @ \ {e}] /\ sending' = [sending EXCEPT ![w] = @ \ {e}]
           /\ \A v \in Workers : v # w => outcome'[v] = outcome[v]
           /\ outcome[w] = "raised" /\ outcome'[w] \in {None, "raised"}
<1>1. /\ left' = [left EXCEPT ![w] = @ \ {e}] /\ todo' = todo /\ outcome[w] = "raised"
      /\ outcome' = [outcome EXCEPT ![w] = IF sending[w] = {e} THEN None ELSE @]
      /\ sending' = [sending EXCEPT ![w] = @ \ {e}]
  BY DEF ReleaseAfter
<1>2. /\ left'[w] = left[w] \ {e} /\ sending'[w] = sending[w] \ {e}
      /\ outcome'[w] = IF sending[w] = {e} THEN None ELSE "raised"
      /\ \A v \in Workers : v # w => /\ sending'[v] = sending[v]
                                     /\ left'[v] = left[v] /\ outcome'[v] = outcome[v]
  BY <1>1 DEF WorkerType
<1>3. WorkerType'
  <2>1. /\ sending' \in [Workers -> SUBSET Ids] /\ left' \in [Workers -> SUBSET Ids]
        /\ outcome' \in [Workers -> {None, "sent", "refused", "retry", "raised"}]
    BY <1>1 DEF WorkerType
  <2>2. ASSUME NEW v \in Workers
        PROVE  left'[v] \subseteq sending'[v] /\ (sending'[v] = {} <=> outcome'[v] = None)
    <3>1. CASE v = w
      BY <1>2, <3>1, NoneAssumption DEF WorkerType
    <3>2. CASE v # w
      BY <1>2, <3>2 DEF WorkerType
    <3> QED BY <3>1, <3>2
  <2> QED BY <1>1, <2>1, <2>2 DEF WorkerType
<1>4. Shape'
  <2> SUFFICES ASSUME NEW v \in Workers
               PROVE  (/\ \A n \in todo[v] : n # {} /\ n \cap sending[v] = {}
                       /\ \A n, l \in todo[v] : n = l \/ n \cap l = {})'
    BY DEF Shape
  <2>1. sending'[v] \subseteq sending[v]
    BY <1>2
  <2> QED BY <1>1, <2>1 DEF Shape
<1>5. e \notin UNION todo[w]
  BY DEF Shape
<1>6. Held(w)' = Held(w) \ {e}
  BY <1>1, <1>2, <1>5 DEF Held
<1> QED BY <1>1, <1>2, <1>3, <1>4, <1>6 DEF Held

\* A crash ends everything the worker had.
LEMMA CrashWork ==
    ASSUME WorkerType, Shape, NEW w \in Workers, Crash(w)
    PROVE  /\ WorkerType' /\ Shape'
           /\ \A v \in Workers : Held(v)' \subseteq Held(v)
           /\ left' = [left EXCEPT ![w] = {}] /\ sending' = [sending EXCEPT ![w] = {}]
           /\ outcome' = [outcome EXCEPT ![w] = None]
<1>1. /\ todo' = [todo EXCEPT ![w] = {}]
      /\ sending' = [sending EXCEPT ![w] = {}] /\ left' = [left EXCEPT ![w] = {}]
      /\ outcome' = [outcome EXCEPT ![w] = None]
  BY DEF Crash
<1>2. /\ left'[w] = {} /\ sending'[w] = {} /\ outcome'[w] = None /\ todo'[w] = {}
      /\ \A v \in Workers : v # w => /\ todo'[v] = todo[v] /\ sending'[v] = sending[v]
                                     /\ left'[v] = left[v] /\ outcome'[v] = outcome[v]
  BY <1>1 DEF WorkerType
<1>3. WorkerType'
  <2>1. /\ todo' \in [Workers -> SUBSET SUBSET Ids]
        /\ sending' \in [Workers -> SUBSET Ids] /\ left' \in [Workers -> SUBSET Ids]
        /\ outcome' \in [Workers -> {None, "sent", "refused", "retry", "raised"}]
    BY <1>1 DEF WorkerType
  <2>2. \A v \in Workers : left'[v] \subseteq sending'[v] /\ (sending'[v] = {} <=> outcome'[v] = None)
    BY <1>2 DEF WorkerType
  <2> QED BY <2>1, <2>2 DEF WorkerType
<1>4. Shape'
  <2> SUFFICES ASSUME NEW v \in Workers
               PROVE  (/\ \A n \in todo[v] : n # {} /\ n \cap sending[v] = {}
                       /\ \A n, l \in todo[v] : n = l \/ n \cap l = {})'
    BY DEF Shape
  <2>1. todo'[v] \subseteq todo[v] /\ sending'[v] \subseteq sending[v]
    BY <1>2
  <2> QED BY <2>1 DEF Shape
<1>5. \A v \in Workers : Held(v)' \subseteq Held(v)
  BY <1>2 DEF Held
<1> QED BY <1>1, <1>3, <1>4, <1>5

\* The other steps touch no worker.
LEMMA OthersWork ==
    ASSUME WorkerType, Shape,
           \/ \E u \in Users, n \in BOOLEAN : Detect(u, n)
           \/ \E w \in Workers : \E m \in todo[w] : AnswerLost(w, m)
           \/ \E e \in Ids : ClaimAges(e)
           \/ Reap \/ UNCHANGED vars
    PROVE  /\ WorkerType' /\ Shape' /\ left' = left /\ outcome' = outcome
           /\ sending' = sending /\ seen' = seen
           /\ \A v \in Workers : Held(v)' = Held(v)
<1>1. UNCHANGED worker
  BY DEF Detect, AnswerLost, ClaimAges, Reap, vars, worker
<1> QED BY <1>1 DEF worker, WorkerType, Shape, Held

LEMMA WorkStep ==
    ASSUME WorkerType, Shape, [Next]_vars
    PROVE  WorkerType' /\ Shape'
<1>1. ASSUME NEW w \in Workers, Claim(w) PROVE WorkerType' /\ Shape'
  BY <1>1, ClaimWork
<1>2. ASSUME NEW w \in Workers, NEW m \in todo[w], Sends(w, m) \/ AnswerLost(w, m)
      PROVE  WorkerType' /\ Shape'
  BY <1>2, SendsWork, OthersWork
<1>3. ASSUME NEW w \in Workers, NEW e \in left[w], Marks(w, e) \/ MarkRaises(w, e)
      PROVE  WorkerType' /\ Shape'
  BY <1>3, MarksWork, RaisesWork DEF Marks
<1>4. ASSUME NEW w \in Workers, Crash(w) \/ \E e \in sending[w] : ReleaseAfter(w, e)
      PROVE  WorkerType' /\ Shape'
  BY <1>4, CrashWork, ReleaseWork
<1>5. ASSUME \/ \E u \in Users, n \in BOOLEAN : Detect(u, n)
             \/ \E e \in Ids : ClaimAges(e)
             \/ Reap \/ UNCHANGED vars
      PROVE  WorkerType' /\ Shape'
  BY <1>5, OthersWork
<1> QED BY <1>1, <1>2, <1>3, <1>4, <1>5 DEF Next, Work, Send, MarkOne, Sends, Marks

-----------------------------------------------------------------------------
(* Exclusive claims.                                                        *)

\* A step that takes events away from workers, and changes no row that somebody
\* still holds.
LEMMA ExclusiveFrame ==
    ASSUME Exclusive, loosened \subseteq loosened',
           \A v \in Workers : Held(v)' \subseteq Held(v),
           \A e \in Ids \ loosened', v \in Workers :
                e \in Held(v)' => status'[e] = status[e] /\ age'[e] = age[e]
    PROVE  Exclusive'
<1> SUFFICES ASSUME NEW e \in Ids, e \notin loosened', NEW w \in Workers, e \in Held(w)'
             PROVE  (status[e] = "pending" /\ age[e] = "fresh" /\ Holders(e) = {w})'
  BY DEF Exclusive, Holders
<1>1. e \notin loosened /\ w \in Holders(e)
  BY DEF Holders
<1>2. status[e] = "pending" /\ age[e] = "fresh" /\ Holders(e) = {w}
  BY <1>1 DEF Exclusive
<1>3. \A v \in Workers : e \in Held(v)' => v = w
  BY <1>2 DEF Holders
<1> QED BY <1>2, <1>3 DEF Holders

LEMMA ExclusiveClaim ==
    ASSUME IInv, NEW w \in Workers, Claim(w)
    PROVE  Exclusive'
<1>1. /\ Held(w)' = Claimed /\ \A v \in Workers : v # w => Held(v)' = Held(v)
  BY ClaimWork, TypeParts DEF IInv
<1>2. /\ age' = [e \in Ids |-> IF e \in Claimed THEN "fresh" ELSE age[e]]
      /\ status' = status /\ loosened' = loosened
  BY DEF Claim, history
<1> SUFFICES ASSUME NEW e \in Ids, e \notin loosened, NEW u \in Workers, e \in Held(u)'
             PROVE  (status[e] = "pending" /\ age[e] = "fresh" /\ Holders(e) = {u})'
  BY <1>2 DEF Exclusive, Holders
<1>3. CASE e \in Claimed
  <2>1. status[e] = "pending" /\ age[e] # "fresh"
    BY <1>3, ClaimedPending
  <2>2. Holders(e) = {}
    BY <2>1 DEF IInv, Exclusive, Holders
  <2>3. \A v \in Workers : v # w => e \notin Held(v)'
    BY <1>1, <2>2 DEF Holders
  <2>4. u = w
    BY <2>3
  <2> QED BY <1>2, <1>3, <2>1, <2>3, <2>4 DEF Holders
<1>4. CASE e \notin Claimed
  <2>1. u # w /\ e \in Held(u)
    BY <1>1, <1>4
  <2>2. u \in Holders(e)
    BY <2>1 DEF Holders
  <2>3. status[e] = "pending" /\ age[e] = "fresh" /\ Holders(e) = {u}
    BY <2>2 DEF IInv, Exclusive
  <2>4. \A v \in Workers : e \in Held(v)' => v = u
    BY <1>1, <1>4, <2>3 DEF Holders
  <2> QED BY <1>2, <1>4, <2>3, <2>4 DEF Holders
<1> QED BY <1>3, <1>4

\* A mark changes the row of an event that its worker holds, and then no longer does.
LEMMA ExclusiveMark ==
    ASSUME RowType, WorkerType, Exclusive, NEW w \in Workers, NEW e \in left[w], Marked(w, e),
           loosened' = loosened, Held(w)' \subseteq Held(w), e \notin Held(w)',
           \A v \in Workers : v # w => Held(v)' = Held(v)
    PROVE  Exclusive'
<1>1. e \in Ids /\ e \in Held(w)
  BY DEF WorkerType, Held
<1>2. \A d \in Ids : d # e => status'[d] = status[d] /\ age'[d] = age[d]
  BY DEF Marked, MarkSent, MarkFailed, Release, RowType
<1>3. ASSUME NEW v \in Workers, e \in Held(v)' PROVE e \in loosened
  <2>1. v # w /\ e \in Held(v)
    BY <1>3
  <2> QED BY <1>1, <2>1 DEF Exclusive, Holders
<1> QED BY <1>2, <1>3, ExclusiveFrame

LEMMA ExclusiveStep ==
    ASSUME IInv, [Next]_vars
    PROVE  Exclusive'
<1>0. RowType /\ WorkerType /\ Shape /\ Exclusive
  BY TypeParts DEF IInv
<1>1. ASSUME NEW u \in Users, NEW n \in BOOLEAN, Detect(u, n) PROVE Exclusive'
  <2>1. \A v \in Workers : Held(v)' = Held(v)
    BY <1>0, <1>1, OthersWork
  <2> QED BY <1>0, <1>1, <2>1, ExclusiveFrame DEF Detect, row, history
<1>2. ASSUME NEW w \in Workers, Claim(w) PROVE Exclusive'
  BY <1>2, ExclusiveClaim
<1>3. ASSUME NEW w \in Workers, NEW m \in todo[w], Sends(w, m) PROVE Exclusive'
  <2>1. \A v \in Workers : Held(v)' = Held(v)
    BY <1>0, <1>3, SendsWork
  <2>2. UNCHANGED <<status, age, loosened>>
    BY <1>3 DEF Sends, Delivered, UserRefuses, SendFails, SendRaises, Ends, row
  <2> QED BY <1>0, <2>1, <2>2, ExclusiveFrame
<1>4. ASSUME NEW w \in Workers, NEW m \in todo[w], AnswerLost(w, m) PROVE Exclusive'
  <2>1. \A v \in Workers : Held(v)' = Held(v)
    BY <1>0, <1>4, OthersWork
  <2> QED BY <1>0, <1>4, <2>1, ExclusiveFrame DEF AnswerLost, row
<1>5. ASSUME NEW w \in Workers, NEW e \in left[w], Marks(w, e) PROVE Exclusive'
  <2>1. /\ Ticks(w, e) /\ Marked(w, e) /\ loosened' = loosened
    BY <1>5 DEF Marks, Ticks, history
  <2>2. /\ Held(w)' = Held(w) \ {e}
        /\ \A v \in Workers : v # w => Held(v)' = Held(v)
    BY <1>0, <1>5, <2>1, MarksWork
  <2> QED BY <1>0, <2>1, <2>2, ExclusiveMark
<1>6. ASSUME NEW w \in Workers, NEW e \in left[w], MarkRaises(w, e) PROVE Exclusive'
  <2>1. /\ Held(w)' \subseteq Held(w) /\ (left'[w] = left[w] \ {e} => e \notin Held(w)')
        /\ \A v \in Workers : v # w => Held(v)' = Held(v)
    BY <1>0, <1>6, RaisesWork
  <2>2. loosened' = loosened
    BY <1>6 DEF MarkRaises
  <2>3. CASE UNCHANGED row
    BY <1>0, <2>1, <2>2, <2>3, ExclusiveFrame DEF row
  <2>4. CASE Marked(w, e) /\ left'[w] = left[w] \ {e}
    BY <1>0, <2>1, <2>2, <2>4, ExclusiveMark
  <2> QED BY <1>0, <1>6, <2>3, <2>4, MarkRaisesFields
<1>7. ASSUME NEW w \in Workers, NEW e \in sending[w], ReleaseAfter(w, e) PROVE Exclusive'
  <2>1. /\ Held(w)' = Held(w) \ {e} /\ e \in Ids
        /\ \A v \in Workers : v # w => Held(v)' = Held(v)
    BY <1>0, <1>7, ReleaseWork DEF WorkerType
  <2>2. status' = status /\ loosened \subseteq loosened'
    BY <1>7 DEF ReleaseAfter
  <2>3. CASE UNCHANGED <<age, attempts, loosened>>
    BY <1>0, <2>1, <2>2, <2>3, ExclusiveFrame
  <2>4. CASE /\ age' = [age EXCEPT ![e] = None]
             /\ loosened' = loosened \cup (IF Holders(e) \ {w} # {} THEN {e} ELSE {})
    <3>1. \A d \in Ids : d # e => age'[d] = age[d]
      BY <1>0, <2>4 DEF RowType
    <3>2. ASSUME NEW v \in Workers, e \in Held(v)' PROVE e \in loosened'
      <4>1. v # w /\ v \in Holders(e)
        BY <2>1, <3>2 DEF Holders
      <4> QED BY <2>4, <4>1
    <3> QED BY <1>0, <2>1, <2>2, <3>1, <3>2, ExclusiveFrame
  <2> QED BY <1>7, <2>3, <2>4 DEF ReleaseAfter
<1>8. ASSUME NEW w \in Workers, Crash(w) PROVE Exclusive'
  <2>1. \A v \in Workers : Held(v)' \subseteq Held(v)
    BY <1>0, <1>8, CrashWork
  <2> QED BY <1>0, <1>8, <2>1, ExclusiveFrame DEF Crash, row
<1>9. ASSUME NEW e \in Ids, ClaimAges(e) PROVE Exclusive'
  <2>1. \A v \in Workers : Held(v)' = Held(v)
    BY <1>0, <1>9, OthersWork
  <2>2. /\ status' = status /\ age' = [age EXCEPT ![e] = "stale"]
        /\ loosened' = loosened \cup (IF Holders(e) # {} THEN {e} ELSE {})
    BY <1>9 DEF ClaimAges
  <2>3. ASSUME NEW d \in Ids \ loosened', NEW v \in Workers, d \in Held(v)'
        PROVE  age'[d] = age[d]
    BY <1>0, <2>1, <2>2, <2>3 DEF Holders, RowType
  <2> QED BY <1>0, <2>1, <2>2, <2>3, ExclusiveFrame
<1>10. CASE Reap
  <2>1. \A v \in Workers : Held(v)' = Held(v)
    BY <1>0, <1>10, OthersWork
  <2>2. ASSUME NEW d \in Ids \ loosened, NEW v \in Workers, d \in Held(v)'
        PROVE  age'[d] = age[d]
    <3>1. age[d] = "fresh"
      BY <1>0, <2>1, <2>2 DEF Exclusive, Holders
    <3> QED BY <1>10, <3>1 DEF Reap
  <2> QED BY <1>0, <1>10, <2>1, <2>2, ExclusiveFrame DEF Reap, history
<1>11. CASE UNCHANGED vars
  <2>1. \A v \in Workers : Held(v)' = Held(v)
    BY <1>0, <1>11, OthersWork
  <2> QED BY <1>0, <1>11, <2>1, ExclusiveFrame DEF vars
<1> QED
  BY <1>1, <1>2, <1>3, <1>4, <1>5, <1>6, <1>7, <1>8, <1>9, <1>10, <1>11
  DEF Next, Work, Send, MarkOne, Sends, Marks

-----------------------------------------------------------------------------
(* What was shown.                                                          *)

\* No step takes a delivery, a send, an attempt, an excuse or an outcome back.
LEMMA HistoryGrows ==
    ASSUME TypeOK, [Next]_vars
    PROVE  /\ \A e \in Ids : /\ shown[e] <= shown'[e] /\ tries[e] <= tries'[e]
                             /\ attempts[e] <= attempts'[e]
           /\ excused \subseteq excused' /\ loosened \subseteq loosened'
<1>1. ASSUME NEW S
      PROVE  \A e \in Ids :
               /\ shown[e] <= PlusUpTo(shown, S, 2)[e]
               /\ tries[e] <= PlusUpTo(tries, S, MaxAttempts + 1)[e]
               /\ attempts[e] <= PlusUpTo(attempts, S, MaxAttempts)[e]
  BY PlusUpToCounts, CapsAreNat DEF TypeOK
<1>2. \A e \in Ids : shown[e] \in Nat /\ tries[e] \in Nat /\ attempts[e] \in Nat
  <2>1. RowType /\ HistoryType
    BY TypeParts
  <2> QED BY <2>1, CapsAreNat DEF RowType, HistoryType
<1> DEFINE Effects == /\ shown' = shown \/ \E S : Shown(S)
                      /\ tries' = tries \/ \E S : Tried(S)
                      /\ attempts' = attempts \/ \E S : Counted(S)
                      /\ excused \subseteq excused' /\ loosened \subseteq loosened'
<1>3. Effects
  <2>1. ASSUME NEW w \in Workers, NEW m \in todo[w], Sends(w, m) PROVE Effects
    BY <2>1 DEF Sends, Delivered, UserRefuses, SendFails, SendRaises, Ends, row
  <2>2. ASSUME NEW w \in Workers, NEW m \in todo[w], AnswerLost(w, m) PROVE Effects
    BY <2>2 DEF AnswerLost, row
  <2>3. ASSUME NEW w \in Workers, NEW e \in left[w], Marked(w, e)
        PROVE  attempts' = attempts \/ \E S : Counted(S)
    BY <2>3 DEF Marked, MarkSent, MarkFailed, Release
  <2>4. ASSUME NEW w \in Workers, NEW e \in left[w], Marks(w, e) \/ MarkRaises(w, e)
        PROVE  Effects
    <3>1. attempts' = attempts \/ \E S : Counted(S)
      BY <2>3, <2>4 DEF Marks, MarkRaises, row
    <3> QED BY <2>4, <3>1 DEF Marks, Ticks, MarkRaises, history
  <2>5. ASSUME NEW w \in Workers, NEW e \in sending[w], ReleaseAfter(w, e)
        PROVE  Effects
    BY <2>5 DEF ReleaseAfter
  <2>6. ASSUME NEW w \in Workers, Claim(w) \/ Crash(w) PROVE Effects
    BY <2>6 DEF Claim, Crash, row, history
  <2>7. ASSUME \/ \E u \in Users, n \in BOOLEAN : Detect(u, n)
               \/ \E e \in Ids : ClaimAges(e)
               \/ Reap \/ UNCHANGED vars
        PROVE  Effects
    BY <2>7 DEF Detect, ClaimAges, Reap, vars, row, history
  <2> HIDE DEF Effects
  <2> QED
    BY <2>1, <2>2, <2>4, <2>5, <2>6, <2>7 DEF Next, Work, Send, MarkOne, Sends, Marks
<1>7. \A e \in Ids : shown[e] <= shown'[e]
  BY <1>1, <1>2, <1>3 DEF Shown
<1>8. \A e \in Ids : tries[e] <= tries'[e]
  BY <1>1, <1>2, <1>3 DEF Tried
<1>9. \A e \in Ids : attempts[e] <= attempts'[e]
  BY <1>1, <1>2, <1>3 DEF Counted
<1> QED BY <1>3, <1>7, <1>8, <1>9

\* How an outcome comes to be recorded for an event, and how that ends.
Dropped(w) ==
    \/ (\E e \in left[w] : MarkRaises(w, e)) \/ Crash(w)
    \/ \E e \in sending[w] : ReleaseAfter(w, e)

LEMMA LeftChanges ==
    ASSUME IInv, [Next]_vars, NEW v \in Workers, NEW e \in Ids
    PROVE  /\ e \in left'[v] => \/ e \in left[v] /\ outcome'[v] \in {outcome[v], "raised"}
                                \/ \E m \in todo[v] : e \in m /\ Sends(v, m)
           /\ e \in left[v] => \/ e \in left'[v] /\ outcome'[v] = outcome[v]
                               \/ Marks(v, e) \/ Dropped(v)
<1> DEFINE Goal == /\ e \in left'[v] => \/ e \in left[v] /\ outcome'[v] \in {outcome[v], "raised"}
                                        \/ \E m \in todo[v] : e \in m /\ Sends(v, m)
                   /\ e \in left[v] => \/ e \in left'[v] /\ outcome'[v] = outcome[v]
                                       \/ Marks(v, e) \/ Dropped(v)
<1>0. WorkerType /\ Shape
  BY TypeParts DEF IInv
<1>1. CASE left' = left /\ outcome' = outcome
  BY <1>1
<1>2. ASSUME NEW w \in Workers, NEW m \in todo[w], Sends(w, m) PROVE Goal
  BY <1>0, <1>2, SendsWork DEF WorkerType
<1>3. ASSUME NEW w \in Workers, NEW d \in left[w], Marks(w, d) PROVE Goal
  <2>1. Ticks(w, d)
    BY <1>3 DEF Marks
  <2>2. /\ left' = [left EXCEPT ![w] = @ \ {d}]
        /\ e \in left'[v] => outcome'[v] = outcome[v]
    BY <1>0, <2>1, MarksWork
  <2> QED BY <1>0, <1>3, <2>2 DEF WorkerType
<1>4. ASSUME NEW w \in Workers, Dropped(w) PROVE Goal
  <2> DEFINE Fewer == /\ \A u \in Workers : u # w => left'[u] = left[u] /\ outcome'[u] = outcome[u]
                      /\ left'[w] \subseteq left[w]
                      /\ left'[w] = {} \/ outcome'[w] \in {outcome[w], "raised"}
  <2>1. Fewer
    <3>1. ASSUME NEW d \in left[w], MarkRaises(w, d) PROVE Fewer
      BY <1>0, <3>1, MarkRaisesFields
    <3>2. CASE Crash(w)
      <4>1. left' = [left EXCEPT ![w] = {}] /\ outcome' = [outcome EXCEPT ![w] = None]
        BY <1>0, <3>2, CrashWork
      <4> QED BY <1>0, <4>1 DEF WorkerType
    <3>3. ASSUME NEW d \in sending[w], ReleaseAfter(w, d) PROVE Fewer
      <4>1. /\ left' = [left EXCEPT ![w] = @ \ {d}] /\ WorkerType'
            /\ \A u \in Workers : u # w => outcome'[u] = outcome[u]
            /\ outcome'[w] \in {None, "raised"}
        BY <1>0, <3>3, ReleaseWork
      <4>2. outcome'[w] = None => left'[w] = {}
        BY <4>1 DEF WorkerType
      <4> QED BY <1>0, <4>1, <4>2 DEF WorkerType
    <3> QED BY <1>4, <3>1, <3>2, <3>3 DEF Dropped
  <2>2. CASE v = w
    BY <1>4, <2>1, <2>2
  <2>3. CASE v # w
    BY <2>1, <2>3
  <2> QED BY <2>2, <2>3
<1>5. ASSUME \/ \E u \in Users, n \in BOOLEAN : Detect(u, n)
             \/ \E w \in Workers : \E m \in todo[w] : AnswerLost(w, m)
             \/ \E d \in Ids : ClaimAges(d)
             \/ Reap \/ UNCHANGED vars
      PROVE  Goal
  BY <1>0, <1>1, <1>5, OthersWork
<1>6. ASSUME NEW w \in Workers, Claim(w) PROVE Goal
  BY <1>1, <1>6 DEF Claim
<1> HIDE DEF Goal
<1>7. Goal
  BY <1>2, <1>3, <1>4, <1>5, <1>6 DEF Next, Work, Send, MarkOne, Sends, Marks, Dropped
<1> QED BY <1>7 DEF Goal

\* A row leaves the queue by a mark, and never returns.
LEMMA StatusChanges ==
    ASSUME TypeOK, [Next]_vars, NEW e \in Ids
    PROVE  /\ status[e] # "pending" => status'[e] # "pending"
           /\ \/ status'[e] = status[e]
              \/ \E w \in Workers : e \in left[w] /\ (MarkSent(w, e) \/ MarkFailed(w, e))
<1>1. CASE status' = status
  BY <1>1
<1>2. ASSUME NEW w \in Workers, NEW d \in left[w], MarkSent(w, d) \/ MarkFailed(w, d)
      PROVE  /\ status[e] # "pending" => status'[e] # "pending"
             /\ status'[e] = status[e] \/ d = e
  BY <1>2 DEF MarkSent, MarkFailed, TypeOK
<1>3. \/ status' = status
      \/ \E w \in Workers : \E d \in left[w] : MarkSent(w, d) \/ MarkFailed(w, d)
  <2>1. ASSUME NEW w \in Workers, Send(w) PROVE status' = status
    BY <2>1 DEF Send, Delivered, UserRefuses, SendFails, SendRaises, Ends, AnswerLost, row
  <2>2. ASSUME NEW w \in Workers, MarkOne(w)
        PROVE  status' = status \/ \E d \in left[w] : MarkSent(w, d) \/ MarkFailed(w, d)
    BY <2>2 DEF MarkOne, Marked, Release, MarkRaises, ReleaseAfter, row
  <2>3. ASSUME NEW w \in Workers, Claim(w) \/ Crash(w) PROVE status' = status
    BY <2>3 DEF Claim, Crash, row
  <2>4. ASSUME \/ \E u \in Users, n \in BOOLEAN : Detect(u, n)
               \/ \E d \in Ids : ClaimAges(d)
               \/ Reap \/ UNCHANGED vars
        PROVE  status' = status
    BY <2>4 DEF Detect, ClaimAges, Reap, row, vars
  <2> QED BY <2>1, <2>2, <2>3, <2>4 DEF Next, Work
<1> QED BY <1>1, <1>2, <1>3

\* A delivery is recorded as one, unless its answer was lost.
LEMMA ShownChanges ==
    ASSUME TypeOK, [Next]_vars, NEW e \in Ids
    PROVE  \/ shown'[e] = shown[e] \/ e \in excused'
           \/ \E w \in Workers : \E m \in todo[w] :
                e \in m /\ Delivered(w, m) /\ shown'[e] <= shown[e] + 1
<1> DEFINE Goal == \/ shown'[e] = shown[e] \/ e \in excused'
                   \/ \E w \in Workers : \E m \in todo[w] :
                        e \in m /\ Delivered(w, m) /\ shown'[e] <= shown[e] + 1
<1>1. ASSUME NEW m, Shown(m)
      PROVE  (e \notin m => shown'[e] = shown[e]) /\ shown'[e] <= shown[e] + 1
  BY <1>1, ShownCounts
<1>2. ASSUME NEW w \in Workers, Send(w) PROVE Goal
  <2>1. ASSUME NEW m \in todo[w], Delivered(w, m) PROVE Goal
    BY <1>1, <2>1 DEF Delivered
  <2>2. ASSUME NEW m \in todo[w], AnswerLost(w, m) PROVE Goal
    BY <1>1, <2>2 DEF AnswerLost
  <2>3. ASSUME NEW m \in todo[w], UserRefuses(w, m) \/ SendFails(w, m) \/ SendRaises(w, m)
        PROVE  Goal
    BY <2>3 DEF UserRefuses, SendFails, SendRaises
  <2> HIDE DEF Goal
  <2> QED BY <1>2, <2>1, <2>2, <2>3 DEF Send
<1>3. ASSUME NEW w \in Workers, MarkOne(w) PROVE Goal
  BY <1>3 DEF MarkOne, Ticks, MarkRaises, ReleaseAfter, history
<1>4. ASSUME NEW w \in Workers, Claim(w) \/ Crash(w) PROVE Goal
  BY <1>4 DEF Claim, Crash, history
<1>5. ASSUME \/ \E u \in Users, n \in BOOLEAN : Detect(u, n)
             \/ \E d \in Ids : ClaimAges(d)
             \/ Reap \/ UNCHANGED vars
      PROVE  Goal
  BY <1>5 DEF Detect, ClaimAges, Reap, history, vars
<1> HIDE DEF Goal
<1>6. Goal
  BY <1>2, <1>3, <1>4, <1>5 DEF Next, Work
<1> QED BY <1>6 DEF Goal

LEMMA DeliveryStep ==
    ASSUME IInv, [Next]_vars
    PROVE  Delivery'
<1> SUFFICES ASSUME NEW v \in Workers, outcome'[v] = "sent", NEW e \in Ids, e \in left'[v]
             PROVE  shown'[e] > 0
  <2>1. WorkerType'
    BY WorkStep, TypeParts DEF IInv
  <2>2. \A v \in Workers : left'[v] \subseteq Ids
    BY <2>1 DEF WorkerType
  <2> QED BY <2>2 DEF Delivery
<1>1. TypeOK /\ shown[e] \in Nat
  <2>1. TypeOK /\ HistoryType
    BY TypeParts DEF IInv
  <2> QED BY <2>1 DEF HistoryType
<1>2. CASE e \in left[v] /\ outcome'[v] \in {outcome[v], "raised"}
  <2>1. shown[e] > 0 /\ shown[e] <= shown'[e]
    BY <1>1, <1>2, HistoryGrows DEF IInv, Delivery
  <2>2. shown'[e] \in Nat
    BY <1>1, HistoryTypeStep, TypeParts DEF HistoryType
  <2> QED BY <1>1, <2>1, <2>2
<1>3. ASSUME NEW m \in todo[v], e \in m, Sends(v, m) PROVE shown'[e] > 0
  <2>1. Shown(m)
    <3>1. PICK how \in {"sent", "refused", "retry", "raised"} :
            outcome' = [outcome EXCEPT ![v] = how] /\ (how = "sent" => Shown(m))
      BY <1>3, SendsWork, TypeParts DEF IInv
    <3> QED BY <3>1 DEF IInv, TypeOK
  <2> QED BY <1>1, <1>3, <2>1, ShownCounts
<1> QED BY <1>2, <1>3, LeftChanges

LEMMA OnceStep ==
    ASSUME IInv, [Next]_vars
    PROVE  Once'
<1> SUFFICES ASSUME NEW e \in Ids, e \notin excused', e \notin loosened'
             PROVE  shown'[e] <= 1 /\ (shown'[e] = 1 => Settled(e)')
  BY DEF Once
<1>1. TypeOK /\ WorkerType /\ Shape
  BY TypeParts DEF IInv
<1>2. e \notin excused /\ e \notin loosened
  BY <1>1, HistoryGrows
<1>3. shown[e] <= 1 /\ (shown[e] = 1 => Settled(e)) /\ shown[e] \in Nat
  BY <1>1, <1>2 DEF IInv, Once, TypeOK
<1>4. CASE shown'[e] = shown[e]
  <2> SUFFICES ASSUME Settled(e) PROVE Settled(e)'
    BY <1>3, <1>4
  <2>1. CASE status[e] # "pending"
    BY <1>1, <2>1, StatusChanges DEF Settled
  <2>2. ASSUME NEW v \in Workers, e \in left[v], outcome[v] = "sent" PROVE Settled(e)'
    <3>1. CASE e \in left'[v] /\ outcome'[v] = outcome[v]
      BY <2>2, <3>1 DEF Settled
    <3>2. CASE Marked(v, e)
      <4>1. MarkSent(v, e)
        BY <2>2, <3>2 DEF Marked, MarkFailed, Release
      <4> QED BY <1>1, <4>1 DEF MarkSent, Settled, TypeOK
    <3>3. CASE Dropped(v)
      <4>1. ASSUME NEW d \in left[v], MarkRaises(v, d) PROVE Settled(e)'
        <5>1. /\ left'[v] \subseteq excused'
              /\ left' = left \/ (Marked(v, d) /\ left'[v] = left[v] \ {d})
          BY <1>1, <2>2, <4>1, MarkRaisesFields
        <5>2. Marked(v, d) /\ d = e
          BY <2>2, <5>1
        <5> QED BY <3>2, <5>2
      <4>2. CASE Crash(v)
        <5>1. e \in excused'
          BY <2>2, <4>2 DEF Crash
        <5> QED BY <5>1
      <4>3. ASSUME NEW d \in sending[v], ReleaseAfter(v, d) PROVE FALSE
        BY <2>2, <4>3 DEF ReleaseAfter
      <4> QED BY <3>3, <4>1, <4>2, <4>3 DEF Dropped
    <3> QED BY <2>2, <3>1, <3>2, <3>3, LeftChanges DEF Marks
  <2> QED BY <2>1, <2>2 DEF Settled
<1>5. ASSUME NEW w \in Workers, NEW m \in todo[w], e \in m, Delivered(w, m),
             shown'[e] <= shown[e] + 1
      PROVE  shown'[e] <= 1 /\ (shown'[e] = 1 => Settled(e)')
  <2>1. left[w] = {} /\ left' = [left EXCEPT ![w] = m]
        /\ outcome' = [outcome EXCEPT ![w] = "sent"]
    BY <1>1, <1>5 DEF Delivered, Ends, WorkerType
  <2>2. w \in Holders(e)
    BY <1>5 DEF Holders, Held
  <2>3. status[e] = "pending" /\ Holders(e) = {w}
    BY <1>2, <2>2 DEF IInv, Exclusive
  <2>4. ~Settled(e)
    BY <2>1, <2>3 DEF Settled, Holders, Held
  <2>5. shown[e] = 0 /\ shown'[e] <= 1
    BY <1>3, <1>5, <2>4
  <2>6. Settled(e)'
    BY <1>1, <1>5, <2>1 DEF Settled, WorkerType
  <2> QED BY <2>5, <2>6
<1> QED BY <1>1, <1>4, <1>5, ShownChanges

\* Nothing is marked as sent that was not.
LEMMA SentStep ==
    ASSUME IInv, [Next]_vars
    PROVE  SentWasShown'
<1> SUFFICES ASSUME NEW e \in Ids, status'[e] = "sent" PROVE shown'[e] > 0
  BY DEF SentWasShown
<1>1. TypeOK /\ shown[e] \in Nat /\ shown'[e] \in Nat /\ shown[e] <= shown'[e]
  <2>1. TypeOK /\ HistoryType /\ HistoryType'
    BY HistoryTypeStep, TypeParts DEF IInv
  <2>2. shown[e] <= shown'[e]
    BY <2>1, HistoryGrows
  <2> QED BY <2>1, <2>2 DEF HistoryType
<1>2. CASE status'[e] = status[e]
  BY <1>1, <1>2 DEF IInv, SentWasShown
<1>3. ASSUME NEW w \in Workers, e \in left[w], MarkSent(w, e) \/ MarkFailed(w, e)
      PROVE  shown'[e] > 0
  <2>1. MarkSent(w, e)
    BY <1>1, <1>3 DEF MarkFailed, TypeOK
  <2> QED BY <1>1, <1>3, <2>1 DEF MarkSent, IInv, Delivery
<1> QED BY <1>1, <1>2, <1>3, StatusChanges

-----------------------------------------------------------------------------
(* What the attempts count.                                                 *)

Tallied(e) == tries[e] > MaxAttempts \/ attempts[e] + Cardinality(Recording(e)) <= tries[e]

LEMMA RecordingFinite ==
    ASSUME NEW e \in Ids
    PROVE  /\ IsFiniteSet(Recording(e)) /\ Cardinality(Recording(e)) \in Nat
           /\ IsFiniteSet(Recording(e)') /\ Cardinality(Recording(e)') \in Nat
<1>1. Recording(e) \subseteq Workers /\ Recording(e)' \subseteq Workers
  BY DEF Recording
<1> QED BY <1>1, SetsAssumption, FS_Subset, FS_CardinalityType

\* Either an outcome less to be recorded, or no attempt more; or a send more.
LEMMA TallyFrame ==
    ASSUME TypeOK, NEW e \in Ids, Tallied(e),
           attempts'[e] \in Nat, tries'[e] \in Nat, tries[e] <= tries'[e],
           \/ Recording(e)' \subseteq Recording(e) /\ attempts'[e] = attempts[e]
           \/ /\ \E w \in Recording(e) : Recording(e)' = Recording(e) \ {w}
              /\ attempts'[e] <= attempts[e] + 1
           \/ /\ tries'[e] > MaxAttempts \/ tries'[e] = tries[e] + 1
              /\ \/ Recording(e)' = Recording(e) /\ attempts'[e] <= attempts[e] + 1
                 \/ /\ \E w : w \notin Recording(e) /\ Recording(e)' = Recording(e) \cup {w}
                    /\ attempts'[e] = attempts[e]
    PROVE  Tallied(e)'
<1>1. /\ attempts[e] \in Nat /\ tries[e] \in Nat /\ MaxAttempts \in Nat
      /\ attempts'[e] \in Nat /\ tries'[e] \in Nat /\ tries[e] <= tries'[e]
  BY CapsAreNat DEF TypeOK
<1>2. /\ IsFiniteSet(Recording(e)) /\ Cardinality(Recording(e)) \in Nat
      /\ Cardinality(Recording(e)') \in Nat
  BY RecordingFinite
<1>3. CASE Recording(e)' \subseteq Recording(e) /\ attempts'[e] = attempts[e]
  <2>1. Cardinality(Recording(e)') <= Cardinality(Recording(e))
    BY <1>2, <1>3, FS_Subset
  <2> QED BY <1>1, <1>2, <1>3, <2>1 DEF Tallied
<1>4. ASSUME NEW w \in Recording(e), Recording(e)' = Recording(e) \ {w},
             attempts'[e] <= attempts[e] + 1
      PROVE  Tallied(e)'
  <2>1. Cardinality(Recording(e)') = Cardinality(Recording(e)) - 1
    BY <1>2, <1>4, FS_RemoveElement
  <2> QED BY <1>1, <1>2, <1>4, <2>1 DEF Tallied
<1>5. CASE tries'[e] > MaxAttempts
  BY <1>5 DEF Tallied
<1>6. CASE /\ tries'[e] = tries[e] + 1
           /\ Recording(e)' = Recording(e) /\ attempts'[e] <= attempts[e] + 1
  BY <1>1, <1>2, <1>6 DEF Tallied
<1>7. ASSUME NEW w, w \notin Recording(e), Recording(e)' = Recording(e) \cup {w},
             attempts'[e] = attempts[e], tries'[e] = tries[e] + 1
      PROVE  Tallied(e)'
  <2>1. Cardinality(Recording(e) \cup {w}) = Cardinality(Recording(e)) + 1
    <3> HIDE DEF Recording
    <3> QED BY <1>2, <1>7, FS_AddElement
  <2> QED BY <1>1, <1>2, <1>7, <2>1 DEF Tallied
<1> QED BY <1>3, <1>4, <1>5, <1>6, <1>7

LEMMA TallyStep ==
    ASSUME IInv, [Next]_vars
    PROVE  Tally'
<1> SUFFICES ASSUME NEW e \in Ids, e \notin excused' PROVE Tallied(e)'
  BY DEF Tally, Tallied
<1>1. TypeOK /\ WorkerType /\ Shape
  BY TypeParts DEF IInv
<1>2. Tallied(e)
  BY <1>1, HistoryGrows DEF IInv, Tally, Tallied
<1>3. attempts'[e] \in Nat /\ tries'[e] \in Nat /\ tries[e] <= tries'[e]
  BY <1>1, HistoryGrows, HistoryTypeStep, RowTypeStep, TypeParts, CapsAreNat
  DEF IInv, HistoryType, RowType
<1>4. ASSUME NEW S, Tried(S)
      PROVE  e \in S => tries'[e] > MaxAttempts \/ tries'[e] = tries[e] + 1
  BY <1>1, <1>4, TriedCounts
<1>5. ASSUME NEW S, Counted(S)
      PROVE  attempts'[e] <= attempts[e] + 1 /\ (e \notin S => attempts'[e] = attempts[e])
  BY <1>1, <1>5, CountedCounts
<1>6. CASE UNCHANGED <<attempts, sending, left, outcome>>
  BY <1>1, <1>2, <1>3, <1>6, TallyFrame DEF Recording, Owed
<1>7. ASSUME NEW w \in Workers, NEW m \in todo[w], Sends(w, m) PROVE Tallied(e)'
  <2>1. attempts' = attempts /\ Tried(m)
    BY <1>7 DEF Sends, Delivered, UserRefuses, SendFails, SendRaises, Ends, row
  <2>2. /\ Owed(w) = {} /\ Owed(w)' = m
        /\ \A v \in Workers : v # w => Owed(v)' = Owed(v)
    <3>1. PICK how \in {"sent", "refused", "retry", "raised"} :
            outcome' = [outcome EXCEPT ![w] = how]
      BY <1>1, <1>7, SendsWork
    <3>2. /\ left[w] = {} /\ left' = [left EXCEPT ![w] = m]
          /\ sending[w] = {} /\ sending' = [sending EXCEPT ![w] = m]
      BY <1>1, <1>7, SendsWork
    <3> QED BY <1>1, <3>1, <3>2 DEF Owed, WorkerType
  <2>3. w \notin Recording(e)
    BY <2>2 DEF Recording
  <2>4. CASE e \in m
    <3>1. Recording(e)' = Recording(e) \cup {w}
      BY <2>2, <2>4 DEF Recording
    <3> QED BY <1>1, <1>2, <1>3, <1>4, <2>1, <2>3, <2>4, <3>1, TallyFrame
  <2>5. CASE e \notin m
    <3>1. Recording(e)' = Recording(e)
      BY <2>2, <2>5 DEF Recording
    <3> QED BY <1>1, <1>2, <1>3, <2>1, <3>1, TallyFrame
  <2> QED BY <2>4, <2>5
<1>8. ASSUME NEW w \in Workers, NEW d \in left[w], Marks(w, d) PROVE Tallied(e)'
  <2>1. /\ left'[w] = left[w] \ {d}
        /\ outcome'[w] = IF left[w] = {d} THEN None ELSE outcome[w]
        /\ sending'[w] = IF left[w] = {d} THEN {} ELSE sending[w]
        /\ \A v \in Workers : v # w => /\ sending'[v] = sending[v]
                                       /\ left'[v] = left[v] /\ outcome'[v] = outcome[v]
    BY <1>1, <1>8 DEF Marks, Ticks, WorkerType
  <2>2. \A v \in Workers : v # w => Owed(v)' = Owed(v)
    BY <2>1 DEF Owed
  <2>3. CASE outcome[w] = "retry"
    <3>1. Owed(w)' = Owed(w) \ {d} /\ d \in Owed(w)
      BY <2>1, <2>3, NoneAssumption DEF Owed
    <3>2. attempts' = attempts \/ Counted({d})
      BY <1>8 DEF Marks, Marked, MarkSent, MarkFailed, Release
    <3>3. CASE e = d
      <4>1. w \in Recording(e) /\ Recording(e)' = Recording(e) \ {w}
        BY <2>2, <3>1, <3>3 DEF Recording
      <4>2. attempts'[e] <= attempts[e] + 1
        BY <1>1, <1>5, <3>2, CapsAreNat DEF TypeOK
      <4> QED BY <1>1, <1>2, <1>3, <4>1, <4>2, TallyFrame
    <3>4. CASE e # d
      <4>1. Recording(e)' = Recording(e)
        BY <2>2, <3>1, <3>4 DEF Recording
      <4>2. attempts'[e] = attempts[e]
        BY <1>5, <3>2, <3>4
      <4> QED BY <1>1, <1>2, <1>3, <4>1, <4>2, TallyFrame
    <3> QED BY <3>3, <3>4
  <2>4. CASE outcome[w] # "retry"
    <3>1. Owed(w)' \subseteq Owed(w)
      BY <2>1, <2>4, NoneAssumption DEF Owed
    <3>2. Recording(e)' \subseteq Recording(e)
      BY <2>2, <3>1 DEF Recording
    <3>3. attempts' = attempts
      BY <1>8, <2>4 DEF Marks, Marked, MarkSent, MarkFailed, Release
    <3> QED BY <1>1, <1>2, <1>3, <3>2, <3>3, TallyFrame
  <2> QED BY <2>3, <2>4
<1>9. ASSUME NEW w \in Workers, NEW d \in left[w], MarkRaises(w, d) PROVE Tallied(e)'
  <2>1. /\ d \in sending[w] /\ left[w] \subseteq sending[w] /\ sending' = sending
        /\ UNCHANGED row \/ (Marked(w, d) /\ left'[w] = left[w] \ {d})
        /\ left'[w] \subseteq left[w]
        /\ \A v \in Workers : v # w => left'[v] = left[v] /\ outcome'[v] = outcome[v]
        /\ outcome'[w] = "raised"
        /\ outcome[w] = "retry" => sending[w] \ left'[w] \subseteq excused'
    BY <1>1, <1>9, MarkRaisesFields
  <2>2. Owed(w)' = sending[w] /\ \A v \in Workers : v # w => Owed(v)' = Owed(v)
    BY <2>1 DEF Owed
  <2>3. /\ attempts' = attempts \/ (Counted({d}) /\ left'[w] = left[w] \ {d})
        /\ outcome[w] # "retry" => attempts' = attempts
    BY <2>1 DEF Marked, MarkSent, MarkFailed, Release, row
  <2>4. e \in Owed(w) <=> e \in sending[w]
    <3>1. CASE outcome[w] = "retry"
      BY <2>1, <3>1 DEF Owed
    <3>2. CASE outcome[w] # "retry"
      BY <3>2 DEF Owed
    <3> QED BY <3>1, <3>2
  <2>5. Recording(e)' = Recording(e)
    BY <2>2, <2>4 DEF Recording
  <2>6. attempts'[e] = attempts[e]
    <3>1. CASE attempts' = attempts
      BY <3>1
    <3>2. CASE Counted({d}) /\ left'[w] = left[w] \ {d} /\ outcome[w] = "retry"
      <4>1. e # d
        BY <2>1, <3>2
      <4> QED BY <1>5, <3>2, <4>1
    <3> QED BY <2>3, <3>1, <3>2
  <2> QED BY <1>1, <1>2, <1>3, <2>5, <2>6, TallyFrame
<1>10. ASSUME NEW w \in Workers, NEW d \in sending[w], ReleaseAfter(w, d) PROVE Tallied(e)'
  <2>1. /\ sending' = [sending EXCEPT ![w] = @ \ {d}] /\ left' = [left EXCEPT ![w] = @ \ {d}]
        /\ \A v \in Workers : v # w => outcome'[v] = outcome[v]
        /\ outcome[w] = "raised" /\ outcome'[w] \in {None, "raised"}
    BY <1>1, <1>10, ReleaseWork
  <2>2. /\ Owed(w)' = Owed(w) \ {d} /\ d \in Owed(w)
        /\ \A v \in Workers : v # w => Owed(v)' = Owed(v)
    BY <1>1, <2>1, NoneAssumption DEF Owed, WorkerType
  <2>3. attempts' = attempts \/ Counted({d})
    BY <1>10 DEF ReleaseAfter
  <2>4. CASE e = d
    <3>1. w \in Recording(e) /\ Recording(e)' = Recording(e) \ {w}
      BY <2>2, <2>4 DEF Recording
    <3>2. attempts'[e] <= attempts[e] + 1
      BY <1>1, <1>5, <2>3, CapsAreNat DEF TypeOK
    <3> QED BY <1>1, <1>2, <1>3, <3>1, <3>2, TallyFrame
  <2>5. CASE e # d
    <3>1. Recording(e)' = Recording(e)
      BY <2>2, <2>5 DEF Recording
    <3>2. attempts'[e] = attempts[e]
      BY <1>5, <2>3, <2>5
    <3> QED BY <1>1, <1>2, <1>3, <3>1, <3>2, TallyFrame
  <2> QED BY <2>4, <2>5
<1>11. ASSUME NEW w \in Workers, Crash(w) PROVE Tallied(e)'
  <2>1. /\ left' = [left EXCEPT ![w] = {}] /\ sending' = [sending EXCEPT ![w] = {}]
        /\ outcome' = [outcome EXCEPT ![w] = None]
    BY <1>1, <1>11, CrashWork
  <2>2. Owed(w)' = {} /\ \A v \in Workers : v # w => Owed(v)' = Owed(v)
    BY <1>1, <2>1 DEF Owed, WorkerType
  <2>3. Recording(e)' \subseteq Recording(e) /\ attempts' = attempts
    BY <1>11, <2>2 DEF Recording, Crash, row
  <2> QED BY <1>1, <1>2, <1>3, <2>3, TallyFrame
<1>12. ASSUME NEW w \in Workers, Claim(w) \/ \E m \in todo[w] : AnswerLost(w, m)
       PROVE  Tallied(e)'
  BY <1>6, <1>12 DEF Claim, AnswerLost, row, worker
<1>13. ASSUME \/ \E u \in Users, n \in BOOLEAN : Detect(u, n)
              \/ \E d \in Ids : ClaimAges(d)
              \/ Reap \/ UNCHANGED vars
       PROVE  Tallied(e)'
  BY <1>6, <1>13 DEF Detect, ClaimAges, Reap, vars, row, worker
<1> QED
  BY <1>7, <1>8, <1>9, <1>10, <1>11, <1>12, <1>13 DEF Next, Work, Send, MarkOne, Sends, Marks

\* A worker never believes more attempts than the row has.
LEMMA KnownStep ==
    ASSUME IInv, [Next]_vars
    PROVE  Known'
<1> SUFFICES ASSUME NEW v \in Workers, NEW e \in Ids PROVE seen'[v][e] <= attempts'[e]
  BY DEF Known
<1>1. /\ TypeOK /\ SeenType /\ attempts[e] <= attempts'[e] /\ seen[v][e] <= attempts[e]
      /\ attempts[e] \in Nat /\ seen[v][e] \in Nat
  BY HistoryGrows, TypeParts, CapsAreNat DEF IInv, Known, RowType, SeenType
<1>2. attempts'[e] \in Nat
  BY RowTypeStep, TypeParts, CapsAreNat DEF IInv, RowType
<1>3. CASE seen' = seen
  BY <1>1, <1>2, <1>3
<1>4. ASSUME NEW w \in Workers, NEW S, Forget(w, S) PROVE seen'[v][e] <= attempts'[e]
  BY <1>1, <1>2, <1>4, ForgetSeen
<1>5. ASSUME NEW w \in Workers, Claim(w) PROVE seen'[v][e] <= attempts'[e]
  BY <1>1, <1>2, <1>5 DEF Claim, SeenType
<1>6. ASSUME NEW w \in Workers, NEW m \in todo[w], Sends(w, m) \/ AnswerLost(w, m)
      PROVE  seen'[v][e] <= attempts'[e]
  BY <1>3, <1>6
  DEF Sends, Delivered, UserRefuses, SendFails, SendRaises, Ends, AnswerLost, worker
<1>7. ASSUME NEW w \in Workers, NEW d \in left[w], Marks(w, d) \/ MarkRaises(w, d)
      PROVE  seen'[v][e] <= attempts'[e]
  BY <1>4, <1>7 DEF Marks, Ticks, MarkRaises
<1>8. ASSUME NEW w \in Workers, Crash(w) \/ \E d \in sending[w] : ReleaseAfter(w, d)
      PROVE  seen'[v][e] <= attempts'[e]
  BY <1>4, <1>8 DEF Crash, ReleaseAfter
<1>9. ASSUME \/ \E u \in Users, n \in BOOLEAN : Detect(u, n)
             \/ \E d \in Ids : ClaimAges(d)
             \/ Reap \/ UNCHANGED vars
      PROVE  seen'[v][e] <= attempts'[e]
  BY <1>3, <1>9 DEF Detect, ClaimAges, Reap, vars, worker
<1> QED
  BY <1>5, <1>6, <1>7, <1>8, <1>9 DEF Next, Work, Send, MarkOne, Sends, Marks

\* Giving up: the worker knows of MaxAttempts attempts and has just failed once more.
LEMMA GivenUpStep ==
    ASSUME IInv, [Next]_vars
    PROVE  GivenUpAfterTries'
<1> SUFFICES ASSUME NEW e \in Ids, status'[e] = "spent", e \notin excused'
             PROVE  tries'[e] > MaxAttempts
  BY DEF GivenUpAfterTries
<1>1. /\ TypeOK /\ tries[e] <= tries'[e] /\ e \notin excused
      /\ tries[e] \in Nat /\ MaxAttempts \in Nat
  BY HistoryGrows, CapsAreNat DEF IInv, TypeOK
<1>2. tries'[e] \in Nat
  BY HistoryTypeStep, TypeParts, CapsAreNat DEF IInv, HistoryType
<1>3. CASE status'[e] = status[e]
  BY <1>1, <1>2, <1>3 DEF IInv, GivenUpAfterTries
<1>4. ASSUME NEW w \in Workers, e \in left[w], MarkSent(w, e) \/ MarkFailed(w, e)
      PROVE  status[e] = "spent" \/ Exhausted(w, e)
  BY <1>1, <1>4 DEF MarkSent, MarkFailed, TypeOK
<1>5. ASSUME NEW w \in Workers, e \in left[w], Exhausted(w, e)
      PROVE  tries'[e] > MaxAttempts
  <2>1. attempts[e] >= MaxAttempts /\ attempts[e] \in Nat
    <3>1. seen[w][e] >= MaxAttempts /\ seen[w][e] <= attempts[e]
      BY <1>5 DEF Exhausted, IInv, Known
    <3>2. seen[w][e] \in Nat /\ attempts[e] \in Nat
      BY <1>1, CapsAreNat DEF TypeOK
    <3> QED BY <1>1, <3>1, <3>2
  <2>2. Cardinality(Recording(e)) >= 1 /\ Cardinality(Recording(e)) \in Nat
    <3>1. w \in Recording(e)
      BY <1>1, <1>5 DEF Recording, Owed, TypeOK
    <3>2. Cardinality(Recording(e)) # 0
      BY <3>1, RecordingFinite, FS_EmptySet
    <3> QED BY <3>2, RecordingFinite
  <2>3. tries[e] > MaxAttempts \/ attempts[e] + Cardinality(Recording(e)) <= tries[e]
    BY <1>1 DEF IInv, Tally
  <2> QED BY <1>1, <1>2, <2>1, <2>2, <2>3
<1>6. CASE status[e] = "spent"
  BY <1>1, <1>2, <1>6 DEF IInv, GivenUpAfterTries
<1> QED BY <1>1, <1>3, <1>4, <1>5, <1>6, StatusChanges

-----------------------------------------------------------------------------
(* The theorems.                                                            *)

\* At the start nothing is claimed, sent or counted.
LEMMA InitInv == Init => IInv
<1> SUFFICES ASSUME Init PROVE IInv
  OBVIOUS
<1>1. RowType
  BY CapsAreNat DEF Init, RowType
<1>2. WorkerType /\ SeenType
  BY CapsAreNat DEF Init, WorkerType, SeenType
<1>3. HistoryType
  <2>1. 0 \in 0..Faults
    BY BoundsAssumption
  <2> QED BY <2>1, CapsAreNat DEF Init, HistoryType
<1>4. \A w \in Workers : Held(w) = {} /\ left[w] = {} /\ todo[w] = {} /\ sending[w] = {}
  BY DEF Init, Held
<1>5. Shape /\ Exclusive /\ Delivery
  BY <1>4 DEF Shape, Exclusive, Holders, Delivery
<1>6. Once /\ SentWasShown /\ GivenUpAfterTries
  BY DEF Init, Once, SentWasShown, GivenUpAfterTries
<1>7. Tally
  <2> SUFFICES ASSUME NEW e \in Ids
               PROVE  attempts[e] + Cardinality(Recording(e)) <= tries[e]
    BY DEF Tally
  <2>1. Recording(e) = {}
    BY <1>4 DEF Recording, Owed
  <2> QED BY <2>1, FS_EmptySet DEF Init
<1>8. Known
  BY DEF Init, Known
<1> QED BY <1>1, <1>2, <1>3, <1>5, <1>6, <1>7, <1>8, TypeParts DEF IInv

\* Every claim, send, mark, failure and crash keeps the invariant, part by part.
LEMMA StepInv == IInv /\ [Next]_vars => IInv'
<1> SUFFICES ASSUME IInv, [Next]_vars PROVE IInv'
  OBVIOUS
<1>1. RowType /\ WorkerType /\ HistoryType /\ SeenType /\ Shape
  BY TypeParts DEF IInv
<1>2. RowType' /\ WorkerType' /\ HistoryType' /\ SeenType' /\ Shape'
  BY <1>1, RowTypeStep, WorkStep, HistoryTypeStep, SeenTypeStep
<1>3. TypeOK'
  BY <1>2 DEF TypeOK, RowType, WorkerType, HistoryType, SeenType
<1> QED
  BY <1>2, <1>3, ExclusiveStep, DeliveryStep, OnceStep, TallyStep, KnownStep, SentStep,
     GivenUpStep
  DEF IInv

\* So it holds of the dispatchers at all times.
LEMMA Invariance == Spec => []IInv
<1> QED BY InitInv, StepInv, PTL DEF Spec

\* The rows, the workers and their messages stay well formed.
THEOREM TypeCorrect == Spec => []TypeOK
<1>1. IInv => TypeOK
  BY DEF IInv
<1> QED BY <1>1, Invariance, PTL

\* An event that two dispatchers hold at once had its claim loosened: it went
\* stale under one of them, or another's exception handler released it.
THEOREM ClaimsAreExclusive == Spec => []ClaimExclusive
<1>1. IInv => ClaimExclusive
  <2> SUFFICES ASSUME IInv, NEW e \in Ids, e \notin loosened
               PROVE  ~(Cardinality(Holders(e)) > 1)
    BY DEF ClaimExclusive
  <2>1. CASE Holders(e) = {}
    BY <2>1, FS_EmptySet
  <2>2. ASSUME NEW w \in Holders(e) PROVE ~(Cardinality(Holders(e)) > 1)
    <3>1. Holders(e) = {w}
      BY DEF IInv, Exclusive
    <3> QED BY <3>1, FS_Singleton
  <2> QED BY <2>1, <2>2
<1> QED BY <1>1, Invariance, PTL

\* A user sees an event twice only where a crash, a failing mark, a lost answer or
\* a loosened claim came between its message and its mark.
THEOREM DuplicatesAreExcused == Spec => []DuplicatesExcused
<1>1. IInv => DuplicatesExcused
  BY DEF IInv, Once, DuplicatesExcused, TypeOK
<1> QED BY <1>1, Invariance, PTL

\* A row that says sent was delivered.
THEOREM SentRowsWereShown == Spec => []SentWasShown
<1>1. IInv => SentWasShown
  BY DEF IInv
<1> QED BY <1>1, Invariance, PTL

\* No event is given up before MaxAttempts + 1 sends of it have failed, unless the
\* handler counted a failure once more whose release was already committed.
THEOREM GivenUpAfterEnoughTries == Spec => []GivenUpAfterTries
<1>1. IInv => GivenUpAfterTries
  BY DEF IInv
<1> QED BY <1>1, Invariance, PTL

=============================================================================
