------------------------- MODULE SessionPoolProofs -------------------------
(***************************************************************************)
(* The safety of the session pool for every set of jobs and users, every    *)
(* supply of entries and every cap.                                         *)
(***************************************************************************)
EXTENDS SessionPool, FiniteSetTheorems, SequenceTheorems, TLAPS

\* A job in the critical part holds the lock of its entry.
Locked == \A t \in Jobs : pc[t] \in InLock => holder[ent[t]] = t

\* An entry that a job refers to was made for some user.
Owned == \A t \in Jobs : ent[t] # None => owner[ent[t]] \in Users

IInv == TypeOK /\ Locked /\ Owned /\ PooledIsOpen /\ PoolBounded

poolVars == <<pool, owner, closed>>

-----------------------------------------------------------------------------
(* Frame lemmas: which variables a conjunct of the invariant depends on.    *)

LEMMA OpenFrame ==
    ASSUME PooledIsOpen, UNCHANGED poolVars
    PROVE  PooledIsOpen'
BY DEF PooledIsOpen, poolVars, Pooled

LEMMA BoundFrame ==
    ASSUME PoolBounded, UNCHANGED pool
    PROVE  PoolBounded'
BY DEF PoolBounded, Pooled

\* Dropping a session only takes entries out of the pool.
LEMMA DropBound ==
    ASSUME TypeOK, PoolBounded, NEW u \in Users,
           pool' = [pool EXCEPT ![u] = None]
    PROVE  PoolBounded'
<1>1. Pooled' \subseteq Pooled
  BY DEF Pooled, TypeOK
<1>2. IsFiniteSet(Pooled)
  BY SetsAssumption, FS_Subset DEF Pooled
<1>3. /\ IsFiniteSet(Pooled') /\ Cardinality(Pooled') <= Cardinality(Pooled)
  BY <1>1, <1>2, FS_Subset
<1>4. /\ Cardinality(Pooled) \in Nat /\ Cardinality(Pooled') \in Nat
      /\ Cardinality(Jobs) \in Nat /\ Cap \in Nat
  BY <1>2, <1>3, FS_CardinalityType, SetsAssumption, BoundsAssumption
<1> QED BY <1>3, <1>4 DEF PoolBounded

\* Users pool distinct entries, so closing one user's entry closes no other's.
LEMMA DropOpen ==
    ASSUME TypeOK, PooledIsOpen, NEW u \in Users, DropSession(u), owner' = owner
    PROVE  PooledIsOpen'
<1> SUFFICES ASSUME NEW w \in Users, pool'[w] # None
             PROVE  ~closed'[pool'[w]] /\ owner'[pool'[w]] = w
  BY DEF PooledIsOpen, Pooled
<1>1. w # u /\ pool'[w] = pool[w]
  BY DEF DropSession, TypeOK
<1>2. pool[w] \in Entries /\ ~closed[pool[w]] /\ owner[pool[w]] = w
  BY <1>1 DEF TypeOK, PooledIsOpen, Pooled
<1>3. pool[w] # pool[u]
  BY <1>1, <1>2, SetsAssumption DEF PooledIsOpen, Pooled, TypeOK
<1> QED BY <1>1, <1>2, <1>3 DEF DropSession

\* A free entry's waiters and holder.
LEMMA AttachTypes ==
    ASSUME TypeOK, NEW t \in Jobs, pc[t] = "idle", NEW e \in Entries,
           NEW q \in [Entries -> Seq(Jobs)], Attach(t, e, q)
    PROVE  /\ holder' \in [Entries -> Jobs \cup {None}]
           /\ queue' \in [Entries -> Seq(Jobs)]
           /\ pc' \in [Jobs -> {"idle", "queued"} \cup InLock]
           /\ ent' \in [Jobs -> Entries \cup {None}]
           /\ \A s \in Jobs : pc'[s] = "idle" <=> ent'[s] = None
           /\ \A f \in Entries : holder'[f] # None => ent'[holder'[f]] = f
<1>1. queue' \in [Entries -> Seq(Jobs)]
  <2>1. Append(q[e], t) \in Seq(Jobs)
    OBVIOUS
  <2> QED BY <2>1 DEF Attach
<1>2. /\ holder' \in [Entries -> Jobs \cup {None}]
      /\ pc' \in [Jobs -> {"idle", "queued"} \cup InLock]
      /\ ent' \in [Jobs -> Entries \cup {None}]
  BY DEF Attach, TypeOK, InLock
<1>3. \A s \in Jobs : pc'[s] = "idle" <=> ent'[s] = None
  BY SetsAssumption DEF Attach, TypeOK, InLock
<1>4. \A f \in Entries : holder'[f] # None => ent'[holder'[f]] = f
  BY SetsAssumption DEF Attach, TypeOK, InLock
<1> QED BY <1>1, <1>2, <1>3, <1>4

LEMMA AttachLocked ==
    ASSUME TypeOK, Locked, NEW t \in Jobs, pc[t] = "idle", NEW e \in Entries,
           NEW q \in [Entries -> Seq(Jobs)], Attach(t, e, q)
    PROVE  Locked'
<1> SUFFICES ASSUME NEW s \in Jobs, pc'[s] \in InLock
             PROVE  holder'[ent'[s]] = s
  BY DEF Locked
<1>1. CASE s = t
  BY <1>1 DEF Attach, TypeOK, InLock
<1>2. CASE s # t
  <2>1. pc'[s] = pc[s] /\ ent'[s] = ent[s]
    BY <1>2 DEF Attach, TypeOK
  <2>2. holder[ent[s]] = s /\ ent[s] \in Entries
    BY <2>1 DEF Locked, TypeOK, InLock
  <2>3. holder'[ent[s]] = s
    <3>1. s # None
      BY SetsAssumption
    <3>2. holder[e] = None => ent[s] # e
      BY <2>2, <3>1
    <3>3. holder' = holder \/ (holder[e] = None /\ holder' = [holder EXCEPT ![e] = t])
      BY DEF Attach
    <3> QED BY <2>2, <3>2, <3>3 DEF TypeOK
  <2> QED BY <2>1, <2>3
<1> QED BY <1>1, <1>2

LEMMA LeaveTypes ==
    ASSUME TypeOK, NEW t \in Jobs, pc[t] \in InLock, Leave(t)
    PROVE  /\ holder' \in [Entries -> Jobs \cup {None}]
           /\ pc' \in [Jobs -> {"idle", "queued"} \cup InLock]
           /\ ent' \in [Jobs -> Entries \cup {None}]
           /\ \A s \in Jobs : pc'[s] = "idle" <=> ent'[s] = None
           /\ \A f \in Entries : holder'[f] # None => ent'[holder'[f]] = f
<1>1. ent[t] \in Entries
  BY DEF TypeOK, InLock
<1> QED BY <1>1, SetsAssumption DEF Leave, TypeOK, InLock

LEMMA LeaveLockedInv ==
    ASSUME TypeOK, Locked, NEW t \in Jobs, pc[t] \in InLock, Leave(t)
    PROVE  Locked'
BY SetsAssumption DEF Leave, TypeOK, Locked, InLock

-----------------------------------------------------------------------------
(* A new entry.                                                             *)

\* Sessions that cannot be evicted are held by jobs, each by one of its own,
\* and the job that wants a new entry holds none.
LEMMA UnevictableAreHeld ==
    ASSUME TypeOK, PooledIsOpen, NEW t \in Jobs, pc[t] = "idle",
           NEW S \in SUBSET Pooled, \A w \in S : holder[pool[w]] # None
    PROVE  Cardinality(S) + 1 <= Cardinality(Jobs)
<1> DEFINE f == [w \in S |-> holder[pool[w]]]
           others == Jobs \ {t}
<1>1. \A w \in S : pool[w] \in Entries /\ owner[pool[w]] = w
  BY DEF TypeOK, Pooled, PooledIsOpen
<1>2. \A w \in S : holder[pool[w]] \in others /\ ent[holder[pool[w]]] = pool[w]
  <2> SUFFICES ASSUME NEW w \in S
               PROVE  holder[pool[w]] \in others /\ ent[holder[pool[w]]] = pool[w]
    OBVIOUS
  <2>1. pool[w] \in Entries /\ holder[pool[w]] \in Jobs
    BY <1>1 DEF TypeOK
  <2>2. ent[holder[pool[w]]] = pool[w]
    BY <2>1 DEF TypeOK
  <2>3. ent[t] = None /\ None \notin Entries
    BY SetsAssumption DEF TypeOK
  <2> QED BY <2>1, <2>2, <2>3
<1>3. f \in [S -> others]
  BY <1>2
<1>4. \A v, w \in S : f[v] = f[w] => v = w
  BY <1>1, <1>2
<1>5. f \in Injection(S, others)
  BY <1>3, <1>4 DEF Injection, IsInjective
<1>6. IsFiniteSet(others) /\ Cardinality(others) = Cardinality(Jobs) - 1
  BY SetsAssumption, FS_RemoveElement
<1>7. IsFiniteSet(S) /\ Cardinality(S) <= Cardinality(others)
  <2> HIDE DEF f, others
  <2> QED BY <1>5, <1>6, FS_Injection
<1>8. Cardinality(S) \in Nat /\ Cardinality(Jobs) \in Nat
  BY <1>7, FS_CardinalityType, SetsAssumption
<1> QED BY <1>6, <1>7, <1>8

LEMMA RenewBound ==
    ASSUME IInv, NEW t \in Jobs, NEW u \in Users, NEW e \in Entries,
           NEW vs \in SUBSET Users, Renew(t, u, e, vs)
    PROVE  PoolBounded'
<1> DEFINE rest == (Pooled \ {u}) \ vs
<1>1. Pooled' = rest \cup {u}
  <2>1. e # None
    BY SetsAssumption
  <2> QED BY <2>1 DEF Renew, Pooled, IInv, TypeOK
<1>2. IsFiniteSet(rest) /\ u \notin rest
  BY SetsAssumption, FS_Subset DEF Pooled
<1>3. Cardinality(Pooled') = Cardinality(rest) + 1
  <2> HIDE DEF rest
  <2> QED BY <1>1, <1>2, FS_AddElement
<1>4. Cardinality(rest) \in Nat /\ Cap \in Nat /\ Cardinality(Jobs) \in Nat
  BY <1>2, FS_CardinalityType, SetsAssumption, BoundsAssumption
<1>5. CASE Cardinality(Pooled \ {u}) < Cap
  <2>1. vs = {}
    BY <1>5 DEF Renew, Evictable
  <2>2. rest = Pooled \ {u}
    BY <2>1
  <2>3. Cardinality(rest) < Cap
    BY <1>5, <2>2
  <2> HIDE DEF rest
  <2> QED BY <1>3, <1>4, <2>3 DEF PoolBounded
<1>6. CASE Cardinality(rest) = Cap - 1
  <2> HIDE DEF rest
  <2> QED BY <1>3, <1>4, <1>6 DEF PoolBounded
<1>7. CASE vs = {w \in Pooled \ {u} : holder[pool[w]] = None}
  <2>1. rest \in SUBSET Pooled /\ \A w \in rest : holder[pool[w]] # None
    BY <1>7
  <2>2. Cardinality(rest) + 1 <= Cardinality(Jobs)
    <3> HIDE DEF rest
    <3> QED BY <2>1, UnevictableAreHeld DEF IInv, Renew
  <2> HIDE DEF rest
  <2> QED BY <1>3, <1>4, <2>2 DEF PoolBounded
<1>8. \/ Cardinality(Pooled \ {u}) < Cap
      \/ Cardinality(rest) = Cap - 1
      \/ vs = {w \in Pooled \ {u} : holder[pool[w]] = None}
  BY DEF Renew, Evictable
<1> QED BY <1>5, <1>6, <1>7, <1>8

LEMMA RenewOpen ==
    ASSUME IInv, NEW t \in Jobs, NEW u \in Users, NEW e \in Entries,
           NEW vs \in SUBSET Users, Renew(t, u, e, vs)
    PROVE  PooledIsOpen'
<1> SUFFICES ASSUME NEW w \in Pooled'
             PROVE  ~closed'[pool'[w]] /\ owner'[pool'[w]] = w
  BY DEF PooledIsOpen
<1>1. w \in Users
  BY DEF Pooled
<1>2. CASE w = u
  BY <1>2 DEF Renew, IInv, TypeOK
<1>3. CASE w # u
  <2>1. w \notin vs /\ pool'[w] = pool[w] /\ pool[w] # None /\ pool[w] \in Entries
    BY <1>1, <1>3 DEF Renew, Pooled, IInv, TypeOK
  <2>2. ~closed[pool[w]] /\ owner[pool[w]] = w
    BY <1>1, <2>1 DEF IInv, PooledIsOpen, Pooled
  <2>3. pool[w] # e
    BY <1>1 DEF Renew, InUse
  <2>4. \A v \in vs \cup ({u} \cap Pooled) : pool[v] # pool[w]
    BY <1>3, <2>1, <2>2 DEF IInv, PooledIsOpen, Renew, Evictable
  <2>5. ~closed'[pool[w]]
    BY <2>1, <2>2, <2>3, <2>4 DEF Renew
  <2>6. owner'[pool[w]] = w
    BY <2>1, <2>2, <2>3 DEF Renew, IInv, TypeOK
  <2> QED BY <2>1, <2>5, <2>6
<1> QED BY <1>2, <1>3

LEMMA RenewTypes ==
    ASSUME IInv, NEW t \in Jobs, NEW u \in Users, NEW e \in Entries,
           NEW vs \in SUBSET Users, Renew(t, u, e, vs)
    PROVE  TypeOK' /\ Locked' /\ Owned'
<1> DEFINE q == [queue EXCEPT ![e] = <<>>]
<1>1. q \in [Entries -> Seq(Jobs)]
  <2>1. <<>> \in Seq(Jobs)
    BY EmptySeq
  <2> QED BY <2>1 DEF IInv, TypeOK
<1>2. Attach(t, e, q) /\ pc[t] = "idle"
  BY DEF Renew
<1>3. Locked'
  <2> HIDE DEF q
  <2> QED BY <1>1, <1>2, AttachLocked DEF IInv
<1>4. pool' \in [Users -> Entries \cup {None}]
  BY DEF Renew, IInv, TypeOK
<1>5. owner' \in [Entries -> Users \cup {None}]
  BY DEF Renew, IInv, TypeOK
<1>6. needsLogin' \in [Entries -> BOOLEAN] /\ expired' \in [Entries -> BOOLEAN]
  BY DEF Renew, IInv, TypeOK
<1>7. closed' \in [Entries -> BOOLEAN]
  BY DEF Renew, IInv, TypeOK
<1>8. cookies' \in [Entries -> BOOLEAN]
  BY DEF Renew, IInv, TypeOK
<1>9. demand' \in 0..Demand
  BY BoundsAssumption DEF Renew, IInv, TypeOK
<1>10. /\ holder' \in [Entries -> Jobs \cup {None}]
       /\ queue' \in [Entries -> Seq(Jobs)]
       /\ pc' \in [Jobs -> {"idle", "queued"} \cup InLock]
       /\ ent' \in [Jobs -> Entries \cup {None}]
       /\ \A s \in Jobs : pc'[s] = "idle" <=> ent'[s] = None
       /\ \A f \in Entries : holder'[f] # None => ent'[holder'[f]] = f
  <2> HIDE DEF q
  <2> QED BY <1>1, <1>2, AttachTypes DEF IInv
<1>11. TypeOK'
  BY <1>4, <1>5, <1>6, <1>7, <1>8, <1>9, <1>10 DEF TypeOK
<1>12. Owned'
  <2>1. \A s \in Jobs : s # t => ent'[s] = ent[s] /\ ent[s] # e
    BY SetsAssumption DEF Renew, Attach, IInv, TypeOK, InUse
  <2>2. ent'[t] = e /\ owner'[e] = u
    BY DEF Renew, Attach, IInv, TypeOK
  <2>3. \A f \in Entries : f # e => owner'[f] = owner[f]
    BY DEF Renew, IInv, TypeOK
  <2> SUFFICES ASSUME NEW s \in Jobs, ent'[s] # None
               PROVE  owner'[ent'[s]] \in Users
    BY DEF Owned
  <2>4. CASE s = t
    BY <2>2, <2>4
  <2>5. CASE s # t
    <3>1. ent'[s] = ent[s] /\ ent[s] # e /\ ent[s] # None
      BY <2>1, <2>5
    <3>2. ent[s] \in Entries /\ owner[ent[s]] \in Users
      BY <3>1 DEF IInv, Owned, TypeOK
    <3> QED BY <2>3, <3>1, <3>2
  <2> QED BY <2>4, <2>5
<1> QED BY <1>3, <1>11, <1>12

-----------------------------------------------------------------------------
(* The inductive invariant.                                                 *)

LEMMA InitIInv == Init => IInv
<1> SUFFICES ASSUME Init PROVE IInv
  OBVIOUS
<1>1. <<>> \in Seq(Jobs)
  BY EmptySeq
<1>2. Demand \in 0..Demand
  BY BoundsAssumption
<1>3. TypeOK
  BY <1>1, <1>2 DEF Init, TypeOK, InLock
<1>4. Pooled = {}
  BY DEF Init, Pooled
<1>5. PoolBounded
  BY <1>4, FS_EmptySet, BoundsAssumption DEF PoolBounded
<1>6. Locked /\ Owned /\ PooledIsOpen
  BY <1>4 DEF Init, Locked, Owned, PooledIsOpen, InLock
<1> QED BY <1>3, <1>5, <1>6 DEF IInv

LEMMA OwnedFrame ==
    ASSUME Owned, UNCHANGED owner, \A t \in Jobs : ent'[t] \in {ent[t], None}
    PROVE  Owned'
BY DEF Owned

\* The actions of a job under the lock, and those of time.
LEMMA Steps ==
    ASSUME IInv, NEW t \in Jobs, Proceed(t) \/ Relogin(t)
    PROVE  IInv'
<1> USE DEF IInv
<1> DEFINE Rest == TypeOK' /\ Locked' /\ PooledIsOpen' /\ PoolBounded'
<1>0. SUFFICES Rest /\ Owned'
  OBVIOUS
<1>1. ASSUME Wake(t) PROVE Rest
  <2> DEFINE e == ent[t]
  <2>1. e \in Entries
    BY <1>1, SetsAssumption DEF Wake, TypeOK
  <2>2. Tail(queue[e]) \in Seq(Jobs)
    BY <1>1, <2>1 DEF Wake, TypeOK
  <2>3. queue' \in [Entries -> Seq(Jobs)]
    BY <1>1, <2>1, <2>2 DEF Wake, TypeOK
  <2>4. /\ holder' \in [Entries -> Jobs \cup {None}]
        /\ pc' \in [Jobs -> {"idle", "queued"} \cup InLock]
    BY <1>1 DEF Wake, TypeOK, InLock
  <2>5. \A s \in Jobs : pc'[s] = "idle" <=> ent'[s] = None
    BY <1>1, <2>1, SetsAssumption DEF Wake, TypeOK, InLock
  <2>6. \A f \in Entries : holder'[f] # None => ent'[holder'[f]] = f
    BY <1>1, <2>1 DEF Wake, TypeOK
  <2>7. TypeOK'
    BY <1>1, <2>3, <2>4, <2>5, <2>6 DEF Wake, TypeOK, entries
  <2>8. Locked'
    BY <1>1, <2>1, SetsAssumption DEF Wake, TypeOK, Locked, InLock
  <2>9. PooledIsOpen' /\ PoolBounded'
    BY <1>1, OpenFrame, BoundFrame DEF Wake, poolVars, entries
  <2> QED BY <2>7, <2>8, <2>9
<1>2. ASSUME Admitted(t) PROVE Rest
  <2>1. pc' \in [Jobs -> {"idle", "queued"} \cup InLock]
    BY <1>2 DEF Admitted, TypeOK, InLock
  <2>2. \A s \in Jobs : pc'[s] = "idle" <=> ent'[s] = None
    BY <1>2 DEF Admitted, TypeOK, InLock
  <2>3. TypeOK'
    BY <1>2, <2>1, <2>2 DEF Admitted, TypeOK, entries
  <2>4. Locked'
    BY <1>2 DEF Admitted, TypeOK, Locked, InLock
  <2>5. PooledIsOpen' /\ PoolBounded'
    BY <1>2, OpenFrame, BoundFrame DEF Admitted, poolVars, entries
  <2> QED BY <2>3, <2>4, <2>5
<1>3. ASSUME Refused(t) \/ LoginUnavailable(t) \/ WorkFails(t) PROVE Rest
  <2>1. pc[t] \in InLock /\ Leave(t) /\ UNCHANGED <<pool, entries>>
    BY <1>3 DEF Refused, LoginUnavailable, WorkFails, InLock
  <2>2. TypeOK'
    BY <2>1, LeaveTypes DEF TypeOK, entries, Leave
  <2>3. PooledIsOpen' /\ PoolBounded'
    BY <2>1, OpenFrame, BoundFrame DEF poolVars, entries
  <2> QED BY <2>1, <2>2, <2>3, LeaveLockedInv
<1>4. ASSUME LoggedIn(t) PROVE Rest
  <2>1. pc' \in [Jobs -> {"idle", "queued"} \cup InLock]
    BY <1>4 DEF LoggedIn, TypeOK, InLock
  <2>2. \A s \in Jobs : pc'[s] = "idle" <=> ent'[s] = None
    BY <1>4 DEF LoggedIn, TypeOK, InLock
  <2>3. needsLogin' \in [Entries -> BOOLEAN] /\ cookies' \in [Entries -> BOOLEAN]
    BY <1>4 DEF LoggedIn, TypeOK
  <2>4. TypeOK'
    BY <1>4, <2>1, <2>2, <2>3 DEF LoggedIn, TypeOK
  <2>5. Locked'
    BY <1>4 DEF LoggedIn, TypeOK, Locked, InLock
  <2>6. PooledIsOpen' /\ PoolBounded'
    BY <1>4, OpenFrame, BoundFrame DEF LoggedIn, poolVars
  <2> QED BY <2>4, <2>5, <2>6
<1>5. ASSUME LoginRejected(t) \/ SessionLost(t) PROVE Rest
  <2> DEFINE u == owner[ent[t]]
  <2>1. /\ pc[t] \in InLock /\ Leave(t) /\ DropSession(u)
        /\ UNCHANGED <<owner, needsLogin, expired>>
    BY <1>5 DEF LoginRejected, SessionLost, InLock
  <2>2. u \in Users
    BY <2>1 DEF TypeOK, InLock, Owned
  <2> HIDE DEF u
  <2>3. pool' \in [Users -> Entries \cup {None}]
    BY <2>1 DEF TypeOK, DropSession
  <2>4. closed' \in [Entries -> BOOLEAN]
    BY <2>1 DEF TypeOK, DropSession
  <2>5. cookies' \in [Entries -> BOOLEAN]
    BY <2>1 DEF TypeOK, DropSession
  <2>6. TypeOK'
    BY <2>1, <2>3, <2>4, <2>5, LeaveTypes DEF TypeOK, Leave
  <2>7. PooledIsOpen'
    BY <2>1, <2>2, DropOpen
  <2>8. PoolBounded'
    BY <2>1, <2>2, DropBound DEF DropSession
  <2> QED BY <2>1, <2>6, <2>7, <2>8, LeaveLockedInv
<1>6. ASSUME WorkDone(t) \/ WarmDone(t) PROVE Rest
  <2>1. /\ pc[t] \in InLock /\ Leave(t)
        /\ expired' = [expired EXCEPT ![ent[t]] = FALSE]
        /\ UNCHANGED <<pool, owner, needsLogin, cookies, closed>>
    BY <1>6 DEF WorkDone, WarmDone, InLock
  <2>2. expired' \in [Entries -> BOOLEAN]
    BY <2>1 DEF TypeOK
  <2>3. TypeOK'
    BY <2>1, <2>2, LeaveTypes DEF TypeOK, Leave
  <2>4. PooledIsOpen' /\ PoolBounded'
    BY <2>1, OpenFrame, BoundFrame DEF poolVars
  <2> QED BY <2>1, <2>3, <2>4, LeaveLockedInv
<1>7. ASSUME Relogin(t) PROVE Rest
  <2>1. cookies' \in [Entries -> BOOLEAN]
    BY <1>7 DEF Relogin, TypeOK
  <2>2. TypeOK'
    BY <1>7, <2>1 DEF Relogin, TypeOK
  <2>3. PooledIsOpen' /\ PoolBounded'
    BY <1>7, OpenFrame, BoundFrame DEF Relogin, poolVars
  <2> QED BY <1>7, <2>2, <2>3 DEF Relogin, Locked
<1>8. Owned'
  <2>1. UNCHANGED owner /\ \A s \in Jobs : ent'[s] \in {ent[s], None}
    BY DEF Proceed, Wake, Admitted, Refused, LoggedIn, LoginRejected, LoginUnavailable,
           WorkDone, WarmDone, WorkFails, SessionLost, Relogin, Leave, entries, TypeOK
  <2> QED BY <2>1, OwnedFrame
<1> QED BY <1>1, <1>2, <1>3, <1>4, <1>5, <1>6, <1>7, <1>8 DEF Proceed

LEMMA TimeSteps ==
    ASSUME IInv, NEW e \in Entries, LeaseEnds(e) \/ PortalForgets(e)
    PROVE  IInv'
<1>1. expired' \in [Entries -> BOOLEAN] /\ cookies' \in [Entries -> BOOLEAN]
  BY DEF LeaseEnds, PortalForgets, IInv, TypeOK
<1>2. TypeOK'
  BY <1>1 DEF LeaseEnds, PortalForgets, IInv, TypeOK
<1>3. UNCHANGED <<pool, owner, closed, holder, pc, ent>>
  BY DEF LeaseEnds, PortalForgets
<1>4. PooledIsOpen' /\ PoolBounded' /\ Locked' /\ Owned'
  BY <1>3, OpenFrame, BoundFrame DEF IInv, poolVars, Locked, Owned
<1> QED BY <1>2, <1>4 DEF IInv

LEMMA StepIInv == IInv /\ [Next]_vars => IInv'
<1> SUFFICES ASSUME IInv, [Next]_vars PROVE IInv'
  OBVIOUS
<1>1. ASSUME NEW t \in Jobs, NEW u \in Users, Reuse(t, u) PROVE IInv'
  <2>1. pool[u] \in Entries /\ queue \in [Entries -> Seq(Jobs)] /\ pc[t] = "idle"
    BY <1>1 DEF Reuse, IInv, TypeOK
  <2>2. Attach(t, pool[u], queue) /\ UNCHANGED <<pool, entries>>
    BY <1>1 DEF Reuse
  <2>3. demand' \in 0..Demand
    BY <1>1, BoundsAssumption DEF Reuse, IInv, TypeOK
  <2>4. /\ holder' \in [Entries -> Jobs \cup {None}]
        /\ queue' \in [Entries -> Seq(Jobs)]
        /\ pc' \in [Jobs -> {"idle", "queued"} \cup InLock]
        /\ ent' \in [Jobs -> Entries \cup {None}]
        /\ \A s \in Jobs : pc'[s] = "idle" <=> ent'[s] = None
        /\ \A f \in Entries : holder'[f] # None => ent'[holder'[f]] = f
    BY <2>1, <2>2, AttachTypes DEF IInv
  <2>5. TypeOK'
    BY <2>2, <2>3, <2>4 DEF IInv, TypeOK, entries
  <2>6. Locked'
    BY <2>1, <2>2, AttachLocked DEF IInv
  <2>7. PooledIsOpen' /\ PoolBounded'
    BY <2>2, OpenFrame, BoundFrame DEF IInv, poolVars, entries
  <2>8. Owned'
    <3>1. owner[pool[u]] = u /\ owner' = owner
      BY <1>1, <2>2 DEF Reuse, IInv, PooledIsOpen, Pooled, entries
    <3> QED BY <2>1, <2>2, <3>1 DEF IInv, Owned, Attach, TypeOK
  <2> QED BY <2>5, <2>6, <2>7, <2>8 DEF IInv
<1>2. ASSUME NEW t \in Jobs, NEW u \in Users, NEW e \in Entries,
             NEW vs \in SUBSET Users, Renew(t, u, e, vs)
      PROVE  IInv'
  BY <1>2, RenewTypes, RenewOpen, RenewBound DEF IInv
<1>3. ASSUME NEW t \in Jobs, Proceed(t) \/ Relogin(t) PROVE IInv'
  BY <1>3, Steps
<1>4. ASSUME NEW e \in Entries, LeaseEnds(e) \/ PortalForgets(e) PROVE IInv'
  BY <1>4, TimeSteps
<1>5. CASE UNCHANGED vars
  BY <1>5 DEF vars, IInv, TypeOK, Locked, Owned, PooledIsOpen, PoolBounded, Pooled
<1> QED BY <1>1, <1>2, <1>3, <1>4, <1>5 DEF Next, Proceed

LEMMA Invariance == Spec => []IInv
BY InitIInv, StepIInv, PTL DEF Spec

-----------------------------------------------------------------------------
(* The theorems.                                                            *)

\* Entries, locks and jobs refer to one another consistently in every state.
THEOREM TypeCorrect == Spec => []TypeOK
BY Invariance, PTL DEF IInv

\* Two jobs never use one portal client at a time, whatever was dropped, expired
\* or renewed while they waited for its lock.
THEOREM Exclusive == Spec => []ClientExclusive
<1>1. IInv => ClientExclusive
  BY DEF IInv, Locked, ClientExclusive
<1> QED BY <1>1, Invariance, PTL

\* The pool never hands out a closed client or another account's.
THEOREM Open == Spec => []PooledIsOpen
BY Invariance, PTL DEF IInv

\* The pool passes MAX_POOLED_SESSIONS only as far as running jobs need it.
THEOREM Bounded == Spec => []PoolBounded
BY Invariance, PTL DEF IInv

\* Only a job of the same account closes a client that is in use.
THEOREM OwnFault == Spec => ClosedByOwnFault
<1> DEFINE A == \A e \in Entries :
                  holder[e] # None /\ closed'[e] /\ ~closed[e] =>
                    \E t \in Jobs : /\ pc[t] \in {"login", "work"} /\ pc'[t] = "idle"
                                    /\ owner[ent[t]] = owner[e]
<1>1. ASSUME IInv, [Next]_vars PROVE A \/ UNCHANGED vars
  <2> SUFFICES ASSUME NEW e \in Entries, holder[e] # None, closed'[e], ~closed[e]
               PROVE  \E t \in Jobs : /\ pc[t] \in {"login", "work"} /\ pc'[t] = "idle"
                                      /\ owner[ent[t]] = owner[e]
    OBVIOUS
  <2>1. ASSUME NEW t \in Jobs, NEW u \in Users, NEW f \in Entries,
               NEW vs \in SUBSET Users, Renew(t, u, f, vs)
        PROVE  FALSE
    BY <2>1 DEF Renew, Evictable, Reapable, Pooled
  <2>2. ASSUME NEW t \in Jobs, LoginRejected(t) \/ SessionLost(t)
        PROVE  /\ pc[t] \in {"login", "work"} /\ pc'[t] = "idle"
               /\ owner[ent[t]] = owner[e]
    <3>1. DropSession(owner[ent[t]]) /\ pc[t] \in {"login", "work"} /\ pc'[t] = "idle"
      BY <2>2, <1>1 DEF LoginRejected, SessionLost, Leave, IInv, TypeOK
    <3>2. e = pool[owner[ent[t]]]
      BY <3>1 DEF DropSession
    <3>3. ent[t] \in Entries /\ owner[ent[t]] \in Users
      BY <1>1, <3>1 DEF IInv, TypeOK, Owned
    <3>4. owner[e] = owner[ent[t]]
      BY <1>1, <3>2, <3>3, SetsAssumption DEF IInv, PooledIsOpen, Pooled
    <3> QED BY <3>1, <3>4
  <2>3. ASSUME closed' = closed PROVE FALSE
    BY <2>3
  <2> QED BY <1>1, <2>1, <2>2, <2>3 DEF Next, Reuse, Wake, Admitted, Refused, LoggedIn,
             LoginUnavailable, WorkDone, WarmDone, WorkFails, Relogin, LeaseEnds,
             PortalForgets, entries, vars
<1>2. IInv /\ [Next]_vars => [A]_vars
  BY <1>1
<1> QED BY <1>2, Invariance, PTL DEF Spec, ClosedByOwnFault
=============================================================================
