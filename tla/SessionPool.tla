---------------------------- MODULE SessionPool ----------------------------
(***************************************************************************)
(* The per-user pool of authenticated portal clients                        *)
(* (app/nitris/session_pool.py).  A job calls with_pooled_session(): it      *)
(* resolves the user's entry, waits for the entry's lock, enters the        *)
(* gateway, logs the client in if that is still due, and works with it.     *)
(*                                                                         *)
(* NitrisClient.close() suspends nowhere, so the code from the top of       *)
(* with_pooled_session() to the lock is one action.  close() empties the    *)
(* client's cookie jar and no more: a closed client still sends requests,   *)
(* which the portal answers with its login page.  The gateway's own state   *)
(* is the module Gateway's; here it admits a job or refuses it.             *)
(***************************************************************************)
EXTENDS Integers, Sequences, FiniteSets, SequencesExt

CONSTANTS
    Jobs,       \* tasks that call with_pooled_session()
    Users,
    Entries,    \* _Entry objects, numbered; one that nobody refers to is made anew
    None,
    Cap,        \* MAX_POOLED_SESSIONS
    Demand      \* bound: calls the program makes in a behaviour

ASSUME SetsAssumption ==
    /\ IsFiniteSet(Jobs) /\ IsFiniteSet(Users) /\ IsFiniteSet(Entries)
    /\ Entries \subseteq Nat
    /\ None \notin Jobs \cup Entries \cup Users
ASSUME BoundsAssumption == Cap \in Nat \ {0} /\ Demand \in Nat

VARIABLES
    pool,       \* _pool
    owner,      \* _Entry.user_id
    holder,     \* the job that holds _Entry.lock
    queue,      \* the jobs that wait for _Entry.lock
    needsLogin, \* _Entry.needs_login
    expired,    \* _Entry.expires has passed
    cookies,    \* the client has the cookies of a living portal session
    closed,     \* client.closed
    pc, ent,    \* where each job is, and the entry it resolved
    demand      \* calls still to be made

entries == <<owner, needsLogin, expired, cookies, closed>>
vars == <<pool, owner, holder, queue, needsLogin, expired, cookies, closed,
          pc, ent, demand>>

InLock == {"gate", "login", "work"}

TypeOK ==
    /\ pool \in [Users -> Entries \cup {None}]
    /\ owner \in [Entries -> Users \cup {None}]
    /\ holder \in [Entries -> Jobs \cup {None}]
    /\ queue \in [Entries -> Seq(Jobs)]
    /\ needsLogin \in [Entries -> BOOLEAN]
    /\ expired \in [Entries -> BOOLEAN]
    /\ cookies \in [Entries -> BOOLEAN]
    /\ closed \in [Entries -> BOOLEAN]
    /\ pc \in [Jobs -> {"idle", "queued"} \cup InLock]
    /\ ent \in [Jobs -> Entries \cup {None}]
    /\ demand \in 0..Demand
    /\ \A t \in Jobs : pc[t] = "idle" <=> ent[t] = None
    /\ \A e \in Entries : holder[e] # None => ent[holder[e]] = e

Init ==
    /\ pool = [u \in Users |-> None]
    /\ owner = [e \in Entries |-> None]
    /\ holder = [e \in Entries |-> None]
    /\ queue = [e \in Entries |-> <<>>]
    /\ needsLogin = [e \in Entries |-> TRUE]
    /\ expired = [e \in Entries |-> FALSE]
    /\ cookies = [e \in Entries |-> FALSE]
    /\ closed = [e \in Entries |-> FALSE]
    /\ pc = [t \in Jobs |-> "idle"]
    /\ ent = [t \in Jobs |-> None]
    /\ demand = Demand

-----------------------------------------------------------------------------
(* Resolving the entry.                                                     *)

Pooled == {u \in Users : pool[u] # None}

\* The pool or a job refers to e.
InUse(e) == (\E u \in Users : pool[u] = e) \/ (\E t \in Jobs : ent[t] = e)

\* asyncio.Lock: a free lock with no waiters is taken at once.
Attach(t, e, q) ==
    /\ ent' = [ent EXCEPT ![t] = e]
    /\ IF holder[e] = None /\ q[e] = <<>>
       THEN /\ holder' = [holder EXCEPT ![e] = t]
            /\ pc' = [pc EXCEPT ![t] = "gate"]
            /\ queue' = q
       ELSE /\ queue' = [q EXCEPT ![e] = Append(@, t)]
            /\ pc' = [pc EXCEPT ![t] = "queued"]
            /\ holder' = holder

\* Mutant of Reapable: the lock is not looked at.
ReapableHeld(u) == pool[u] # None /\ expired[pool[u]]

\* An expired entry is dropped, unless its lock is held.
Reapable(u) == pool[u] # None /\ expired[pool[u]] /\ holder[pool[u]] = None

\* Mutant of Evictable: the second pass is forgotten, and with it every
\* unlocked entry whose lease still runs.
EvictableExpired(us, vs) ==
    LET stale == {w \in us : holder[pool[w]] = None /\ expired[pool[w]]}
    IN  /\ vs \subseteq stale
        /\ IF Cardinality(us) < Cap THEN vs = {}
           ELSE \/ Cardinality(us \ vs) = Cap - 1
                \/ vs = stale /\ Cardinality(us \ vs) >= Cap

\* _evict_if_over_cap() with the users us in the pool: it drops vs, unlocked
\* entries only, the expired ones first, until there is room or none is left.
Evictable(us, vs) ==
    LET unlocked == {w \in us : holder[pool[w]] = None}
    IN  /\ vs \subseteq unlocked
        /\ \A v \in vs, w \in unlocked \ vs : expired[pool[w]] => expired[pool[v]]
        /\ IF Cardinality(us) < Cap THEN vs = {}
           ELSE \/ Cardinality(us \ vs) = Cap - 1
                \/ vs = unlocked /\ Cardinality(us \ vs) >= Cap

Reuse(t, u) ==
    /\ pc[t] = "idle" /\ demand > 0
    /\ pool[u] # None /\ ~Reapable(u)
    /\ Attach(t, pool[u], queue)
    /\ demand' = demand - 1
    /\ UNCHANGED <<pool, entries>>

\* A new entry e; gone are the user's own entry, if it was reapable, and the
\* evicted ones.  Their clients are closed.
Renew(t, u, e, vs) ==
    /\ pc[t] = "idle" /\ demand > 0
    /\ pool[u] = None \/ Reapable(u)
    /\ Evictable(Pooled \ {u}, vs)
    /\ ~InUse(e)
    /\ \A f \in Entries : ~InUse(f) => e <= f
    /\ LET gone == {pool[w] : w \in vs \cup ({u} \cap Pooled)}
       IN  /\ closed' = [f \in Entries |-> f # e /\ (closed[f] \/ f \in gone)]
           /\ cookies' = [f \in Entries |-> f # e /\ f \notin gone /\ cookies[f]]
    /\ pool' = [w \in Users |-> IF w = u THEN e ELSE IF w \in vs THEN None ELSE pool[w]]
    /\ owner' = [owner EXCEPT ![e] = u]
    /\ needsLogin' = [needsLogin EXCEPT ![e] = TRUE]
    /\ expired' = [expired EXCEPT ![e] = FALSE]
    /\ Attach(t, e, [queue EXCEPT ![e] = <<>>])
    /\ demand' = demand - 1

-----------------------------------------------------------------------------
(* Under the lock.                                                          *)

\* Mutant of Wake: waiters of an entry that was dropped are forgotten.
WakePooled(t) ==
    /\ pc[t] = "queued"
    /\ holder[ent[t]] = None
    /\ queue[ent[t]] # <<>> /\ Head(queue[ent[t]]) = t
    /\ pool[owner[ent[t]]] = ent[t]
    /\ holder' = [holder EXCEPT ![ent[t]] = t]
    /\ queue' = [queue EXCEPT ![ent[t]] = Tail(@)]
    /\ pc' = [pc EXCEPT ![t] = "gate"]
    /\ UNCHANGED <<pool, entries, ent, demand>>

\* The lock is free and this job is the first to wait for it.
Wake(t) ==
    /\ pc[t] = "queued"
    /\ holder[ent[t]] = None
    /\ queue[ent[t]] # <<>> /\ Head(queue[ent[t]]) = t
    /\ holder' = [holder EXCEPT ![ent[t]] = t]
    /\ queue' = [queue EXCEPT ![ent[t]] = Tail(@)]
    /\ pc' = [pc EXCEPT ![t] = "gate"]
    /\ UNCHANGED <<pool, entries, ent, demand>>

\* Out of both async-with blocks.
Leave(t) ==
    /\ pc' = [pc EXCEPT ![t] = "idle"]
    /\ ent' = [ent EXCEPT ![t] = None]
    /\ holder' = [holder EXCEPT ![ent[t]] = None]
    /\ UNCHANGED <<queue, demand>>

\* drop_session(): by user, whatever entry the pool has for the user by now.
DropSession(u) ==
    /\ pool' = [pool EXCEPT ![u] = None]
    /\ closed' = [e \in Entries |-> closed[e] \/ e = pool[u]]
    /\ cookies' = [e \in Entries |-> e # pool[u] /\ cookies[e]]

Admitted(t) ==
    /\ pc[t] = "gate"
    /\ pc' = [pc EXCEPT ![t] = IF needsLogin[ent[t]] THEN "login" ELSE "work"]
    /\ UNCHANGED <<pool, entries, holder, queue, ent, demand>>

\* The circuit is open, or the stored password cannot be decrypted.
Refused(t) ==
    /\ pc[t] = "gate"
    /\ Leave(t)
    /\ UNCHANGED <<pool, entries>>

\* Mutant of LoggedIn: the lock covers the login only.
LoggedInUnlocks(t) ==
    /\ pc[t] = "login"
    /\ pc' = [pc EXCEPT ![t] = "work"]
    /\ needsLogin' = [needsLogin EXCEPT ![ent[t]] = FALSE]
    /\ cookies' = [cookies EXCEPT ![ent[t]] = TRUE]
    /\ holder' = [holder EXCEPT ![ent[t]] = None]
    /\ UNCHANGED <<pool, owner, expired, closed, queue, ent, demand>>

\* A client closed during its login may have lost its cookies again.
LoggedIn(t) ==
    /\ pc[t] = "login"
    /\ pc' = [pc EXCEPT ![t] = "work"]
    /\ needsLogin' = [needsLogin EXCEPT ![ent[t]] = FALSE]
    /\ \E kept \in BOOLEAN :
        /\ kept \/ closed[ent[t]]
        /\ cookies' = [cookies EXCEPT ![ent[t]] = kept]
    /\ UNCHANGED <<pool, owner, expired, closed, holder, queue, ent, demand>>

\* LoginError, CredentialsQuarantinedError, or SessionExpiredError.
LoginRejected(t) ==
    /\ pc[t] = "login"
    /\ DropSession(owner[ent[t]])
    /\ Leave(t)
    /\ UNCHANGED <<owner, needsLogin, expired>>

\* The portal is down: the entry is kept, its login still due.
LoginUnavailable(t) ==
    /\ pc[t] = "login"
    /\ Leave(t)
    /\ UNCHANGED <<pool, entries>>

\* The sliding lease.
WorkDone(t) ==
    /\ pc[t] = "work" /\ cookies[ent[t]]
    /\ expired' = [expired EXCEPT ![ent[t]] = FALSE]
    /\ Leave(t)
    /\ UNCHANGED <<pool, owner, needsLogin, cookies, closed>>

\* warm_now() works nothing, and extends the lease of a dead session too.
WarmDone(t) ==
    /\ pc[t] = "work" /\ ~cookies[ent[t]]
    /\ expired' = [expired EXCEPT ![ent[t]] = FALSE]
    /\ Leave(t)
    /\ UNCHANGED <<pool, owner, needsLogin, cookies, closed>>

\* Any other error keeps the session.
WorkFails(t) ==
    /\ pc[t] = "work"
    /\ Leave(t)
    /\ UNCHANGED <<pool, entries>>

\* Without the cookies the portal shows its login page: SessionExpiredError.
SessionLost(t) ==
    /\ pc[t] = "work" /\ ~cookies[ent[t]]
    /\ DropSession(owner[ent[t]])
    /\ Leave(t)
    /\ UNCHANGED <<owner, needsLogin, expired>>

\* The attendance scrape logs in again by itself.
Relogin(t) ==
    /\ pc[t] = "work" /\ ~cookies[ent[t]]
    /\ cookies' = [cookies EXCEPT ![ent[t]] = TRUE]
    /\ UNCHANGED <<pool, owner, needsLogin, expired, closed, holder, queue, pc, ent, demand>>

-----------------------------------------------------------------------------
(* Time.                                                                    *)

LeaseEnds(e) ==
    /\ ~expired[e] /\ \E u \in Users : pool[u] = e
    /\ expired' = [expired EXCEPT ![e] = TRUE]
    /\ UNCHANGED <<pool, owner, needsLogin, cookies, closed, holder, queue, pc, ent, demand>>

PortalForgets(e) ==
    /\ cookies[e] /\ InUse(e)
    /\ cookies' = [cookies EXCEPT ![e] = FALSE]
    /\ UNCHANGED <<pool, owner, needsLogin, expired, closed, holder, queue, pc, ent, demand>>

-----------------------------------------------------------------------------
Proceed(t) ==
    \/ Wake(t) \/ Admitted(t) \/ Refused(t)
    \/ LoggedIn(t) \/ LoginRejected(t) \/ LoginUnavailable(t)
    \/ WorkDone(t) \/ WarmDone(t) \/ WorkFails(t) \/ SessionLost(t)

Next ==
    \/ \E t \in Jobs, u \in Users :
        \/ Reuse(t, u)
        \/ \E e \in Entries, vs \in SUBSET Users : Renew(t, u, e, vs)
    \/ \E t \in Jobs :
        \/ Wake(t) \/ Admitted(t) \/ Refused(t)
        \/ LoggedIn(t) \/ LoginRejected(t) \/ LoginUnavailable(t)
        \/ WorkDone(t) \/ WarmDone(t) \/ WorkFails(t) \/ SessionLost(t)
        \/ Relogin(t)
    \/ \E e \in Entries : LeaseEnds(e) \/ PortalForgets(e)

Spec == Init /\ [][Next]_vars

\* The event loop runs every ready task; logins and scrapes end, by their
\* result or by the HTTP client's timeout.
Fairness == \A t \in Jobs : WF_vars(Proceed(t))
FairSpec == Spec /\ Fairness

-----------------------------------------------------------------------------
(* Properties.                                                              *)

\* Two jobs never use one client at the same time (the lock "protects the
\* shared httpx cookie jar"), dropped and renewed entries included.
ClientExclusive ==
    \A s, t \in Jobs : pc[s] \in InLock /\ pc[t] \in InLock /\ ent[s] = ent[t] => s = t

\* Whatever was dropped is really gone: a caller is only ever handed a client
\* that nobody has closed.
PooledIsOpen == \A u \in Pooled : ~closed[pool[u]] /\ owner[pool[u]] = u

\* The pool is bounded although locked entries cannot be evicted: it grows past
\* MAX_POOLED_SESSIONS only while every session is in use.
PoolBounded ==
    Cardinality(Pooled) <= Cap \/ Cardinality(Pooled) <= Cardinality(Jobs)

\* A client is closed under a running job only by a job of the same account
\* that met a session fault: eviction and expiry never do it, and one account's
\* faults never reach another's session.
ClosedByOwnFault ==
    [][\A e \in Entries :
         holder[e] # None /\ closed'[e] /\ ~closed[e] =>
            \E t \in Jobs : /\ pc[t] \in {"login", "work"} /\ pc'[t] = "idle"
                            /\ owner[ent[t]] = owner[e]]_vars

\* Every call ends, one that waits for an entry which was dropped meanwhile
\* included.
EveryCallEnds == \A t \in Jobs : pc[t] # "idle" ~> pc[t] = "idle"

=============================================================================
