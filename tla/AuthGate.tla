------------------------------ MODULE AuthGate ------------------------------
(***************************************************************************)
(* The credential quarantine of one account (app/nitris/auth_gate.py with    *)
(* the login paths of app/nitris/gateway.py and the handlers that call       *)
(* them).  Two records of one fact are kept: users.credentials_valid in the  *)
(* database and the gateway's in-memory guard, which a restart rebuilds.     *)
(*                                                                         *)
(* Every job reads the row, then works with a pooled session or logs in.     *)
(* The module SessionPool shows that the waiters of a dropped entry run      *)
(* beside the account's new entry, so two logins may be under way at once.   *)
(***************************************************************************)
EXTENDS Integers, FiniteSets

CONSTANTS
    Jobs,           \* the tasks that run the account's jobs
    Passwords,
    None,
    Registrations,  \* bound: completed re-registrations in a behaviour
    Changes,        \* bound: password changes at the portal
    Faults          \* bound: failed transactions and restarts

\* What a job does about a failed login.
\*   sync:  every refresh and background sync
\*   fetch: timetable, attachment and question paper downloads
\*   exam:  the exam seating handlers
\*   warm:  the session warmer
Kinds == {"sync", "fetch", "exam", "warm"}

ASSUME SetsAssumption ==
    /\ IsFiniteSet(Jobs) /\ Passwords # {}
    /\ None \notin Passwords \cup Kinds
ASSUME BoundsAssumption == Registrations \in Nat /\ Changes \in Nat /\ Faults \in Nat

VARIABLES
    password,   \* users.encrypted_password
    valid,      \* users.credentials_valid
    version,    \* users.credentials_version
    guard,      \* the account is in gateway._quarantined
    session,    \* the pool has a logged-in client for the account
    portal,     \* the password the portal accepts
    pc, kind, sent,  \* of each job: where it is, its kind, the password it read
    inner,      \* of each job: on_login_failure() was called inside the scrape
    reg, typed, \* the re-registration, and the password it verified
    rejections, \* automatic logins the portal rejected since the last one
    refused,    \* what has failed so far: logins by a "rejection", exam jobs by an "outage"
    notices,    \* quarantine notices sent
    changes, faults

row == <<password, valid, version>>
job == <<pc, kind, sent, inner>>
registration == <<reg, typed>>
history == <<rejections, refused, notices>>
vars == <<password, valid, version, guard, session, portal, pc, kind, sent, inner,
          reg, typed, rejections, refused, notices, changes, faults>>

MaxRejections == Cardinality(Jobs) * (3 + 3 * Faults) + 1

TypeOK ==
    /\ password \in Passwords /\ portal \in Passwords /\ typed \in Passwords \cup {None}
    /\ valid \in BOOLEAN /\ guard \in BOOLEAN /\ session \in BOOLEAN
    /\ version \in 1..(Registrations + 1)
    /\ pc \in [Jobs -> {"idle", "loaded", "login", "work", "relogin", "record", "told"}]
    /\ kind \in [Jobs -> Kinds \cup {None}]
    /\ sent \in [Jobs -> Passwords \cup {None}]
    /\ inner \in [Jobs -> BOOLEAN]
    /\ reg \in {"idle", "verified", "stored", "enabled"}
    /\ rejections \in 0..MaxRejections /\ refused \subseteq {"rejection", "outage"}
    /\ notices \in Nat
    /\ changes \in 0..Changes
    /\ faults \in 0..Faults
    /\ \A j \in Jobs : inner[j] => pc[j] \in {"record", "told"}
    /\ \A j \in Jobs : inner[j] \/ pc[j] = "relogin" => kind[j] = "sync"
    /\ \A j \in Jobs : (pc[j] = "idle" <=> kind[j] = None) /\ (pc[j] = "idle" <=> sent[j] = None)

Init ==
    /\ password \in Passwords /\ portal = password
    /\ valid = TRUE /\ version = 1 /\ guard = FALSE /\ session = FALSE
    /\ pc = [j \in Jobs |-> "idle"]
    /\ kind = [j \in Jobs |-> None] /\ sent = [j \in Jobs |-> None]
    /\ inner = [j \in Jobs |-> FALSE]
    /\ reg = "idle" /\ typed = None
    /\ rejections = 0 /\ refused = {} /\ notices = 0 /\ changes = 0 /\ faults = 0

-----------------------------------------------------------------------------
(* A job.                                                                   *)

\* The next point of the job; when it ends its frame is gone.
Go(j, at) ==
    /\ pc' = [pc EXCEPT ![j] = at]
    /\ kind' = IF at = "idle" THEN [kind EXCEPT ![j] = None] ELSE kind
    /\ sent' = IF at = "idle" THEN [sent EXCEPT ![j] = None] ELSE sent

\* The pre-check and the credentials, in one read of the row.
Load(j, k) ==
    /\ pc[j] = "idle" /\ valid
    /\ pc' = [pc EXCEPT ![j] = "loaded"]
    /\ kind' = [kind EXCEPT ![j] = k]
    /\ sent' = [sent EXCEPT ![j] = password]
    /\ UNCHANGED <<row, guard, session, portal, inner, registration, history,
                   changes, faults>>

UsesSession(j) ==
    /\ pc[j] = "loaded" /\ session
    /\ Go(j, "work")
    /\ UNCHANGED <<row, guard, session, portal, inner, registration,
                   history, changes, faults>>

BeginLogin(j) ==
    /\ pc[j] = "loaded" /\ ~guard
    /\ Go(j, "login")
    /\ UNCHANGED <<row, guard, session, portal, inner, registration,
                   history, changes, faults>>

\* Mutant of GuardRefuses: every handler catches LoginError only.
GuardRefusesQuietly(j) ==
    /\ pc[j] = "loaded" /\ guard
    /\ session' = FALSE
    /\ Go(j, "idle")
    /\ UNCHANGED <<row, guard, portal, inner, registration, history, changes, faults>>

\* CredentialsQuarantinedError, which drops the session like a rejection does.
GuardRefuses(j) ==
    /\ pc[j] = "loaded" /\ guard
    /\ session' = FALSE
    /\ Go(j, IF kind[j] = "sync" THEN "record" ELSE "idle")
    /\ UNCHANGED <<row, guard, portal, inner, registration, history,
                   changes, faults>>

LoginAccepted(j) ==
    /\ pc[j] = "login" /\ sent[j] = portal
    /\ session' = TRUE
    /\ Go(j, "work")
    /\ UNCHANGED <<row, guard, portal, inner, registration, history,
                   changes, faults>>

\* The portal answered and said no: LoginError.
Rejected ==
    /\ rejections' = IF rejections < MaxRejections THEN rejections + 1 ELSE rejections
    /\ refused' = refused \cup {"rejection"}

\* Mutant of LoginRejected: the guard is left to on_login_failure().
LoginRejectedUnguarded(j) ==
    /\ pc[j] = "login" /\ sent[j] # portal
    /\ session' = FALSE
    /\ Rejected
    /\ Go(j, IF kind[j] = "warm" THEN "idle" ELSE "record")
    /\ UNCHANGED <<row, guard, portal, inner, registration, notices,
                   changes, faults>>

LoginRejected(j) ==
    /\ pc[j] = "login" /\ sent[j] # portal
    /\ guard' = TRUE
    /\ session' = FALSE
    /\ Rejected
    /\ Go(j, IF kind[j] = "warm" THEN "idle" ELSE "record")
    /\ UNCHANGED <<row, portal, inner, registration, notices,
                   changes, faults>>

\* Mutant of LoginUnavailable: an outage is taken for a rejection.
LoginUnavailableBlurred(j) ==
    /\ pc[j] = "login"
    /\ Go(j, IF kind[j] = "warm" THEN "idle" ELSE "record")
    /\ UNCHANGED <<row, guard, session, portal, inner, registration,
                   history, changes, faults>>

\* The portal is down.  The exam seating handlers catch this error together
\* with LoginError.
LoginUnavailable(j) ==
    /\ pc[j] = "login"
    /\ Go(j, IF kind[j] = "exam" THEN "record" ELSE "idle")
    /\ refused' = IF kind[j] = "exam" THEN refused \cup {"outage"} ELSE refused
    /\ UNCHANGED <<row, guard, session, portal, inner, registration,
                   rejections, notices, changes, faults>>

WorkEnds(j) ==
    /\ pc[j] = "work"
    /\ Go(j, "idle")
    /\ UNCHANGED <<row, guard, session, portal, inner, registration,
                   history, changes, faults>>

\* SessionExpiredError, of the job's own client: the pool drops the session.
SessionExpires(j) ==
    /\ pc[j] = "work"
    /\ session' = FALSE
    /\ Go(j, "idle")
    /\ UNCHANGED <<row, guard, portal, inner, registration, history,
                   changes, faults>>

\* The attendance scrapes log in again through _do_login(), which asks no guard.
Relogin(j) ==
    /\ pc[j] = "work" /\ kind[j] = "sync"
    /\ Go(j, "relogin")
    /\ UNCHANGED <<row, guard, session, portal, inner, registration,
                   history, changes, faults>>

ReloginAccepted(j) ==
    /\ pc[j] = "relogin" /\ sent[j] = portal
    /\ Go(j, "work")
    /\ UNCHANGED <<row, guard, session, portal, inner, registration,
                   history, changes, faults>>

ReloginRejected(j) ==
    /\ pc[j] = "relogin" /\ sent[j] # portal
    /\ Rejected
    /\ inner' = [inner EXCEPT ![j] = TRUE]
    /\ Go(j, "record")
    /\ UNCHANGED <<row, guard, session, portal, registration,
                   notices, changes, faults>>

ReloginUnavailable(j) ==
    /\ pc[j] = "relogin"
    /\ Go(j, "idle")
    /\ UNCHANGED <<row, guard, session, portal, inner, registration,
                   history, changes, faults>>

-----------------------------------------------------------------------------
(* on_login_failure().                                                      *)

\* Back from it: a scrape's LoginError drops the session and reaches the
\* handler, which calls it once more.
Return(j) ==
    /\ Go(j, IF inner[j] THEN "record" ELSE "idle")
    /\ inner' = [inner EXCEPT ![j] = FALSE]
    /\ session' = (session /\ ~inner[j])

\* Mutant of RecordFirst: without AND credentials_valid = TRUE.
RecordAlways(j) ==
    /\ pc[j] = "record"
    /\ valid' = FALSE
    /\ Go(j, "told")
    /\ UNCHANGED <<password, version, guard, session, portal, inner,
                   registration, history, changes, faults>>

\* UPDATE users ... WHERE credentials_valid = TRUE, committed.
RecordFirst(j) ==
    /\ pc[j] = "record" /\ valid
    /\ valid' = FALSE
    /\ Go(j, "told")
    /\ UNCHANGED <<password, version, guard, session, portal, inner,
                   registration, history, changes, faults>>

RecordAgain(j) ==
    /\ pc[j] = "record" /\ ~valid
    /\ Return(j)
    /\ UNCHANGED <<row, guard, portal, registration, history,
                   changes, faults>>

RecordFails(j) ==
    /\ pc[j] = "record" /\ faults < Faults
    /\ faults' = faults + 1
    /\ Return(j)
    /\ UNCHANGED <<row, guard, portal, registration, history, changes>>

\* The guard, then the notice; Telegram may refuse it.  The exam handlers pass
\* the exception instead of its text, which raises before the notice is sent.
Tell(j) ==
    /\ pc[j] = "told"
    /\ guard' = TRUE
    /\ \/ kind[j] # "exam" /\ notices' = notices + 1
       \/ notices' = notices
    /\ Return(j)
    /\ UNCHANGED <<row, portal, registration, rejections, refused,
                   changes, faults>>

-----------------------------------------------------------------------------
(* Re-registration.                                                         *)

\* verify_credentials(): no guard, and only what the portal accepts goes on.
Verify ==
    /\ reg = "idle" /\ version <= Registrations
    /\ reg' = "verified"
    /\ typed' = portal
    /\ UNCHANGED <<row, guard, session, portal, job, history, changes, faults>>

StoreCredentials ==
    /\ reg = "verified"
    /\ reg' = "stored"
    /\ password' = typed
    /\ typed' = None
    /\ UNCHANGED <<valid, version, guard, session, portal, job, history, changes, faults>>

\* on_credentials_updated(): the transaction.
Enable ==
    /\ reg = "stored"
    /\ reg' = "enabled"
    /\ valid' = TRUE
    /\ version' = version + 1
    /\ UNCHANGED <<password, guard, session, portal, job, typed, history,
                   changes, faults>>

\* Its memory part.
Unquarantine ==
    /\ reg = "enabled"
    /\ reg' = "idle"
    /\ guard' = FALSE
    /\ rejections' = 0
    /\ UNCHANGED <<row, session, portal, job, typed, refused, notices, changes,
                   faults>>

\* A transaction of the registration fails: the new password may be stored
\* already, the account still quarantined.
RegistrationFails ==
    /\ reg \in {"verified", "stored"} /\ faults < Faults
    /\ reg' = "idle" /\ typed' = None
    /\ faults' = faults + 1
    /\ UNCHANGED <<row, guard, session, portal, job, history, changes>>

-----------------------------------------------------------------------------
(* The portal and the process.                                              *)

PortalPasswordChanges ==
    /\ changes < Changes
    /\ changes' = changes + 1
    /\ portal' \in Passwords \ {portal}
    /\ UNCHANGED <<row, guard, session, job, registration, history, faults>>

\* init_quarantine() rebuilds the guard from the rows; a failure is only logged.
Restart ==
    /\ faults < Faults
    /\ faults' = faults + 1
    /\ guard' \in {~valid, FALSE}
    /\ session' = FALSE
    /\ pc' = [j \in Jobs |-> "idle"]
    /\ kind' = [j \in Jobs |-> None] /\ sent' = [j \in Jobs |-> None]
    /\ inner' = [j \in Jobs |-> FALSE]
    /\ reg' = "idle" /\ typed' = None
    /\ UNCHANGED <<row, portal, history, changes>>

-----------------------------------------------------------------------------
Proceed(j) ==
    \/ UsesSession(j) \/ BeginLogin(j) \/ GuardRefuses(j)
    \/ LoginAccepted(j) \/ LoginRejected(j) \/ LoginUnavailable(j)
    \/ WorkEnds(j) \/ SessionExpires(j)
    \/ ReloginAccepted(j) \/ ReloginRejected(j) \/ ReloginUnavailable(j)
    \/ RecordFirst(j) \/ RecordAgain(j) \/ RecordFails(j) \/ Tell(j)

Next ==
    \/ \E j \in Jobs :
        \/ \E k \in Kinds : Load(j, k)
        \/ UsesSession(j) \/ BeginLogin(j) \/ GuardRefuses(j)
        \/ LoginAccepted(j) \/ LoginRejected(j) \/ LoginUnavailable(j)
        \/ WorkEnds(j) \/ SessionExpires(j) \/ Relogin(j)
        \/ ReloginAccepted(j) \/ ReloginRejected(j) \/ ReloginUnavailable(j)
        \/ RecordFirst(j) \/ RecordAgain(j) \/ RecordFails(j) \/ Tell(j)
    \/ Verify \/ StoreCredentials \/ Enable \/ Unquarantine \/ RegistrationFails
    \/ PortalPasswordChanges \/ Restart

Spec == Init /\ [][Next]_vars

\* The event loop runs every ready task, logins and scrapes end, and the
\* scheduler enqueues the account's syncs again and again.
Fairness ==
    /\ \A j \in Jobs : WF_vars(Proceed(j))
    /\ WF_vars(StoreCredentials \/ Enable) /\ WF_vars(Unquarantine)
    /\ SF_vars(\E j \in Jobs : Load(j, "sync"))
FairSpec == Spec /\ Fairness

-----------------------------------------------------------------------------
(* Properties.                                                              *)

\* However many syncs fail together, the user gets one notice at most for each
\* credential version ("concurrent failures produce exactly ONE notification").
NoticePerVersion == notices <= version

\* What the quarantine is for: until the user registers again, each worker sends
\* a rejected password at most once through the gateway, which the guard then
\* shuts, and once by a scrape's own login, which the row then shuts.  Between the
\* two parts of on_credentials_updated() the row is open again and the guard still
\* shut: a scrape of each may meet one more.  A fault gives all of it once more.
RejectionsBounded ==
    rejections <= Cardinality(Jobs) * (2 + 3 * faults + (IF reg = "enabled" THEN 1 ELSE 0))

\* An unreachable portal says nothing about the credentials: "an outage is not
\* proof of bad credentials".
OutageHarmless == [][valid /\ ~valid' => "rejection" \in refused]_vars

\* The same as far as the handlers tell the two errors apart: without a rejection
\* only an exam seating job that met an outage can have started a quarantine.
QuarantineHasGrounds == [][valid /\ ~valid' => refused # {}]_vars

\* A guard that the row knows nothing of (the warmer's, or that of a failed
\* transaction) does not last: the next sync records it, or finds a session.
GuardReachesRow == guard /\ valid ~> ~guard \/ ~valid \/ session

=============================================================================
