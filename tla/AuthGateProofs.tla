--------------------------- MODULE AuthGateProofs ---------------------------
(***************************************************************************)
(* What AuthGate promises for every number of workers, passwords,           *)
(* re-registrations and faults.                                             *)
(***************************************************************************)
EXTENDS AuthGate, FiniteSetTheorems, TLAPS

Points == {"idle", "loaded", "login", "work", "relogin", "record", "told"}

\* The jobs whose UPDATE flipped the row and whose notice is still to come.
Telling == {j \in Jobs : pc[j] = "told"}

\* Each version buys one flip: a notice, a notice to come, or a valid row.
Budget == notices + Cardinality(Telling) + (IF valid THEN 1 ELSE 0) <= version

\* Whoever quarantines, or is quarantined, has met a failed login.
Grounds ==
    guard \/ ~valid \/ (\E j \in Jobs : pc[j] \in {"record", "told"}) => refused # {}

\* A registration under way has a version left and, till it is stored, a password.
Room ==
    /\ reg \in {"verified", "stored"} => version <= Registrations
    /\ reg = "verified" => typed \in Passwords

IInv == TypeOK /\ Budget /\ Grounds /\ Room

-----------------------------------------------------------------------------
(* Where the jobs are.                                                      *)

LEMMA GoTypes ==
    ASSUME TypeOK, NEW j \in Jobs, NEW at \in Points, pc[j] # "idle", Go(j, at)
    PROVE  /\ pc' \in [Jobs -> Points]
           /\ kind' \in [Jobs -> Kinds \cup {None}]
           /\ sent' \in [Jobs -> Passwords \cup {None}]
           /\ \A i \in Jobs : (pc'[i] = "idle" <=> kind'[i] = None)
                              /\ (pc'[i] = "idle" <=> sent'[i] = None)
<1>1. pc' \in [Jobs -> Points]
  BY DEF Go, TypeOK, Points
<1>2. kind' \in [Jobs -> Kinds \cup {None}] /\ sent' \in [Jobs -> Passwords \cup {None}]
  BY DEF Go, TypeOK
<1>3. \A i \in Jobs : pc'[i] = "idle" <=> kind'[i] = None
  BY DEF Go, TypeOK
<1>4. \A i \in Jobs : pc'[i] = "idle" <=> sent'[i] = None
  BY DEF Go, TypeOK
<1> QED BY <1>1, <1>2, <1>3, <1>4

\* A step of a job that is neither told nor becomes so leaves Telling alone.
LEMMA TellingFrame ==
    ASSUME TypeOK, NEW j \in Jobs, NEW at \in Points \ {"told"}, pc[j] # "told", Go(j, at)
    PROVE  Telling' = Telling
BY DEF Telling, Go, TypeOK

LEMMA TellingFinite ==
    ASSUME TypeOK
    PROVE  IsFiniteSet(Telling) /\ Cardinality(Telling) \in Nat
BY SetsAssumption, FS_Subset, FS_CardinalityType DEF Telling

LEMMA BudgetFrame ==
    ASSUME Budget, Telling' = Telling, UNCHANGED <<notices, valid, version>>
    PROVE  Budget'
BY DEF Budget

\* The scrape's own login and its call of on_login_failure() happen in a sync.
ScrapesAreSyncs ==
    /\ \A i \in Jobs : inner[i] => pc[i] \in {"record", "told"}
    /\ \A i \in Jobs : inner[i] \/ pc[i] = "relogin" => kind[i] = "sync"

LEMMA InnerFrame ==
    ASSUME TypeOK, NEW j \in Jobs, NEW at \in Points, ~inner[j], inner' = inner, Go(j, at),
           at = "relogin" => kind[j] = "sync"
    PROVE  ScrapesAreSyncs'
BY DEF Go, TypeOK, ScrapesAreSyncs

-----------------------------------------------------------------------------
(* The steps.                                                               *)

\* Steps that only move a job that has met no failure.
LEMMA PlainStep ==
    ASSUME IInv, NEW j \in Jobs, NEW at \in Points \ {"record", "told"},
           at = "relogin" => kind[j] = "sync",
           pc[j] \in {"loaded", "login", "work", "relogin"}, Go(j, at),
           session' \in BOOLEAN,
           UNCHANGED <<row, guard, portal, inner, registration, history, changes, faults>>
    PROVE  IInv'
<1>1. at \in Points /\ at \notin {"record", "told"}
  BY DEF Points
<1>2. ~inner[j] /\ pc[j] # "idle"
  BY DEF IInv, TypeOK
<1>3. TypeOK'
  BY <1>1, <1>2, GoTypes, InnerFrame DEF IInv, TypeOK, ScrapesAreSyncs, Points, row, registration, history
<1>4. Telling' = Telling
  BY <1>1, TellingFrame DEF IInv
<1>5. Budget'
  BY <1>4, BudgetFrame DEF IInv, row, history
<1>6. Grounds'
  BY <1>1 DEF IInv, Grounds, Go, TypeOK, row, history
<1>7. Room'
  BY DEF IInv, Room, row, registration
<1> QED BY <1>3, <1>5, <1>6, <1>7 DEF IInv

LEMMA LoadStep ==
    ASSUME IInv, NEW j \in Jobs, NEW k \in Kinds, Load(j, k)
    PROVE  IInv'
<1>1. pc' \in [Jobs -> Points] /\ kind' \in [Jobs -> Kinds \cup {None}]
  BY DEF Load, IInv, TypeOK, Points
<1>2. sent' \in [Jobs -> Passwords \cup {None}]
  BY DEF Load, IInv, TypeOK
<1>3. \A i \in Jobs : pc'[i] = "idle" <=> kind'[i] = None
  BY SetsAssumption DEF Load, IInv, TypeOK
<1>4. \A i \in Jobs : pc'[i] = "idle" <=> sent'[i] = None
  BY SetsAssumption DEF Load, IInv, TypeOK
<1>5. ScrapesAreSyncs'
  BY DEF Load, IInv, TypeOK, ScrapesAreSyncs
<1>6. TypeOK'
  BY <1>1, <1>2, <1>3, <1>4, <1>5
  DEF Load, IInv, TypeOK, ScrapesAreSyncs, Points, row, registration, history
<1>7. Telling' = Telling
  BY DEF Load, IInv, TypeOK, Telling
<1>8. Budget'
  BY <1>7, BudgetFrame DEF Load, IInv, row, history
<1>9. Grounds' /\ Room'
  BY DEF Load, IInv, TypeOK, Grounds, Room, row, history, registration
<1> QED BY <1>6, <1>8, <1>9 DEF IInv

LEMMA GuardStep ==
    ASSUME IInv, NEW j \in Jobs, GuardRefuses(j)
    PROVE  IInv'
<1> DEFINE at == IF kind[j] = "sync" THEN "record" ELSE "idle"
<1>1. at \in Points \ {"told"} /\ pc[j] # "idle" /\ pc[j] # "told" /\ ~inner[j]
  BY DEF GuardRefuses, IInv, TypeOK, Points
<1>2. Go(j, at)
  BY DEF GuardRefuses
<1> HIDE DEF at
<1>3. TypeOK'
  BY <1>1, <1>2, GoTypes, InnerFrame
  DEF GuardRefuses, IInv, TypeOK, ScrapesAreSyncs, Points, row, registration, history
<1>4. Telling' = Telling
  BY <1>1, <1>2, TellingFrame DEF IInv
<1>5. Budget'
  BY <1>4, BudgetFrame DEF GuardRefuses, IInv, row, history
<1>6. Grounds' /\ Room'
  BY DEF GuardRefuses, IInv, Grounds, Room, row, history, registration
<1> QED BY <1>3, <1>5, <1>6 DEF IInv

\* A failed login, by a rejection or, for the exam handlers, by an outage.
LEMMA FailedLoginStep ==
    ASSUME IInv, NEW j \in Jobs,
           \/ LoginRejected(j)
           \/ ReloginRejected(j)
           \/ LoginUnavailable(j) /\ kind[j] = "exam"
    PROVE  IInv'
<1>1. PICK to \in {"idle", "record"} : Go(j, to)
  BY DEF LoginRejected, ReloginRejected, LoginUnavailable
<1>2. /\ to \in Points \ {"told"} /\ pc[j] # "idle" /\ pc[j] # "told" /\ ~inner[j]
  BY DEF LoginRejected, ReloginRejected, LoginUnavailable, IInv, TypeOK, Points
<1>3. refused' # {} /\ refused' \subseteq {"rejection", "outage"}
  BY DEF LoginRejected, ReloginRejected, LoginUnavailable, Rejected, IInv, TypeOK
<1>4. rejections' \in 0..MaxRejections
  <2>1. CASE LoginUnavailable(j)
    BY <2>1 DEF LoginUnavailable, IInv, TypeOK
  <2>2. CASE Rejected
    <3>1. MaxRejections \in Nat
      BY SetsAssumption, FS_CardinalityType, BoundsAssumption DEF MaxRejections
    <3> QED BY <2>2, <3>1 DEF Rejected, IInv, TypeOK
  <2> QED BY <2>1, <2>2 DEF LoginRejected, ReloginRejected
<1>5. /\ UNCHANGED <<password, valid, version, portal, reg, typed, notices, changes, faults>>
      /\ guard' \in BOOLEAN /\ session' \in BOOLEAN
  BY DEF LoginRejected, ReloginRejected, LoginUnavailable, IInv, TypeOK,
         row, registration, history
<1>6. inner' \in [Jobs -> BOOLEAN]
  BY DEF LoginRejected, ReloginRejected, LoginUnavailable, IInv, TypeOK
<1>7. ScrapesAreSyncs'
  <2>1. CASE inner' = inner
    BY <1>1, <1>2, <2>1, InnerFrame DEF IInv
  <2>2. CASE ReloginRejected(j)
    <3>1. kind[j] = "sync" /\ Go(j, "record")
      BY <2>2 DEF ReloginRejected, IInv, TypeOK
    <3> QED BY <2>2, <3>1 DEF ReloginRejected, Go, IInv, TypeOK, ScrapesAreSyncs
  <2> QED BY <2>1, <2>2 DEF LoginRejected, LoginUnavailable
<1>8. TypeOK'
  BY <1>1, <1>2, <1>3, <1>4, <1>5, <1>6, <1>7, GoTypes DEF IInv, TypeOK, ScrapesAreSyncs, Points
<1>9. Telling' = Telling
  BY <1>1, <1>2, TellingFrame DEF IInv
<1>10. Budget'
  BY <1>5, <1>9, BudgetFrame DEF IInv
<1>11. Grounds' /\ Room'
  BY <1>3, <1>5 DEF IInv, Grounds, Room
<1> QED BY <1>8, <1>10, <1>11 DEF IInv

\* Back from on_login_failure(), with nothing recorded.
LEMMA ReturnTypes ==
    ASSUME TypeOK, NEW j \in Jobs, pc[j] \in {"record", "told"}, Return(j)
    PROVE  /\ pc' \in [Jobs -> Points]
           /\ kind' \in [Jobs -> Kinds \cup {None}]
           /\ sent' \in [Jobs -> Passwords \cup {None}]
           /\ \A i \in Jobs : (pc'[i] = "idle" <=> kind'[i] = None)
                              /\ (pc'[i] = "idle" <=> sent'[i] = None)
           /\ inner' \in [Jobs -> BOOLEAN] /\ session' \in BOOLEAN
           /\ ScrapesAreSyncs'
<1> DEFINE to == IF inner[j] THEN "record" ELSE "idle"
<1>1. Go(j, to) /\ to \in Points /\ to # "relogin" /\ pc[j] # "idle"
  BY DEF Return, Points
<1>2. inner' \in [Jobs -> BOOLEAN] /\ session' \in BOOLEAN
  BY DEF Return, TypeOK
<1>3. \A i \in Jobs : i # j => pc'[i] = pc[i] /\ kind'[i] = kind[i] /\ inner'[i] = inner[i]
  BY DEF Return, Go, TypeOK
<1>4. ~inner'[j] /\ pc'[j] # "relogin"
  BY DEF Return, Go, TypeOK
<1>5. ScrapesAreSyncs'
  BY <1>3, <1>4 DEF ScrapesAreSyncs, TypeOK
<1> HIDE DEF to
<1> QED BY <1>1, <1>2, <1>5, GoTypes

LEMMA UnrecordedStep ==
    ASSUME IInv, NEW j \in Jobs, RecordAgain(j) \/ RecordFails(j)
    PROVE  IInv'
<1>1. pc[j] = "record" /\ Return(j)
  BY DEF RecordAgain, RecordFails
<1>2. /\ UNCHANGED <<password, valid, version, guard, portal, reg, typed,
                     rejections, refused, notices, changes>>
      /\ faults' \in 0..Faults
  BY BoundsAssumption DEF RecordAgain, RecordFails, row, registration, history, IInv, TypeOK
<1>3. TypeOK'
  BY <1>1, <1>2, ReturnTypes DEF IInv, TypeOK, ScrapesAreSyncs, Points
<1>4. Telling' = Telling
  <2>1. PICK to \in {"record", "idle"} : Go(j, to)
    BY <1>1 DEF Return
  <2> QED BY <1>1, <2>1, TellingFrame DEF IInv, Points
<1>5. Budget'
  BY <1>2, <1>4, BudgetFrame DEF IInv
<1>6. refused # {}
  BY <1>1 DEF IInv, Grounds
<1>7. Grounds' /\ Room'
  BY <1>2, <1>6 DEF IInv, Grounds, Room
<1> QED BY <1>3, <1>5, <1>7 DEF IInv

LEMMA RecordStep ==
    ASSUME IInv, NEW j \in Jobs, RecordFirst(j)
    PROVE  IInv'
<1>1. pc[j] = "record" /\ Go(j, "told") /\ valid /\ ~valid'
  BY DEF RecordFirst
<1>2. UNCHANGED <<password, version, guard, session, portal, inner, reg, typed,
                  rejections, refused, notices, changes, faults>>
  BY DEF RecordFirst, registration, history
<1>3. ScrapesAreSyncs'
  BY <1>1, <1>2 DEF Go, IInv, TypeOK, ScrapesAreSyncs
<1>4. valid' = FALSE /\ "told" \in Points /\ pc[j] # "idle"
  BY <1>1 DEF RecordFirst, Points
<1>5. TypeOK'
  BY <1>1, <1>2, <1>3, <1>4, GoTypes DEF IInv, TypeOK, ScrapesAreSyncs, Points
<1>6. Telling' = Telling \cup {j} /\ j \notin Telling
  BY <1>1 DEF Go, IInv, TypeOK, Telling
<1>7. Cardinality(Telling') = Cardinality(Telling) + 1 /\ Cardinality(Telling) \in Nat
  BY <1>6, TellingFinite, FS_AddElement DEF IInv
<1>8. Budget'
  BY <1>1, <1>2, <1>7 DEF IInv, Budget, TypeOK
<1>9. refused # {}
  BY <1>1 DEF IInv, Grounds
<1>10. Grounds' /\ Room'
  BY <1>2, <1>9 DEF IInv, Grounds, Room
<1> QED BY <1>5, <1>8, <1>10 DEF IInv

LEMMA TellStep ==
    ASSUME IInv, NEW j \in Jobs, Tell(j)
    PROVE  IInv'
<1>1. pc[j] = "told" /\ Return(j) /\ guard' = TRUE /\ notices' \in {notices, notices + 1}
  BY DEF Tell
<1>2. UNCHANGED <<password, valid, version, portal, reg, typed, rejections, refused,
                  changes, faults>>
  <2>1. rejections' = rejections /\ refused' = refused
    BY DEF Tell
  <2> QED BY <2>1 DEF Tell, row, registration
<1>3. TypeOK'
  BY <1>1, <1>2, ReturnTypes DEF IInv, TypeOK, ScrapesAreSyncs, Points
<1>4. Telling' = Telling \ {j} /\ j \in Telling
  BY <1>1 DEF Return, Go, IInv, TypeOK, Telling
<1>5. Cardinality(Telling') = Cardinality(Telling) - 1 /\ Cardinality(Telling) \in Nat
  BY <1>4, TellingFinite, FS_RemoveElement DEF IInv
<1>6. Budget'
  BY <1>1, <1>2, <1>5 DEF IInv, Budget, TypeOK
<1>7. refused # {}
  BY <1>1 DEF IInv, Grounds
<1>8. Grounds' /\ Room'
  BY <1>2, <1>7 DEF IInv, Grounds, Room
<1> QED BY <1>3, <1>6, <1>8 DEF IInv

\* The registration touches no job.
LEMMA RegistrationStep ==
    ASSUME IInv, Verify \/ StoreCredentials \/ Enable \/ Unquarantine \/ RegistrationFails
    PROVE  IInv'
<1>1. UNCHANGED <<pc, kind, sent, inner, session, portal, refused, notices, changes>>
  BY DEF Verify, StoreCredentials, Enable, Unquarantine, RegistrationFails, job, history
<1>2. Telling' = Telling
  BY <1>1 DEF Telling
<1>3. password' \in Passwords /\ typed' \in Passwords \cup {None}
  BY DEF Verify, StoreCredentials, Enable, Unquarantine, RegistrationFails, row, registration,
         IInv, TypeOK, Room
<1>4. /\ valid' \in BOOLEAN /\ guard' \in BOOLEAN
      /\ reg' \in {"idle", "verified", "stored", "enabled"}
  BY DEF Verify, StoreCredentials, Enable, Unquarantine, RegistrationFails, row, registration,
         IInv, TypeOK
<1>5. version' \in 1..(Registrations + 1)
  BY BoundsAssumption
  DEF Verify, StoreCredentials, Enable, Unquarantine, RegistrationFails, row, IInv, TypeOK, Room
<1>6. rejections' \in 0..MaxRejections /\ faults' \in 0..Faults
  <2>1. MaxRejections \in Nat
    BY SetsAssumption, FS_CardinalityType, BoundsAssumption DEF MaxRejections
  <2> QED BY <2>1, BoundsAssumption
      DEF Verify, StoreCredentials, Enable, Unquarantine, RegistrationFails, history, IInv, TypeOK
<1>7. TypeOK'
  BY <1>1, <1>3, <1>4, <1>5, <1>6 DEF IInv, TypeOK
<1>8. Budget'
  <2>1. Cardinality(Telling) \in Nat
    BY TellingFinite DEF IInv
  <2>2. CASE Enable
    BY <1>1, <1>2, <2>1, <2>2 DEF Enable, IInv, Budget, TypeOK
  <2>3. CASE UNCHANGED <<valid, version>>
    BY <1>1, <1>2, <2>3, BudgetFrame DEF IInv
  <2> QED BY <2>2, <2>3 DEF Verify, StoreCredentials, Unquarantine, RegistrationFails, row
<1>9. (guard' => guard) /\ (~valid' => ~valid)
  BY DEF Verify, StoreCredentials, Enable, Unquarantine, RegistrationFails, row
<1>10. Grounds'
  BY <1>1, <1>9 DEF IInv, Grounds
<1>11. Room'
  BY <1>3 DEF Verify, StoreCredentials, Enable, Unquarantine, RegistrationFails, row,
         IInv, TypeOK, Room
<1> QED BY <1>7, <1>8, <1>10, <1>11 DEF IInv

LEMMA EnvironmentStep ==
    ASSUME IInv, PortalPasswordChanges \/ Restart
    PROVE  IInv'
<1>1. CASE PortalPasswordChanges
  <2>1. UNCHANGED <<row, guard, session, job, registration, rejections, refused, notices, faults>>
    BY <1>1 DEF PortalPasswordChanges, history
  <2>2. portal' \in Passwords /\ changes' \in 0..Changes
    BY <1>1, BoundsAssumption DEF PortalPasswordChanges, IInv, TypeOK
  <2>3. TypeOK'
    BY <2>1, <2>2 DEF IInv, TypeOK, row, job, registration
  <2> QED BY <2>1, <2>3 DEF IInv, Budget, Grounds, Room, Telling, row, job, registration
<1>2. CASE Restart
  <2>1. UNCHANGED <<password, valid, version, portal, rejections, refused, notices, changes>>
    BY <1>2 DEF Restart, row, history
  <2>2. guard' \in BOOLEAN /\ faults' \in 0..Faults
    <3>1. guard' \in {~valid, FALSE} /\ valid \in BOOLEAN
      BY <1>2 DEF Restart, IInv, TypeOK
    <3>2. faults' \in 0..Faults
      BY <1>2, BoundsAssumption DEF Restart, IInv, TypeOK
    <3> QED BY <3>1, <3>2
  <2>3. TypeOK'
    BY <1>2, <2>1, <2>2 DEF Restart, IInv, TypeOK
  <2>4. Telling' = {}
    BY <1>2 DEF Restart, Telling
  <2>5. Budget'
    BY <2>1, <2>4, FS_EmptySet, TellingFinite DEF IInv, Budget, TypeOK
  <2>6. Grounds' /\ Room'
    BY <1>2, <2>1 DEF Restart, IInv, Grounds, Room
  <2> QED BY <2>3, <2>5, <2>6 DEF IInv
<1> QED BY <1>1, <1>2

-----------------------------------------------------------------------------
(* The inductive invariant.                                                 *)

LEMMA InitIInv == Init => IInv
<1> SUFFICES ASSUME Init PROVE IInv
  OBVIOUS
<1>1. MaxRejections \in Nat
  BY SetsAssumption, FS_CardinalityType, BoundsAssumption DEF MaxRejections
<1>2. TypeOK
  <2>1. 1 \in 1..(Registrations + 1) /\ 0 \in 0..MaxRejections /\ 0 \in 0..Changes /\ 0 \in 0..Faults
    BY <1>1, BoundsAssumption
  <2>2. version \in 1..(Registrations + 1) /\ rejections \in 0..MaxRejections
        /\ notices \in Nat /\ changes \in 0..Changes /\ faults \in 0..Faults
    BY <2>1 DEF Init
  <2>3. /\ valid \in BOOLEAN /\ guard \in BOOLEAN /\ session \in BOOLEAN
        /\ password \in Passwords /\ portal \in Passwords /\ typed \in Passwords \cup {None}
        /\ refused \subseteq {"rejection", "outage"}
        /\ reg \in {"idle", "verified", "stored", "enabled"}
    BY DEF Init
  <2>4. /\ pc = [j \in Jobs |-> "idle"] /\ inner = [j \in Jobs |-> FALSE]
        /\ kind = [j \in Jobs |-> None] /\ sent = [j \in Jobs |-> None]
    BY DEF Init
  <2> QED BY <2>2, <2>3, <2>4 DEF TypeOK
<1>3. Telling = {}
  BY DEF Init, Telling
<1>4. Budget
  BY <1>3, FS_EmptySet DEF Init, Budget
<1>5. Grounds /\ Room
  BY DEF Init, Grounds, Room
<1> QED BY <1>2, <1>4, <1>5 DEF IInv

LEMMA StepIInv == IInv /\ [Next]_vars => IInv'
<1> SUFFICES ASSUME IInv, [Next]_vars PROVE IInv'
  OBVIOUS
<1>1. ASSUME NEW j \in Jobs,
             \/ UsesSession(j) \/ BeginLogin(j) \/ LoginAccepted(j)
             \/ LoginUnavailable(j) /\ kind[j] # "exam"
             \/ WorkEnds(j) \/ SessionExpires(j) \/ Relogin(j)
             \/ ReloginAccepted(j) \/ ReloginUnavailable(j)
      PROVE  IInv'
  <2>1. PICK at \in {"idle", "login", "work", "relogin"} :
          Go(j, at) /\ (at = "relogin" => kind[j] = "sync")
    BY <1>1 DEF UsesSession, BeginLogin, LoginAccepted, LoginUnavailable, WorkEnds,
                SessionExpires, Relogin, ReloginAccepted, ReloginUnavailable
  <2>2. pc[j] \in {"loaded", "login", "work", "relogin"}
    BY <1>1 DEF UsesSession, BeginLogin, LoginAccepted, LoginUnavailable, WorkEnds,
                SessionExpires, Relogin, ReloginAccepted, ReloginUnavailable
  <2>3. session' \in BOOLEAN
    BY <1>1 DEF UsesSession, BeginLogin, LoginAccepted, LoginUnavailable, WorkEnds,
                SessionExpires, Relogin, ReloginAccepted, ReloginUnavailable, IInv, TypeOK
  <2>4. UNCHANGED <<row, guard, portal, inner, registration, history, changes, faults>>
    BY <1>1 DEF UsesSession, BeginLogin, LoginAccepted, LoginUnavailable, WorkEnds,
                SessionExpires, Relogin, ReloginAccepted, ReloginUnavailable, history
  <2>5. at \in Points \ {"record", "told"}
    BY <2>1 DEF Points
  <2> QED BY <2>1, <2>2, <2>3, <2>4, <2>5, PlainStep
<1>2. ASSUME NEW j \in Jobs, NEW k \in Kinds, Load(j, k) PROVE IInv'
  BY <1>2, LoadStep
<1>3. ASSUME NEW j \in Jobs, GuardRefuses(j) PROVE IInv'
  BY <1>3, GuardStep
<1>4. ASSUME NEW j \in Jobs,
             \/ LoginRejected(j)
             \/ ReloginRejected(j)
             \/ LoginUnavailable(j) /\ kind[j] = "exam"
      PROVE  IInv'
  BY <1>4, FailedLoginStep
<1>5. ASSUME NEW j \in Jobs, RecordAgain(j) \/ RecordFails(j) PROVE IInv'
  BY <1>5, UnrecordedStep
<1>6. ASSUME NEW j \in Jobs, RecordFirst(j) PROVE IInv'
  BY <1>6, RecordStep
<1>7. ASSUME NEW j \in Jobs, Tell(j) PROVE IInv'
  BY <1>7, TellStep
<1>8. CASE Verify \/ StoreCredentials \/ Enable \/ Unquarantine \/ RegistrationFails
  BY <1>8, RegistrationStep
<1>9. CASE PortalPasswordChanges \/ Restart
  BY <1>9, EnvironmentStep
<1>10. CASE UNCHANGED vars
  BY <1>10 DEF vars, IInv, TypeOK, Budget, Grounds, Room, Telling
<1> QED BY <1>1, <1>2, <1>3, <1>4, <1>5, <1>6, <1>7, <1>8, <1>9, <1>10 DEF Next

LEMMA Invariance == Spec => []IInv
BY InitIInv, StepIInv, PTL DEF Spec

-----------------------------------------------------------------------------
(* The theorems.                                                            *)

\* The row, the guard and the jobs stay well formed.
THEOREM TypeCorrect == Spec => []TypeOK
BY Invariance, PTL DEF IInv

\* At most one notice for each credential version, whatever fails together,
\* restarts or is registered meanwhile.
THEOREM OneNotice == Spec => []NoticePerVersion
<1>1. IInv => NoticePerVersion
  BY TellingFinite DEF IInv, Budget, NoticePerVersion, TypeOK
<1> QED BY <1>1, Invariance, PTL

\* Nobody is quarantined before a login has failed.
THEOREM HasGrounds == Spec => QuarantineHasGrounds
<1>1. IInv /\ [Next]_vars => [valid /\ ~valid' => refused # {}]_vars
  <2> SUFFICES ASSUME IInv, [Next]_vars, valid, ~valid' PROVE refused # {}
    OBVIOUS
  <2>1. PICK j \in Jobs : RecordFirst(j)
    BY DEF Next, Load, UsesSession, BeginLogin, GuardRefuses, LoginAccepted, LoginRejected,
           LoginUnavailable, WorkEnds, SessionExpires, Relogin, ReloginAccepted,
           ReloginRejected, ReloginUnavailable, RecordAgain, RecordFails, Tell, Verify,
           StoreCredentials, Enable, Unquarantine, RegistrationFails,
           PortalPasswordChanges, Restart, row, vars
  <2> QED BY <2>1 DEF RecordFirst, IInv, Grounds
<1> QED BY <1>1, Invariance, PTL DEF Spec, QuarantineHasGrounds

-----------------------------------------------------------------------------
(* How often a rejected password is sent.                                   *)

\* The jobs the gateway may still log in: all of them, until the guard is shut.
GatewayRisk == IF guard THEN {j \in Jobs : pc[j] = "login"} ELSE Jobs

\* The jobs whose scrape may still log in by itself: those under way and, while
\* the row lets a job begin, those that are, or will be, free.
Scraping == {"loaded", "login", "work", "relogin"}
AtRisk(j) == pc[j] \in Scraping \/ (valid /\ pc[j] \in {"idle", "told"})
ScrapeRisk == {j \in Jobs : AtRisk(j)}

Window == IF reg = "enabled" THEN 1 ELSE 0
Allowance == Cardinality(Jobs) * (2 + 3 * faults + Window)

RejectionBudget ==
    rejections + Cardinality(GatewayRisk) + Cardinality(ScrapeRisk) <= Allowance

LEMMA RiskFinite ==
    /\ IsFiniteSet(GatewayRisk) /\ IsFiniteSet(ScrapeRisk)
    /\ Cardinality(Jobs) \in Nat
    /\ Cardinality(GatewayRisk) \in Nat /\ Cardinality(GatewayRisk) <= Cardinality(Jobs)
    /\ Cardinality(ScrapeRisk) \in Nat /\ Cardinality(ScrapeRisk) <= Cardinality(Jobs)
<1>1. GatewayRisk \subseteq Jobs /\ ScrapeRisk \subseteq Jobs
  BY DEF GatewayRisk, ScrapeRisk
<1> QED BY <1>1, SetsAssumption, FS_Subset, FS_CardinalityType

\* What a fault, and the registration's transaction, are allowed.
LEMMA AllowanceGrows ==
    ASSUME NEW n \in Nat, NEW f \in Nat, NEW w \in {0, 1}
    PROVE  /\ n * (2 + 3 * f + w) \in Nat
           /\ n * (2 + 3 * f + 1) = n * (2 + 3 * f + 0) + n
           /\ n * (2 + 3 * f + 0) >= 2 * n
           /\ n * (2 + 3 * (f + 1) + 0) >= n * (2 + 3 * f + w) + 2 * n
           /\ n * (2 + 3 * (f + 1) + w) = n * (2 + 3 * f + w) + 3 * n
<1>1. n * f \in Nat
  OBVIOUS
<1>2. n * (2 + 3 * f + 1) = 3 * n + 3 * (n * f)
  OBVIOUS
<1>3. n * (2 + 3 * f + 0) = 2 * n + 3 * (n * f)
  OBVIOUS
<1>4. n * (2 + 3 * (f + 1) + 1) = 6 * n + 3 * (n * f)
  OBVIOUS
<1>5. n * (2 + 3 * (f + 1) + 0) = 5 * n + 3 * (n * f)
  OBVIOUS
<1>6. CASE w = 0
  BY <1>1, <1>2, <1>3, <1>4, <1>5, <1>6
<1>7. CASE w = 1
  BY <1>1, <1>2, <1>3, <1>4, <1>5, <1>7
<1> QED BY <1>6, <1>7

\* A step by which no job comes to be at risk spends nothing of the budget.
LEMMA NoNewRisk ==
    ASSUME TypeOK, RejectionBudget,
           GatewayRisk' \subseteq GatewayRisk, ScrapeRisk' \subseteq ScrapeRisk,
           rejections' = rejections, Allowance' = Allowance
    PROVE  RejectionBudget'
<1>1. /\ Cardinality(GatewayRisk') <= Cardinality(GatewayRisk)
      /\ Cardinality(ScrapeRisk') <= Cardinality(ScrapeRisk)
      /\ Cardinality(GatewayRisk') \in Nat /\ Cardinality(ScrapeRisk') \in Nat
  BY RiskFinite, FS_Subset, FS_CardinalityType
<1>2. rejections \in Nat
  BY SetsAssumption, BoundsAssumption, FS_CardinalityType DEF TypeOK, MaxRejections
<1>3. Cardinality(GatewayRisk) \in Nat /\ Cardinality(ScrapeRisk) \in Nat
  BY RiskFinite
<1>4. rejections + Cardinality(GatewayRisk) + Cardinality(ScrapeRisk) <= Allowance'
  BY DEF RejectionBudget
<1>5. Allowance \in Nat
  <2>1. faults \in Nat /\ Window \in {0, 1} /\ Cardinality(Jobs) \in Nat
    BY BoundsAssumption, RiskFinite DEF TypeOK, Window
  <2> QED BY <2>1, AllowanceGrows DEF Allowance
<1> QED BY <1>1, <1>2, <1>3, <1>4, <1>5 DEF RejectionBudget

\* A job's step puts only that job at risk, and never while it blocks the way.
LEMMA JobRisk ==
    ASSUME TypeOK, NEW j \in Jobs, NEW at \in Points, Go(j, at),
           guard' = guard \/ guard' = TRUE, valid' => valid,
           at = "login" => ~guard \/ pc[j] = "login",
           AtRisk(j)' => AtRisk(j)
    PROVE  GatewayRisk' \subseteq GatewayRisk /\ ScrapeRisk' \subseteq ScrapeRisk
<1>1. pc'[j] = at /\ \A i \in Jobs : i # j => pc'[i] = pc[i]
  BY DEF Go, TypeOK
<1>2. GatewayRisk' \subseteq GatewayRisk
  BY <1>1 DEF GatewayRisk
<1>3. ASSUME NEW i \in Jobs, AtRisk(i)' PROVE AtRisk(i)
  <2>1. CASE i = j
    BY <1>3, <2>1
  <2>2. CASE i # j
    BY <1>1, <1>3, <2>2 DEF AtRisk
  <2> QED BY <2>1, <2>2
<1>4. ScrapeRisk' \subseteq ScrapeRisk
  BY <1>3 DEF ScrapeRisk
<1> QED BY <1>2, <1>4

\* The steps of a job that meet no rejection: none brings back what it has spent.
LEMMA QuietRejections ==
    ASSUME IInv, RejectionBudget, NEW j \in Jobs,
           \/ UsesSession(j) \/ BeginLogin(j) \/ GuardRefuses(j) \/ LoginAccepted(j)
           \/ LoginUnavailable(j) \/ WorkEnds(j) \/ SessionExpires(j) \/ Relogin(j)
           \/ ReloginAccepted(j) \/ ReloginUnavailable(j)
           \/ RecordFirst(j) \/ RecordAgain(j) \/ Tell(j)
    PROVE  RejectionBudget'
<1>1. rejections' = rejections /\ faults' = faults /\ reg' = reg
  BY DEF UsesSession, BeginLogin, GuardRefuses, LoginAccepted, LoginUnavailable, WorkEnds,
         SessionExpires, Relogin, ReloginAccepted, ReloginUnavailable, RecordFirst,
         RecordAgain, Tell, history, registration
<1>2. (guard' = guard \/ guard' = TRUE) /\ (valid' => valid)
  BY DEF UsesSession, BeginLogin, GuardRefuses, LoginAccepted, LoginUnavailable, WorkEnds,
         SessionExpires, Relogin, ReloginAccepted, ReloginUnavailable, RecordFirst,
         RecordAgain, Tell, row
<1>3. PICK at \in Points :
        /\ Go(j, at)
        /\ at = "login" => ~guard \/ pc[j] = "login"
        /\ \/ pc[j] \in Scraping
           \/ at \in {"record", "told"} /\ ~valid'
           \/ at \in {"record", "idle"} /\ ~valid
           \/ at \in {"record", "idle"} /\ pc[j] = "told"
  BY DEF UsesSession, BeginLogin, GuardRefuses, LoginAccepted, LoginUnavailable, WorkEnds,
         SessionExpires, Relogin, ReloginAccepted, ReloginUnavailable, RecordFirst,
         RecordAgain, Tell, Return, Points, Scraping
<1>4. AtRisk(j)' => AtRisk(j)
  <2>1. pc'[j] = at
    BY <1>3 DEF Go, IInv, TypeOK
  <2> QED BY <1>2, <1>3, <2>1 DEF AtRisk, Scraping
<1>5. GatewayRisk' \subseteq GatewayRisk /\ ScrapeRisk' \subseteq ScrapeRisk
  BY <1>2, <1>3, <1>4, JobRisk DEF IInv
<1>6. Allowance' = Allowance
  BY <1>1 DEF Allowance, Window
<1> QED BY <1>1, <1>5, <1>6, NoNewRisk DEF IInv

LEMMA LoadRejections ==
    ASSUME IInv, RejectionBudget, NEW j \in Jobs, NEW k \in Kinds, Load(j, k)
    PROVE  RejectionBudget'
<1>1. /\ pc[j] = "idle" /\ valid /\ pc' = [pc EXCEPT ![j] = "loaded"]
      /\ UNCHANGED <<valid, guard, reg, rejections, faults>>
  BY DEF Load, row, registration, history
<1>2. GatewayRisk' \subseteq GatewayRisk
  BY <1>1 DEF GatewayRisk, IInv, TypeOK
<1>3. ScrapeRisk' \subseteq ScrapeRisk
  BY <1>1 DEF ScrapeRisk, AtRisk, Scraping, IInv, TypeOK
<1>4. Allowance' = Allowance
  BY <1>1 DEF Allowance, Window
<1> QED BY <1>1, <1>2, <1>3, <1>4, NoNewRisk DEF IInv

\* A set that loses an element.
LEMMA OneLess ==
    ASSUME NEW S, NEW T, IsFiniteSet(S), T \subseteq S, NEW x \in S, x \notin T
    PROVE  /\ Cardinality(T) \in Nat /\ Cardinality(S) \in Nat
           /\ Cardinality(T) + 1 <= Cardinality(S)
<1>1. T \subseteq S \ {x} /\ IsFiniteSet(S \ {x})
  BY FS_RemoveElement
<1>2. Cardinality(S \ {x}) = Cardinality(S) - 1
  BY FS_RemoveElement
<1>3. Cardinality(T) <= Cardinality(S \ {x}) /\ IsFiniteSet(T)
  BY <1>1, FS_Subset
<1>4. Cardinality(T) \in Nat /\ Cardinality(S) \in Nat
  BY <1>3, FS_CardinalityType
<1> QED BY <1>2, <1>3, <1>4

\* A rejection takes the job it happened to out of one of the two sets.
LEMMA RejectedRejections ==
    ASSUME IInv, RejectionBudget, NEW j \in Jobs, LoginRejected(j) \/ ReloginRejected(j)
    PROVE  RejectionBudget'
<1>1. /\ UNCHANGED <<valid, reg, faults>> /\ Rejected
      /\ guard' = guard \/ guard' = TRUE
  BY DEF LoginRejected, ReloginRejected, row, registration
<1>2. PICK at \in {"idle", "record"} : Go(j, at)
  BY DEF LoginRejected, ReloginRejected
<1>3. at \in Points /\ at # "login" /\ pc'[j] = at /\ pc[j] \in {"login", "relogin"}
  BY <1>2 DEF LoginRejected, ReloginRejected, Go, IInv, TypeOK, Points
<1>4. AtRisk(j)
  BY <1>3 DEF AtRisk, Scraping
<1>5. GatewayRisk' \subseteq GatewayRisk /\ ScrapeRisk' \subseteq ScrapeRisk
  BY <1>1, <1>2, <1>3, <1>4, JobRisk DEF IInv
<1>6. \/ j \in GatewayRisk /\ j \notin GatewayRisk'
      \/ j \in ScrapeRisk /\ j \notin ScrapeRisk'
  <2>1. CASE LoginRejected(j)
    BY <1>3, <2>1 DEF LoginRejected, GatewayRisk
  <2>2. CASE ReloginRejected(j)
    <3>1. Go(j, "record")
      BY <2>2 DEF ReloginRejected
    <3>2. pc'[j] = "record"
      BY <3>1 DEF Go, IInv, TypeOK
    <3> QED BY <1>4, <3>2 DEF ScrapeRisk, AtRisk, Scraping
  <2> QED BY <2>1, <2>2
<1>7. /\ Cardinality(GatewayRisk') \in Nat /\ Cardinality(ScrapeRisk') \in Nat
      /\ Cardinality(GatewayRisk) \in Nat /\ Cardinality(ScrapeRisk) \in Nat
      /\ Cardinality(GatewayRisk') <= Cardinality(GatewayRisk)
      /\ Cardinality(ScrapeRisk') <= Cardinality(ScrapeRisk)
      /\ \/ Cardinality(GatewayRisk') + 1 <= Cardinality(GatewayRisk)
         \/ Cardinality(ScrapeRisk') + 1 <= Cardinality(ScrapeRisk)
  BY <1>5, <1>6, RiskFinite, FS_Subset, FS_CardinalityType, OneLess
<1>8. MaxRejections \in Nat
  BY SetsAssumption, FS_CardinalityType, BoundsAssumption DEF MaxRejections
<1>9. rejections \in Nat /\ rejections' \in Nat /\ rejections' <= rejections + 1
  BY <1>1, <1>8 DEF Rejected, IInv, TypeOK
<1>10. Allowance' = Allowance /\ Allowance \in Nat
  <2>1. faults \in Nat /\ Window \in {0, 1} /\ Cardinality(Jobs) \in Nat
    BY BoundsAssumption, RiskFinite DEF IInv, TypeOK, Window
  <2> QED BY <1>1, <2>1, AllowanceGrows DEF Allowance, Window
<1> QED BY <1>7, <1>9, <1>10 DEF RejectionBudget

\* A failed transaction or a restart, the registration's transaction and its end:
\* what they open again is what they are allowed.
LEMMA ReopeningRejections ==
    ASSUME IInv, RejectionBudget,
           \/ \E j \in Jobs : RecordFails(j)
           \/ RegistrationFails \/ Restart \/ Enable \/ Unquarantine
    PROVE  RejectionBudget'
<1> DEFINE n == Cardinality(Jobs)
<1>1. /\ n \in Nat /\ faults \in Nat /\ Window \in {0, 1}
      /\ rejections \in Nat
  BY RiskFinite, SetsAssumption, BoundsAssumption, FS_CardinalityType
  DEF IInv, TypeOK, Window, MaxRejections
<1>2. /\ Cardinality(GatewayRisk) \in Nat /\ Cardinality(ScrapeRisk) \in Nat
      /\ Cardinality(GatewayRisk') \in Nat /\ Cardinality(GatewayRisk') <= n
      /\ Cardinality(ScrapeRisk') \in Nat /\ Cardinality(ScrapeRisk') <= n
  <2>1. GatewayRisk' \subseteq Jobs /\ ScrapeRisk' \subseteq Jobs
    BY DEF GatewayRisk, ScrapeRisk
  <2> QED BY <2>1, RiskFinite, SetsAssumption, FS_Subset, FS_CardinalityType
<1>3. /\ n * (2 + 3 * faults + 1) = n * (2 + 3 * faults + 0) + n
      /\ n * (2 + 3 * faults + 0) >= 2 * n
      /\ n * (2 + 3 * (faults + 1) + 0) >= n * (2 + 3 * faults + Window) + 2 * n
      /\ n * (2 + 3 * (faults + 1) + Window) = n * (2 + 3 * faults + Window) + 3 * n
      /\ n * (2 + 3 * faults + Window) \in Nat
      /\ n * (2 + 3 * faults + 1) \in Nat
      /\ n * (2 + 3 * faults + 0) \in Nat
  BY <1>1, AllowanceGrows
<1>4. rejections + Cardinality(GatewayRisk) + Cardinality(ScrapeRisk)
        <= n * (2 + 3 * faults + Window)
  BY DEF RejectionBudget, Allowance
<1> SUFFICES rejections' + Cardinality(GatewayRisk') + Cardinality(ScrapeRisk')
               <= n * (2 + 3 * faults' + Window')
  BY DEF RejectionBudget, Allowance
<1>5. ASSUME faults' = faults + 1, Window' = Window \/ Window' = 0, rejections' = rejections
      PROVE  rejections' + Cardinality(GatewayRisk') + Cardinality(ScrapeRisk')
               <= n * (2 + 3 * faults' + Window')
  <2> HIDE DEF n
  <2>1. CASE Window' = Window
    <3>1. n * (2 + 3 * faults' + Window') = n * (2 + 3 * faults + Window) + 3 * n
      BY <1>3, <1>5, <2>1
    <3> QED BY <1>1, <1>2, <1>3, <1>4, <1>5, <3>1
  <2>2. CASE Window' = 0
    <3>1. n * (2 + 3 * faults' + Window') >= n * (2 + 3 * faults + Window) + 2 * n
      BY <1>3, <1>5, <2>2
    <3>2. n * (2 + 3 * faults' + Window') \in Int
      BY <1>1, <1>5, <2>2
    <3> QED BY <1>1, <1>2, <1>3, <1>4, <1>5, <3>1, <3>2
  <2> QED BY <1>5, <2>1, <2>2
<1>6. CASE \E j \in Jobs : RecordFails(j)
  BY <1>5, <1>6 DEF RecordFails, registration, history, Window
<1>7. CASE RegistrationFails
  BY <1>5, <1>7 DEF RegistrationFails, history, Window
<1>8. CASE Restart
  BY <1>5, <1>8 DEF Restart, history, Window
<1>9. CASE Enable
  <2>1. /\ rejections' = rejections /\ faults' = faults /\ guard' = guard /\ pc' = pc
        /\ Window = 0 /\ Window' = 1
    BY <1>9 DEF Enable, history, job, Window
  <2>2. GatewayRisk' = GatewayRisk
    BY <2>1 DEF GatewayRisk
  <2> HIDE DEF n
  <2>3. n * (2 + 3 * faults' + Window') = n * (2 + 3 * faults + Window) + n
    BY <1>3, <2>1
  <2> QED BY <1>1, <1>2, <1>3, <1>4, <2>1, <2>2, <2>3
<1>10. CASE Unquarantine
  <2>1. rejections' = 0 /\ faults' = faults /\ Window' = 0
    BY <1>10 DEF Unquarantine, Window
  <2> HIDE DEF n
  <2>2. n * (2 + 3 * faults' + Window') >= 2 * n /\ n * (2 + 3 * faults' + Window') \in Nat
    BY <1>3, <2>1
  <2> QED BY <1>1, <1>2, <2>1, <2>2
<1> QED BY <1>6, <1>7, <1>8, <1>9, <1>10

LEMMA StepRejections == IInv /\ RejectionBudget /\ [Next]_vars => RejectionBudget'
<1> SUFFICES ASSUME IInv, RejectionBudget, [Next]_vars PROVE RejectionBudget'
  OBVIOUS
<1>1. ASSUME NEW j \in Jobs,
             \/ UsesSession(j) \/ BeginLogin(j) \/ GuardRefuses(j) \/ LoginAccepted(j)
             \/ LoginUnavailable(j) \/ WorkEnds(j) \/ SessionExpires(j) \/ Relogin(j)
             \/ ReloginAccepted(j) \/ ReloginUnavailable(j)
             \/ RecordFirst(j) \/ RecordAgain(j) \/ Tell(j)
      PROVE  RejectionBudget'
  BY <1>1, QuietRejections
<1>2. ASSUME NEW j \in Jobs, NEW k \in Kinds, Load(j, k) PROVE RejectionBudget'
  BY <1>2, LoadRejections
<1>3. ASSUME NEW j \in Jobs, LoginRejected(j) \/ ReloginRejected(j) PROVE RejectionBudget'
  BY <1>3, RejectedRejections
<1>4. CASE (\E j \in Jobs : RecordFails(j))
           \/ RegistrationFails \/ Restart \/ Enable \/ Unquarantine
  BY <1>4, ReopeningRejections
<1>5. CASE Verify \/ StoreCredentials \/ PortalPasswordChanges \/ UNCHANGED vars
  <2>1. UNCHANGED <<valid, guard, pc, rejections, faults>> /\ Window' = Window
    BY <1>5 DEF Verify, StoreCredentials, PortalPasswordChanges, vars, row, job, history,
                registration, Window
  <2> QED BY <2>1 DEF RejectionBudget, GatewayRisk, ScrapeRisk, AtRisk, Allowance
<1> QED BY <1>1, <1>2, <1>3, <1>4, <1>5 DEF Next

\* However often jobs fail, sessions come and go and the portal's password changes,
\* a rejected password is sent a bounded number of times before the user registers.
THEOREM RejectionsAreBounded == Spec => []RejectionsBounded
<1>1. Init => RejectionBudget
  <2> SUFFICES ASSUME Init PROVE RejectionBudget
    OBVIOUS
  <2>1. rejections = 0 /\ faults = 0 /\ Window = 0
    BY DEF Init, Window
  <2>2. Cardinality(Jobs) * (2 + 3 * 0 + 0) >= 2 * Cardinality(Jobs)
    BY RiskFinite
  <2> QED BY <2>1, <2>2, RiskFinite DEF RejectionBudget, Allowance
<1>2. IInv /\ RejectionBudget => RejectionsBounded
  <2> SUFFICES ASSUME IInv, RejectionBudget PROVE RejectionsBounded
    OBVIOUS
  <2>1. rejections \in Nat
    BY SetsAssumption, BoundsAssumption, FS_CardinalityType DEF IInv, TypeOK, MaxRejections
  <2>2. Allowance \in Nat
    <3>1. faults \in Nat /\ Window \in {0, 1} /\ Cardinality(Jobs) \in Nat
      BY BoundsAssumption, RiskFinite DEF IInv, TypeOK, Window
    <3> QED BY <3>1, AllowanceGrows DEF Allowance
  <2>3. rejections <= Allowance
    BY <2>1, <2>2, RiskFinite DEF RejectionBudget
  <2> QED BY <2>3 DEF Allowance, Window, RejectionsBounded
<1>3. Spec => []RejectionBudget
  BY <1>1, StepRejections, Invariance, PTL DEF Spec
<1> QED BY <1>2, <1>3, Invariance, PTL

=============================================================================
