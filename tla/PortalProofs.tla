---------------------------- MODULE PortalProofs ----------------------------
(***************************************************************************)
(* A launcher that answered leads to its page: for every set of students,     *)
(* every number of retries and every plan of the portal.                      *)
(***************************************************************************)
EXTENDS Portal, TLAPS

\* A cached sub-page link is never older than the launcher it stands beside.
Paired == \A p \in Pages : /\ links[p].launcher <= token
                           /\ links[p].sub = 0 \/ links[p].launcher <= links[p].sub

\* Nor is the one that a job carries on its way, and it peeks only at the attendance.
Sound(s) ==
    /\ job[s].at = "peek" => job[s].kind \in Retried
    /\ job[s].launcher <= token
    /\ job[s].at \in {"launch", "complete", "store"} =>
           job[s].sub = 0 \/ job[s].launcher <= job[s].sub
    /\ job[s].at \in {"complete", "store", "page", "post", "scrape"} /\ ~shaken[s] => Opens(s)

IInv == TypeOK /\ Paired /\ \A s \in Students : Sound(s)

-----------------------------------------------------------------------------
(* The places of a job, and the frame of a step of one student's job.         *)

LEMMA JobTypes ==
    ASSUME TypeOK, NEW s \in Students
    PROVE  /\ job[s] \in Jobs /\ job[s].kind \in Kinds /\ job[s].tries \in Nat
           /\ job[s].relogged \in BOOLEAN /\ job[s].round \in {1, 2}
           /\ job[s].launcher \in Nat /\ job[s].sub \in Nat /\ job[s].hint \in Nat
BY DEF TypeOK, Jobs

LEMMA EntryTypes ==
    ASSUME NEW k \in Kinds
    PROVE  /\ Entry(k) \in {"peek", "resolve", "dashboard"}
           /\ Entry(k) = "peek" => k \in Retried
BY DEF Entry, Kinds, Retried

LEMMA PageTypes ==
    ASSUME TypeOK, NEW s \in Students
    PROVE  MyPage(s) \in Pages /\ Module(MyPage(s)) \in Contexts
BY DEF MyPage, Page, Module, Pages, Contexts

Others(s) == \A r \in Students \ {s} :
    job'[r] = job[r] /\ context'[r] = context[r] /\ shaken'[r] = shaken[r]

LEMMA Frame ==
    ASSUME IInv, NEW s \in Students, Others(s), token' \in Nat, token <= token',
           oldest' = oldest, Sound(s)', TypeOK'
    PROVE  \A r \in Students : Sound(r)'
<1> SUFFICES ASSUME NEW r \in Students PROVE Sound(r)'
  OBVIOUS
<1>1. CASE r = s
  BY <1>1
<1>2. CASE r # s
  <2>1. Sound(r) /\ job'[r] = job[r] /\ context'[r] = context[r] /\ shaken'[r] = shaken[r]
    BY <1>2 DEF IInv, Others
  <2>2. job[r].launcher \in Nat /\ token \in Nat
    BY JobTypes DEF IInv, TypeOK
  <2>3. Opens(r)' = Opens(r)
    BY <2>1 DEF Opens, MyPage
  <2> QED BY <2>1, <2>2, <2>3 DEF Sound
<1> QED BY <1>1, <1>2

-----------------------------------------------------------------------------
(* The ways in which a job leaves its page.                                   *)

Resting == {"idle", "peek", "resolve", "dashboard", "relogin", "backoff"}

\* What they have in common.
Exited(s) ==
    /\ job' \in [Students -> Jobs] /\ context' \in [Students -> Contexts]
    /\ warm' \in [Students -> BOOLEAN]
    /\ \A r \in Students \ {s} : job'[r] = job[r] /\ context'[r] = context[r]
    /\ job'[s].at \in Resting /\ (job'[s].at = "peek" => job'[s].kind \in Retried)
    /\ job'[s].launcher = 0 \/ job'[s].launcher = job[s].launcher

LEMMA IdleType == Idle \in Jobs
BY DEF Idle, Jobs, Kinds, Places

LEMMA ReturnsExits ==
    ASSUME TypeOK, NEW s \in Students, Returns(s)
    PROVE  Exited(s)
<1>1. job' \in [Students -> Jobs]
  BY IdleType DEF Returns, TypeOK
<1>2. job'[s] = Idle /\ \A r \in Students \ {s} : job'[r] = job[r]
  BY DEF Returns, TypeOK
<1> QED BY <1>1, <1>2 DEF Returns, Exited, TypeOK, Idle, Resting

LEMMA DropsExits ==
    ASSUME TypeOK, NEW s \in Students, Drops(s)
    PROVE  Exited(s)
<1>1. job' \in [Students -> Jobs]
  BY IdleType DEF Drops, TypeOK
<1>2. job'[s] = Idle /\ \A r \in Students \ {s} : job'[r] = job[r]
  BY DEF Drops, TypeOK
<1>3. /\ context' \in [Students -> Contexts] /\ warm' \in [Students -> BOOLEAN]
      /\ \A r \in Students \ {s} : context'[r] = context[r]
  BY DEF Drops, TypeOK, Contexts
<1> QED BY <1>1, <1>2, <1>3 DEF Exited, Idle, Resting

LEMMA AgainExits ==
    ASSUME TypeOK, NEW s \in Students, NEW round \in {1, 2}, Again(s, round)
    PROVE  Exited(s)
<1>1. /\ Entry(job[s].kind) \in {"peek", "resolve", "dashboard"}
      /\ Entry(job[s].kind) = "peek" => job[s].kind \in Retried
  BY JobTypes, EntryTypes
<1>2. job' \in [Students -> Jobs]
  <2>1. \A e \in Places : [job[s] EXCEPT !.at = e, !.round = round, !.launcher = 0,
                                         !.sub = 0, !.hint = 0] \in Jobs
    BY JobTypes DEF Jobs
  <2>2. Entry(job[s].kind) \in Places
    BY <1>1 DEF Places
  <2> QED BY <2>1, <2>2 DEF Again, TypeOK
<1>3. /\ job'[s].at = Entry(job[s].kind) /\ job'[s].kind = job[s].kind
      /\ job'[s].launcher = 0 /\ \A r \in Students \ {s} : job'[r] = job[r]
  BY DEF Again, TypeOK, Jobs
<1> QED BY <1>1, <1>2, <1>3 DEF Again, Exited, TypeOK, Resting

LEMMA GoesExits ==
    ASSUME TypeOK, NEW s \in Students, NEW place \in {"relogin", "resolve"}, Goes(s, place),
           UNCHANGED <<context, warm>>
    PROVE  Exited(s)
<1>1. job' \in [Students -> Jobs]
  BY JobTypes DEF Goes, TypeOK, Jobs, Places
<1>2. /\ job'[s].at = place /\ job'[s].launcher = job[s].launcher
      /\ \A r \in Students \ {s} : job'[r] = job[r]
  BY DEF Goes, TypeOK, Jobs
<1> QED BY <1>1, <1>2 DEF Exited, TypeOK, Resting

LEMMA NextRoundExits ==
    ASSUME TypeOK, NEW s \in Students, NextRound(s)
    PROVE  Exited(s)
BY AgainExits, ReturnsExits DEF NextRound

LEMMA ExpiresExits ==
    ASSUME TypeOK, NEW s \in Students, Expires(s)
    PROVE  Exited(s)
BY NextRoundExits, GoesExits, DropsExits DEF Expires

LEMMA FailsExits ==
    ASSUME TypeOK, NEW s \in Students, Fails(s)
    PROVE  Exited(s)
<1>1. CASE job[s].kind = "search"
  BY <1>1, NextRoundExits DEF Fails
<1>2. CASE /\ job' = [job EXCEPT ![s] = [@ EXCEPT !.at = "backoff",
                                                  !.tries = job[s].tries + 1]]
           /\ UNCHANGED <<context, warm>>
  <2>1. job' \in [Students -> Jobs]
    <3>1. job[s].tries + 1 \in Nat
      BY JobTypes
    <3>2. job[s] \in Jobs /\ "backoff" \in Places
      BY JobTypes DEF Places
    <3>3. \A p \in Places, n \in Nat : [job[s] EXCEPT !.at = p, !.tries = n] \in Jobs
      BY <3>2 DEF Jobs
    <3>4. [job[s] EXCEPT !.at = "backoff", !.tries = job[s].tries + 1] \in Jobs
      BY <3>1, <3>2, <3>3
    <3> QED BY <1>2, <3>4 DEF TypeOK
  <2>2. /\ job'[s].at = "backoff" /\ job'[s].launcher = job[s].launcher
        /\ \A r \in Students \ {s} : job'[r] = job[r]
    BY <1>2 DEF TypeOK, Jobs
  <2> QED BY <1>2, <2>1, <2>2 DEF Exited, TypeOK, Resting
<1>3. CASE Returns(s)
  BY <1>3, ReturnsExits
<1> QED BY <1>1, <1>2, <1>3 DEF Fails

LEMMA AbortsExits ==
    ASSUME TypeOK, NEW s \in Students, Aborts(s)
    PROVE  Exited(s)
BY NextRoundExits, ReturnsExits DEF Aborts

\* A step of one student's job keeps the invariant when it keeps that job sound.
LEMMA StepKeeps ==
    ASSUME IInv, NEW s \in Students, TypeOK', Paired', Sound(s)', Others(s),
           UNCHANGED <<token, oldest>>
    PROVE  IInv'
<1>1. token' \in Nat /\ token <= token'
  BY DEF IInv, TypeOK
<1> QED BY <1>1, Frame DEF IInv

\* A job that leaves its page owes nothing; only its student's session may change.
LEMMA ExitKeeps ==
    ASSUME IInv, NEW s \in Students, Exited(s), Paired', links' \in [Pages -> Links],
           hint' \in [Students \cup {Subject} -> Hints], result' \in [Students -> Nat],
           plan' \in PlanRecords, UNCHANGED <<portal, shaken>>
    PROVE  IInv'
<1>1. TypeOK'
  BY DEF IInv, TypeOK, Exited, portal
<1>2. Sound(s)'
  <2>1. Sound(s) /\ job[s].launcher <= token /\ token \in Nat
    BY DEF IInv, Sound, TypeOK
  <2> QED BY <2>1 DEF Exited, Sound, Resting, portal
<1>3. Others(s)
  BY DEF Others, Exited
<1> QED BY <1>1, <1>2, <1>3, StepKeeps DEF portal

-----------------------------------------------------------------------------
(* One lemma per action: a job that goes on.                                  *)

LEMMA SpendTypes ==
    ASSUME TypeOK, NEW what \in Bounds, Spend(what)
    PROVE  plan' \in PlanRecords
<1>1. plan.bound[what] \in Nat \ {0} /\ plan.bound \in [Bounds -> Nat]
  BY DEF Spend, TypeOK, PlanRecords
<1>2. [plan.bound EXCEPT ![what] = @ - 1] \in [Bounds -> Nat]
  BY <1>1
<1> QED BY <1>2 DEF Spend, TypeOK, PlanRecords

LEMMA PairedFrame ==
    ASSUME Paired, UNCHANGED <<token, links>>
    PROVE  Paired'
BY DEF Paired, TypeOK, Links

LEMMA StartKeeps ==
    ASSUME IInv, NEW s \in Students, NEW kind \in Kinds, Start(s, kind)
    PROVE  IInv'
<1>1. Entry(kind) \in {"peek", "resolve", "dashboard"} /\ (Entry(kind) = "peek" => kind \in Retried)
  BY EntryTypes
<1>2. PICK e \in {"peek", "resolve", "dashboard", "login"} :
          /\ job' = [job EXCEPT ![s] = [Idle EXCEPT !.kind = kind, !.at = e]]
          /\ e = "peek" => kind \in Retried
  BY <1>1 DEF Start
<1>3. TypeOK'
  <2>1. [Idle EXCEPT !.kind = kind, !.at = e] \in Jobs
    BY DEF Idle, Jobs, Places
  <2> QED BY <1>2, <2>1 DEF IInv, TypeOK, Start, portal, caches
<1>4. Sound(s)'
  <2>1. job'[s] = [Idle EXCEPT !.kind = kind, !.at = e]
    BY <1>2 DEF IInv, TypeOK
  <2> QED BY <1>2, <1>3, <2>1 DEF Idle, Sound, TypeOK
<1>5. Others(s) /\ UNCHANGED <<token, oldest, links>>
  BY <1>2 DEF Others, Start, portal, caches, IInv, TypeOK
<1> QED BY <1>3, <1>4, <1>5, StepKeeps, PairedFrame DEF IInv

LEMMA LoginKeeps ==
    ASSUME IInv, NEW s \in Students, Login(s)
    PROVE  IInv'
<1>1. TypeOK'
  <2>1. job' \in [Students -> Jobs]
    <3>1. \A b \in BOOLEAN :
              [job[s] EXCEPT !.at = "seed", !.launcher = token, !.relogged = b] \in Jobs
      <4>1. token \in Nat /\ job[s] \in Jobs
        BY JobTypes DEF IInv, TypeOK
      <4> QED BY <4>1 DEF Jobs, Places
    <3>2. At(s, "relogin") \in BOOLEAN
      BY DEF At
    <3> QED BY <3>1, <3>2 DEF IInv, TypeOK, Login
  <2>2. context' \in [Students -> Contexts]
    BY DEF IInv, TypeOK, Login, Contexts
  <2> QED BY <2>1, <2>2 DEF IInv, TypeOK, Login, portal, caches
<1>2. Sound(s)'
  <2>1. job'[s].at = "seed" /\ job'[s].launcher = token
    BY DEF IInv, TypeOK, Login, Jobs
  <2> QED BY <1>1, <2>1 DEF Sound, Login, portal, TypeOK
<1>3. Others(s) /\ UNCHANGED <<token, oldest, links>>
  BY DEF Others, Login, portal, caches, IInv, TypeOK
<1> QED BY <1>1, <1>2, <1>3, StepKeeps, PairedFrame DEF IInv

LEMMA LoginFailsKeeps ==
    ASSUME IInv, NEW s \in Students, LoginFails(s)
    PROVE  IInv'
<1>1. plan' \in PlanRecords
  BY SpendTypes DEF LoginFails, Bounds, IInv
<1>2. TypeOK'
  <2>1. job' \in [Students -> Jobs]
    BY IdleType DEF IInv, TypeOK, LoginFails
  <2>2. context' \in [Students -> Contexts]
    BY DEF IInv, TypeOK, LoginFails, Contexts
  <2> QED BY <1>1, <2>1, <2>2 DEF IInv, TypeOK, LoginFails, portal, caches
<1>3. Sound(s)'
  <2>1. job'[s] = Idle
    BY DEF IInv, TypeOK, LoginFails
  <2> QED BY <1>2, <2>1 DEF Sound, Idle, TypeOK
<1>4. Others(s) /\ UNCHANGED <<token, oldest, links>>
  BY DEF Others, LoginFails, portal, caches, IInv, TypeOK
<1> QED BY <1>2, <1>3, <1>4, StepKeeps, PairedFrame DEF IInv

\* What a login finds on the dashboard never separates a pair.
LEMMA SeededPaired ==
    ASSUME TypeOK, Paired, NEW launcher \in Nat, launcher <= token,
           links' = Seeded(launcher), token' = token
    PROVE  Paired' /\ links' \in [Pages -> Links]
BY DEF Seeded, Paired, TypeOK, Links

LEMMA SeedKeeps ==
    ASSUME IInv, NEW s \in Students, Seed(s)
    PROVE  IInv'
<1>1. job[s].launcher \in Nat /\ job[s].launcher <= token /\ token' = token
  BY JobTypes DEF IInv, Sound, Seed, portal
<1>2. Paired' /\ links' \in [Pages -> Links]
  BY <1>1, SeededPaired DEF IInv, Seed
<1>3. Entry(job[s].kind) \in {"peek", "resolve", "dashboard"}
      /\ (Entry(job[s].kind) = "peek" => job[s].kind \in Retried)
  BY JobTypes, EntryTypes DEF IInv
<1>4. PICK e \in {"peek", "resolve", "dashboard"}, n \in Nat :
          /\ \/ job' = [job EXCEPT ![s] = Idle]
             \/ job' = [job EXCEPT ![s] = [@ EXCEPT !.at = e, !.tries = n, !.round = 1,
                                               !.launcher = 0, !.sub = 0, !.hint = 0]]
          /\ e = "peek" => job[s].kind \in Retried
  <2>1. job[s].tries \in Nat /\ job[s].tries + 1 \in Nat
    BY JobTypes DEF IInv
  <2>2. CASE job[s].relogged
    BY <1>3, <2>1, <2>2 DEF Seed
  <2>3. CASE ~job[s].relogged
    BY <1>3, <2>1, <2>3 DEF Seed
  <2> QED BY <2>2, <2>3
<1>5. job' \in [Students -> Jobs]
  <2>1. job[s] \in Jobs /\ e \in Places
    BY JobTypes DEF IInv, Places
  <2>2. \A p \in Places : [job[s] EXCEPT !.at = p, !.tries = n, !.round = 1, !.launcher = 0,
                                         !.sub = 0, !.hint = 0] \in Jobs
    BY <2>1 DEF Jobs
  <2>3. [job[s] EXCEPT !.at = e, !.tries = n, !.round = 1, !.launcher = 0, !.sub = 0,
                       !.hint = 0] \in Jobs
    BY <2>1, <2>2
  <2> QED BY <1>4, <2>3, IdleType DEF IInv, TypeOK
<1>6. TypeOK'
  <2>1. warm' \in [Students -> BOOLEAN]
    BY DEF IInv, TypeOK, Seed
  <2> QED BY <1>2, <1>5, <2>1 DEF IInv, TypeOK, Seed, portal
<1>7. Sound(s)'
  <2>1. \/ job'[s] = Idle
        \/ /\ job'[s].at = e /\ job'[s].launcher = 0 /\ job'[s].kind = job[s].kind
    <3>1. CASE job' = [job EXCEPT ![s] = Idle]
      BY <3>1 DEF IInv, TypeOK
    <3>2. CASE job' = [job EXCEPT ![s] = [@ EXCEPT !.at = e, !.tries = n, !.round = 1,
                                               !.launcher = 0, !.sub = 0, !.hint = 0]]
      <4>1. job[s] \in Jobs
        BY JobTypes DEF IInv
      <4>2. job'[s] = [job[s] EXCEPT !.at = e, !.tries = n, !.round = 1,
                                     !.launcher = 0, !.sub = 0, !.hint = 0]
        BY <3>2 DEF IInv, TypeOK
      <4> QED BY <4>1, <4>2 DEF Jobs
    <3> QED BY <1>4, <3>1, <3>2
  <2> QED BY <1>4, <1>6, <2>1 DEF Sound, Idle, TypeOK
<1>8. Others(s) /\ oldest' = oldest
  BY <1>4 DEF Others, Seed, portal, IInv, TypeOK
<1> QED BY <1>1, <1>2, <1>6, <1>7, <1>8, StepKeeps

-----------------------------------------------------------------------------
(* A job that moves along, with the links it carries.                         *)

Arrived == {"complete", "store", "page", "post", "scrape"}

Moved(s, e, l, b) ==
    /\ job' \in [Students -> Jobs]
    /\ job'[s].at = e /\ job'[s].kind = job[s].kind
    /\ job'[s].launcher = l /\ job'[s].sub = b
    /\ \A r \in Students \ {s} : job'[r] = job[r]

\* The rest of the state is typed, and that of the other sessions is left alone.
Rest(s) ==
    /\ context' \in [Students -> Contexts] /\ shaken' \in [Students -> BOOLEAN]
    /\ \A r \in Students \ {s} : context'[r] = context[r] /\ shaken'[r] = shaken[r]
    /\ links' \in [Pages -> Links] /\ hint' \in [Students \cup {Subject} -> Hints]
    /\ warm' \in [Students -> BOOLEAN] /\ result' \in [Students -> Nat]
    /\ plan' \in PlanRecords

LEMMA MoveKeeps ==
    ASSUME IInv, NEW s \in Students, NEW e \in Places \ {"peek"}, NEW l \in Nat, NEW b \in Nat,
           Moved(s, e, l, b), l <= token,
           e \in {"launch", "complete", "store"} => b = 0 \/ l <= b,
           e \in Arrived /\ ~shaken'[s] => context'[s] = Module(MyPage(s)) /\ b >= oldest,
           Rest(s), Paired', UNCHANGED portal
    PROVE  IInv'
<1>1. TypeOK'
  BY DEF IInv, TypeOK, Moved, Rest, portal
<1>2. Sound(s)'
  BY DEF Moved, Sound, Opens, MyPage, portal, Arrived
<1>3. Others(s)
  BY DEF Others, Moved, Rest
<1> QED BY <1>1, <1>2, <1>3, StepKeeps DEF portal

\* The forms a move takes.
LEMMA Moves ==
    ASSUME TypeOK, NEW s \in Students, NEW e \in Places, NEW l \in Nat, NEW b \in Nat
    PROVE  /\ job' = [job EXCEPT ![s] = [@ EXCEPT !.at = e]]
                  => Moved(s, e, job[s].launcher, job[s].sub)
           /\ job' = [job EXCEPT ![s] = [@ EXCEPT !.at = e, !.launcher = l, !.sub = b]]
                  => Moved(s, e, l, b)
           /\ job' = [job EXCEPT ![s] = [@ EXCEPT !.at = e, !.launcher = l]]
                  => Moved(s, e, l, job[s].sub)
           /\ job' = [job EXCEPT ![s] = [@ EXCEPT !.launcher = l, !.at = e]]
                  => Moved(s, e, l, job[s].sub)
           /\ job' = [job EXCEPT ![s] = [@ EXCEPT !.at = e, !.sub = b]]
                  => Moved(s, e, job[s].launcher, b)
<1>1. job[s] \in Jobs /\ job \in [Students -> Jobs]
  BY JobTypes DEF TypeOK
<1>2. \A j \in Jobs :
          job' = [job EXCEPT ![s] = j] /\ j.at = e /\ j.kind = job[s].kind
              => Moved(s, e, j.launcher, j.sub)
  BY <1>1 DEF Moved
<1>3. /\ [job[s] EXCEPT !.at = e] \in Jobs
      /\ [job[s] EXCEPT !.at = e, !.launcher = l, !.sub = b] \in Jobs
      /\ [job[s] EXCEPT !.at = e, !.launcher = l] \in Jobs
      /\ [job[s] EXCEPT !.launcher = l, !.at = e] \in Jobs
      /\ [job[s] EXCEPT !.at = e, !.sub = b] \in Jobs
  BY <1>1 DEF Jobs
<1>4. CASE job' = [job EXCEPT ![s] = [@ EXCEPT !.at = e]]
  BY <1>1, <1>2, <1>3, <1>4 DEF Jobs
<1> QED BY <1>1, <1>2, <1>3, <1>4 DEF Jobs

LEMMA RestFrame ==
    ASSUME IInv, NEW s \in Students,
           UNCHANGED <<context, caches, warm, result, shaken, plan>>
    PROVE  Rest(s)
BY DEF Rest, IInv, TypeOK, caches

-----------------------------------------------------------------------------
(* What a step does to the shared links and hints.                            *)

LEMMA TouchTypes ==
    ASSUME IInv, Touch, token' = token
    PROVE  Paired' /\ links' \in [Pages -> Links]
BY DEF Touch, IInv, Paired, TypeOK, Links, Pages

LEMMA StoreTypes ==
    ASSUME IInv, NEW page \in Pages, NEW l \in Nat, NEW b \in Nat, Store(page, l, b),
           l <= token, b = 0 \/ l <= b, token' = token
    PROVE  Paired' /\ links' \in [Pages -> Links]
<1>1. [launcher |-> l, sub |-> b, fresh |-> TRUE] \in Links
  BY DEF Links
<1>2. links' \in [Pages -> Links]
  BY <1>1 DEF Store, IInv, TypeOK
<1>3. Paired'
  BY DEF Store, IInv, Paired, TypeOK
<1> QED BY <1>2, <1>3

LEMMA SameLinks ==
    ASSUME IInv, UNCHANGED <<token, links>>
    PROVE  Paired' /\ links' \in [Pages -> Links]
BY PairedFrame DEF IInv, TypeOK

LEMMA HintType ==
    ASSUME TypeOK, NEW s \in Students
    PROVE  /\ Key(s) \in Students \cup {Subject}
           /\ Hinted(Key(s)) \in Nat
           /\ Table(s) \in Nat
<1>1. Key(s) \in Students \cup {Subject}
  BY DEF Key
<1>2. hint[Key(s)] \in Hints
  BY <1>1 DEF TypeOK
<1>3. job[s].hint \in Nat
  BY JobTypes
<1> QED BY <1>1, <1>2, <1>3 DEF Hinted, Table, Hints, TypeOK

LEMMA RememberTypes ==
    ASSUME TypeOK, NEW s \in Students, Remember(s)
    PROVE  hint' \in [Students \cup {Subject} -> Hints]
<1>1. [term |-> Table(s), live |-> TRUE] \in Hints
  BY HintType DEF Hints
<1> QED BY <1>1 DEF Remember, TypeOK

\* The attendance page has been opened, and its work begins.
LEMMA BeginsMoves ==
    ASSUME TypeOK, NEW s \in Students, NEW b \in Nat, BeginsGrid(s, b)
    PROVE  /\ Moved(s, "scrape", job[s].launcher, b)
           /\ hint' \in [Students \cup {Subject} -> Hints]
           /\ UNCHANGED <<context, warm>>
<1>1. job[s] \in Jobs
  BY JobTypes
<1>2. \A h \in Nat : [job[s] EXCEPT !.at = "scrape", !.sub = b, !.hint = h] \in Jobs
  BY <1>1 DEF Jobs, Places
<1>3. PICK h \in Nat : job' = [job EXCEPT ![s] = [@ EXCEPT !.at = "scrape", !.sub = b, !.hint = h]]
  BY HintType DEF BeginsGrid
<1>4. Moved(s, "scrape", job[s].launcher, b)
  <2>1. job' \in [Students -> Jobs]
    BY <1>2, <1>3 DEF TypeOK
  <2>2. job'[s] = [job[s] EXCEPT !.at = "scrape", !.sub = b, !.hint = h]
    BY <1>3 DEF TypeOK
  <2> QED BY <1>1, <1>3, <2>1, <2>2 DEF Moved, Jobs, TypeOK
<1>5. hint' \in [Students \cup {Subject} -> Hints]
  <2>1. NoHint \in Hints
    BY DEF NoHint, Hints
  <2> QED BY <2>1 DEF BeginsGrid, TypeOK
<1> QED BY <1>4, <1>5 DEF BeginsGrid

LEMMA EntersMoves ==
    ASSUME TypeOK, NEW s \in Students, Enters(s)
    PROVE  \E e \in {"page", "post"} : Moved(s, e, 0, job[s].sub)
<1>1. PICK e \in {"page", "post"} :
          job' = [job EXCEPT ![s] = [@ EXCEPT !.launcher = 0, !.at = e]]
  BY DEF Enters
<1>2. e \in Places
  BY DEF Places
<1> QED BY <1>1, <1>2, Moves, JobTypes

-----------------------------------------------------------------------------
(* One lemma per action: the way to a page.                                   *)

LEMMA WarmPathKeeps ==
    ASSUME IInv, NEW s \in Students, WarmPath(s)
    PROVE  IInv'
<1>1. Paired' /\ links' \in [Pages -> Links]
  BY TouchTypes, SameLinks DEF WarmPath, portal
<1>2. CASE Exited(s)
  BY <1>1, <1>2, ExitKeeps DEF WarmPath, IInv, TypeOK
<1>3. CASE /\ job' = [job EXCEPT ![s] = [@ EXCEPT !.at = "detail", !.sub = links["attendance"].sub]]
           /\ UNCHANGED <<context, warm>>
  <2>1. job[s].launcher \in Nat /\ job[s].launcher <= token /\ links["attendance"].sub \in Nat
    BY JobTypes DEF IInv, Sound, TypeOK, Links, Pages
  <2>2. Moved(s, "detail", job[s].launcher, links["attendance"].sub)
    BY <1>3, <2>1, Moves DEF Places, IInv
  <2>3. Rest(s)
    BY <1>1, <1>3 DEF Rest, IInv, TypeOK, WarmPath
  <2> QED BY <1>1, <2>1, <2>2, <2>3, MoveKeeps DEF Places, Arrived, WarmPath
<1> QED BY <1>2, <1>3, ExpiresExits, AgainExits DEF WarmPath, IInv

LEMMA PeekKeeps ==
    ASSUME IInv, NEW s \in Students, Peek(s)
    PROVE  IInv'
<1>1. Paired' /\ links' \in [Pages -> Links]
  BY TouchTypes, SameLinks DEF Peek, portal, caches
<1>2. CASE Exited(s) /\ UNCHANGED hint
  BY <1>1, <1>2, ExitKeeps DEF Peek, IInv, TypeOK
<1>3. CASE Cached /\ Answers(s) /\ BeginsGrid(s, links["attendance"].sub)
  <2>1. job[s].launcher \in Nat /\ job[s].launcher <= token /\ links["attendance"].sub \in Nat
    BY JobTypes DEF IInv, Sound, TypeOK, Links, Pages
  <2>2. /\ Moved(s, "scrape", job[s].launcher, links["attendance"].sub)
        /\ hint' \in [Students \cup {Subject} -> Hints]
        /\ UNCHANGED <<context, warm>>
    BY <1>3, <2>1, BeginsMoves DEF IInv
  <2>3. Rest(s)
    BY <1>1, <2>2 DEF Rest, IInv, TypeOK, Peek
  <2>4. context'[s] = Module(MyPage(s)) /\ links["attendance"].sub >= oldest
    <3>1. MyPage(s) = "attendance"
      BY DEF Peek, IInv, Sound, MyPage, Page, Retried, At
    <3> QED BY <1>3, <2>2, <3>1 DEF Answers, Module
  <2> QED BY <1>1, <2>1, <2>2, <2>3, <2>4, MoveKeeps DEF Places, Arrived, Peek
<1> QED BY <1>2, <1>3, ExpiresExits, GoesExits DEF Peek, IInv, caches

LEMMA ResolveKeeps ==
    ASSUME IInv, NEW s \in Students, Resolve(s)
    PROVE  IInv'
<1> DEFINE entry == links[MyPage(s)]
<1>1. /\ entry.launcher \in Nat /\ entry.sub \in Nat /\ entry.launcher <= token
      /\ entry.sub = 0 \/ entry.launcher <= entry.sub
  BY PageTypes DEF IInv, Paired, TypeOK, Links
<1>2. Paired' /\ Rest(s) /\ UNCHANGED portal
  BY SameLinks, RestFrame DEF Resolve, caches, portal
<1>3. CASE job' = [job EXCEPT ![s] = [@ EXCEPT !.at = "launch", !.launcher = entry.launcher,
                                               !.sub = entry.sub]]
  <2>1. Moved(s, "launch", entry.launcher, entry.sub)
    BY <1>1, <1>3, Moves DEF Places, IInv
  <2> QED BY <1>1, <1>2, <2>1, MoveKeeps DEF Places, Arrived
<1>4. CASE Goes(s, "home")
  <2>1. job[s].launcher \in Nat /\ job[s].sub \in Nat /\ job[s].launcher <= token
    BY JobTypes DEF IInv, Sound
  <2>2. Moved(s, "home", job[s].launcher, job[s].sub)
    BY <1>4, Moves DEF Places, IInv, Goes
  <2> QED BY <1>2, <2>1, <2>2, MoveKeeps DEF Places, Arrived
<1> QED BY <1>3, <1>4 DEF Resolve

\* A launcher that is accepted is new enough for the sub-page stored beside it.
LEMMA LaunchKeeps ==
    ASSUME IInv, NEW s \in Students, Launch(s)
    PROVE  IInv'
<1>1. /\ job[s].launcher \in Nat /\ job[s].sub \in Nat /\ job[s].launcher <= token
      /\ job[s].sub = 0 \/ job[s].launcher <= job[s].sub
      /\ job[s].launcher >= oldest /\ oldest \in Nat /\ token \in Nat /\ oldest <= token
  BY JobTypes DEF IInv, Sound, Launch, At, Accepts, TypeOK
<1>2. /\ context' \in [Students -> Contexts] /\ shaken' \in [Students -> BOOLEAN]
      /\ context'[s] = Module(MyPage(s))
      /\ \A r \in Students \ {s} : context'[r] = context[r] /\ shaken'[r] = shaken[r]
  BY PageTypes DEF IInv, TypeOK, Launch, Visited
<1>3. CASE job[s].sub # 0
  <2>1. PICK e \in {"page", "post"} : Moved(s, e, 0, job[s].sub)
    BY <1>3, EntersMoves DEF Launch, IInv
  <2>2. Paired' /\ links' \in [Pages -> Links]
    <3>1. token' = token /\ Store(MyPage(s), job[s].launcher, job[s].sub)
      BY <1>3 DEF Launch, portal
    <3>2. MyPage(s) \in Pages
      BY PageTypes DEF IInv
    <3> QED BY <1>1, <3>1, <3>2, StoreTypes
  <2>3. Rest(s)
    BY <1>2, <2>2 DEF Rest, Launch, IInv, TypeOK
  <2>4. job[s].sub >= oldest /\ 0 <= token
    BY <1>1, <1>3
  <2> QED BY <1>1, <1>2, <2>1, <2>2, <2>3, <2>4, MoveKeeps DEF Places, Launch
<1>4. CASE job[s].sub = 0
  <2>1. Moved(s, "complete", job[s].launcher, token)
    BY <1>1, <1>4, Moves DEF Launch, Places, IInv
  <2>2. Paired' /\ links' \in [Pages -> Links]
    BY <1>4, SameLinks DEF Launch, portal
  <2>3. Rest(s)
    BY <1>2, <2>2 DEF Rest, Launch, IInv, TypeOK
  <2> QED BY <1>1, <1>2, <2>1, <2>2, <2>3, MoveKeeps DEF Places, Launch
<1> QED BY <1>3, <1>4

LEMMA LaunchFailsKeeps ==
    ASSUME IInv, NEW s \in Students, LaunchFails(s)
    PROVE  IInv'
<1>1. plan' \in PlanRecords
  BY SpendTypes DEF LaunchFails, Bounds, IInv, TypeOK
<1>2. Paired' /\ links' \in [Pages -> Links]
  <2>1. NoLinks \in Links /\ NoLinks.sub = 0 /\ NoLinks.launcher = 0 /\ token \in Nat
    BY DEF NoLinks, Links, IInv, TypeOK
  <2>2. links' \in [Pages -> Links]
    BY <2>1 DEF LaunchFails, IInv, TypeOK
  <2> QED BY <2>1, <2>2 DEF LaunchFails, IInv, TypeOK, Paired, portal
<1>3. job[s].launcher \in Nat /\ job[s].sub \in Nat /\ job[s].launcher <= token
  BY JobTypes DEF IInv, Sound
<1>4. Moved(s, "home", job[s].launcher, job[s].sub)
  BY Moves DEF Places, IInv, Goes, LaunchFails
<1>5. Rest(s)
  BY <1>1, <1>2 DEF Rest, LaunchFails, IInv, TypeOK
<1> QED BY <1>2, <1>3, <1>4, <1>5, MoveKeeps DEF Places, Arrived, LaunchFails

LEMMA HomeKeeps ==
    ASSUME IInv, NEW s \in Students, Home(s)
    PROVE  IInv'
<1>1. Paired' /\ links' \in [Pages -> Links]
  BY SameLinks DEF Home, portal, caches
<1>2. CASE Expires(s)
  BY <1>1, <1>2, ExpiresExits, ExitKeeps DEF Home, IInv, TypeOK, caches
<1>3. CASE /\ job' = [job EXCEPT ![s] = [@ EXCEPT !.at = "launcher", !.launcher = token]]
           /\ UNCHANGED <<context, warm>>
  <2>1. token \in Nat /\ job[s].sub \in Nat
    BY JobTypes DEF IInv, TypeOK
  <2>2. Moved(s, "launcher", token, job[s].sub)
    BY <1>3, <2>1, Moves DEF Places, IInv
  <2>3. Rest(s)
    BY <1>3, RestFrame DEF Home
  <2> QED BY <1>1, <2>1, <2>2, <2>3, MoveKeeps DEF Places, Arrived, Home
<1> QED BY <1>2, <1>3 DEF Home

LEMMA LauncherKeeps ==
    ASSUME IInv, NEW s \in Students, Launcher(s)
    PROVE  IInv'
<1>1. Paired' /\ links' \in [Pages -> Links]
  BY SameLinks DEF Launcher, portal, caches
<1>2. CASE (Expires(s) \/ Fails(s)) /\ UNCHANGED shaken
  BY <1>1, <1>2, ExpiresExits, FailsExits, ExitKeeps DEF Launcher, IInv, TypeOK, caches
<1>3. CASE /\ Accepts(job[s].launcher) /\ Visited(s)
           /\ job' = [job EXCEPT ![s] = [@ EXCEPT !.at = "store", !.sub = token]]
           /\ UNCHANGED warm
  <2>1. /\ job[s].launcher \in Nat /\ job[s].launcher <= token
        /\ token \in Nat /\ oldest \in Nat /\ oldest <= token
    BY JobTypes DEF IInv, Sound, TypeOK
  <2>2. Moved(s, "store", job[s].launcher, token)
    BY <1>3, <2>1, Moves DEF Places, IInv
  <2>3. /\ context' \in [Students -> Contexts] /\ shaken' \in [Students -> BOOLEAN]
        /\ context'[s] = Module(MyPage(s))
        /\ \A r \in Students \ {s} : context'[r] = context[r] /\ shaken'[r] = shaken[r]
    BY <1>3, PageTypes DEF IInv, TypeOK, Visited
  <2>4. Rest(s)
    BY <1>1, <1>3, <2>3 DEF Rest, Launcher, IInv, TypeOK, caches
  <2> QED BY <1>1, <2>1, <2>2, <2>3, <2>4, MoveKeeps DEF Places, Launcher
<1> QED BY <1>2, <1>3 DEF Launcher

LEMMA StorePairKeeps ==
    ASSUME IInv, NEW s \in Students, StorePair(s)
    PROVE  IInv'
<1>1. /\ job[s].launcher \in Nat /\ job[s].sub \in Nat /\ job[s].launcher <= token
      /\ job[s].sub = 0 \/ job[s].launcher <= job[s].sub
      /\ ~shaken[s] => context[s] = Module(MyPage(s)) /\ job[s].sub >= oldest
  BY JobTypes DEF IInv, Sound, StorePair, At, Opens
<1>2. PICK e \in {"page", "post"} : Moved(s, e, 0, job[s].sub)
  BY EntersMoves DEF StorePair, IInv
<1>3. Paired' /\ links' \in [Pages -> Links]
  <2>1. token' = token /\ MyPage(s) \in Pages
    BY PageTypes DEF StorePair, portal, IInv
  <2> QED BY <1>1, <2>1, StoreTypes DEF StorePair
<1>4. Rest(s)
  BY <1>3 DEF Rest, StorePair, IInv, TypeOK
<1>5. 0 <= token
  BY DEF IInv, TypeOK
<1> QED BY <1>1, <1>2, <1>3, <1>4, <1>5, MoveKeeps DEF Places, StorePair

-----------------------------------------------------------------------------
(* One lemma per action: the work on the page.                                *)

LEMMA PageGetKeeps ==
    ASSUME IInv, NEW s \in Students, PageGet(s)
    PROVE  IInv'
<1>1. Paired' /\ links' \in [Pages -> Links]
  BY SameLinks DEF PageGet, portal
<1>2. CASE (Expires(s) \/ Aborts(s)) /\ UNCHANGED hint
  BY <1>1, <1>2, ExpiresExits, AbortsExits, ExitKeeps DEF PageGet, IInv, TypeOK
<1>3. CASE Opens(s) /\ BeginsGrid(s, job[s].sub)
  <2>1. job[s].launcher \in Nat /\ job[s].launcher <= token /\ job[s].sub \in Nat
    BY JobTypes DEF IInv, Sound
  <2>2. /\ Moved(s, "scrape", job[s].launcher, job[s].sub)
        /\ hint' \in [Students \cup {Subject} -> Hints]
        /\ UNCHANGED <<context, warm>>
    BY <1>3, <2>1, BeginsMoves DEF IInv
  <2>3. Rest(s)
    BY <1>1, <2>2 DEF Rest, IInv, TypeOK, PageGet
  <2> QED BY <1>1, <1>3, <2>1, <2>2, <2>3, MoveKeeps DEF Places, Arrived, PageGet, Opens
<1> QED BY <1>2, <1>3 DEF PageGet

LEMMA ScrapeKeeps ==
    ASSUME IInv, NEW s \in Students, Scrape(s)
    PROVE  IInv'
<1>1. Paired' /\ links' \in [Pages -> Links] /\ UNCHANGED <<portal, shaken, plan>>
  BY SameLinks DEF Scrape, portal
<1>2. CASE (Expires(s) \/ Aborts(s) \/ Fails(s)) /\ UNCHANGED <<hint, result>>
  BY <1>1, <1>2, ExpiresExits, AbortsExits, FailsExits, ExitKeeps DEF IInv, TypeOK
<1>3. CASE result' = [result EXCEPT ![s] = Table(s)] /\ Remember(s) /\ Returns(s)
  <2>1. result' \in [Students -> Nat]
    BY <1>3, HintType DEF IInv, TypeOK
  <2>2. hint' \in [Students \cup {Subject} -> Hints] /\ Exited(s)
    BY <1>3, RememberTypes, ReturnsExits DEF IInv
  <2> QED BY <1>1, <2>1, <2>2, ExitKeeps DEF IInv, TypeOK
<1>4. CASE Remember(s) /\ Goes(s, "detail") /\ UNCHANGED <<context, warm, result>>
  <2>1. job[s].launcher \in Nat /\ job[s].launcher <= token /\ job[s].sub \in Nat
    BY JobTypes DEF IInv, Sound
  <2>2. Moved(s, "detail", job[s].launcher, job[s].sub)
    BY <1>4, <2>1, Moves DEF Places, IInv, Goes
  <2>3. hint' \in [Students \cup {Subject} -> Hints]
    BY <1>4, RememberTypes DEF IInv
  <2>4. Rest(s)
    BY <1>1, <1>4, <2>3 DEF Rest, IInv, TypeOK
  <2> QED BY <1>1, <2>1, <2>2, <2>4, MoveKeeps DEF Places, Arrived
<1> QED BY <1>2, <1>3, <1>4 DEF Scrape

LEMMA FormGetKeeps ==
    ASSUME IInv, NEW s \in Students, FormGet(s)
    PROVE  IInv'
<1>1. Paired' /\ links' \in [Pages -> Links]
  BY SameLinks DEF FormGet, portal, caches
<1>2. CASE Expires(s) \/ Fails(s)
  BY <1>1, <1>2, ExpiresExits, FailsExits, ExitKeeps DEF FormGet, IInv, TypeOK, caches
<1>3. CASE Opens(s) /\ Goes(s, "scrape") /\ UNCHANGED <<context, warm>>
  <2>1. job[s].launcher \in Nat /\ job[s].launcher <= token /\ job[s].sub \in Nat
    BY JobTypes DEF IInv, Sound
  <2>2. Moved(s, "scrape", job[s].launcher, job[s].sub)
    BY <1>3, <2>1, Moves DEF Places, IInv, Goes
  <2>3. Rest(s)
    BY <1>3, RestFrame DEF FormGet
  <2> QED BY <1>1, <1>3, <2>1, <2>2, <2>3, MoveKeeps DEF Places, Arrived, FormGet, Opens
<1> QED BY <1>2, <1>3 DEF FormGet

\* The steps that end a stay: none of them touches the links.
LEMMA LeavingKeeps ==
    ASSUME IInv, NEW s \in Students, Search(s) \/ Detail(s) \/ Post(s) \/ Dashboard(s)
    PROVE  IInv'
<1>1. UNCHANGED <<portal, caches, result, shaken, plan>>
  BY DEF Search, Detail, Post, Dashboard
<1>2. Exited(s)
  BY ExpiresExits, AbortsExits, NextRoundExits, ReturnsExits
     DEF Search, Detail, Post, Dashboard, IInv
<1>3. Paired' /\ links' \in [Pages -> Links]
  BY <1>1, SameLinks DEF portal, caches
<1> QED BY <1>1, <1>2, <1>3, ExitKeeps DEF IInv, TypeOK, caches

LEMMA BreaksKeeps ==
    ASSUME IInv, NEW s \in Students, Breaks(s)
    PROVE  IInv'
<1>1. plan' \in PlanRecords
  BY SpendTypes DEF Breaks, Bounds, IInv
<1>2. Exited(s) /\ Paired' /\ links' \in [Pages -> Links]
  BY FailsExits, SameLinks DEF Breaks, portal, caches, IInv
<1> QED BY <1>1, <1>2, ExitKeeps DEF IInv, TypeOK, Breaks, caches

LEMMA RetryKeeps ==
    ASSUME IInv, NEW s \in Students, Retry(s) \/ LeaseEnds(s)
    PROVE  IInv'
<1>1. Exited(s) /\ Paired' /\ links' \in [Pages -> Links]
  BY AgainExits, DropsExits, SameLinks DEF Retry, LeaseEnds, portal, caches, IInv
<1> QED BY <1>1, ExitKeeps DEF IInv, TypeOK, Retry, LeaseEnds, caches

-----------------------------------------------------------------------------
(* One lemma per action: the portal and the clock.                            *)

LEMMA RotateKeeps ==
    ASSUME IInv, Rotate
    PROVE  IInv'
<1>1. plan' \in PlanRecords
  BY SpendTypes DEF Rotate, Bounds, IInv
<1>2. token \in Nat /\ oldest \in Nat /\ oldest <= token /\ oldest >= 1 /\ token' = token + 1
  BY DEF IInv, TypeOK, Rotate
<1>3. TypeOK'
  <2>1. token' \in Nat \ {0} /\ oldest' \in 1 .. token'
    BY <1>2 DEF Rotate
  <2> QED BY <1>1, <2>1 DEF IInv, TypeOK, Rotate, caches
<1>4. Paired'
  BY <1>2 DEF IInv, TypeOK, Links, Paired, Rotate, caches
<1>5. ASSUME NEW s \in Students PROVE Sound(s)'
  <2>1. Sound(s) /\ job[s].launcher \in Nat
    BY JobTypes DEF IInv
  <2>2. Opens(s)' = Opens(s)
    BY DEF Opens, MyPage, Rotate
  <2> QED BY <1>2, <2>1, <2>2 DEF Sound, Rotate
<1> QED BY <1>3, <1>4, <1>5 DEF IInv

LEMMA RetireKeeps ==
    ASSUME IInv, Retire
    PROVE  IInv'
<1>1. TypeOK'
  <2>1. oldest' \in 1 .. token' /\ shaken' \in [Students -> BOOLEAN]
    BY DEF IInv, TypeOK, Retire
  <2> QED BY <2>1 DEF IInv, TypeOK, Retire, caches
<1>2. Paired'
  BY PairedFrame DEF IInv, Retire, caches
<1>3. ASSUME NEW s \in Students PROVE Sound(s)'
  BY DEF IInv, Sound, Retire
<1> QED BY <1>1, <1>2, <1>3 DEF IInv

LEMMA OpenTermKeeps ==
    ASSUME IInv, OpenTerm
    PROVE  IInv'
<1>1. plan' \in PlanRecords
  BY SpendTypes DEF OpenTerm, Bounds, IInv
<1>2. TypeOK'
  BY <1>1 DEF IInv, TypeOK, OpenTerm, caches
<1>3. Paired'
  BY PairedFrame DEF IInv, OpenTerm, caches
<1>4. ASSUME NEW s \in Students PROVE Sound(s)'
  BY DEF IInv, Sound, Opens, MyPage, OpenTerm
<1> QED BY <1>2, <1>3, <1>4 DEF IInv

LEMMA ForgetsKeeps ==
    ASSUME IInv, NEW s \in Students, NEW what \in {"none", "out"}, Forgets(s, what)
    PROVE  IInv'
<1>1. plan' \in PlanRecords
  BY SpendTypes DEF Forgets, Bounds, IInv
<1>2. TypeOK'
  <2>1. context' \in [Students -> Contexts] /\ shaken' \in [Students -> BOOLEAN]
    BY DEF IInv, TypeOK, Forgets, Contexts
  <2> QED BY <1>1, <2>1 DEF IInv, TypeOK, Forgets, portal, caches
<1>3. Sound(s)'
  <2>1. shaken'[s]
    BY DEF IInv, TypeOK, Forgets
  <2> QED BY <2>1 DEF IInv, Sound, Forgets, portal
<1>4. Others(s)
  BY DEF Others, Forgets, IInv, TypeOK
<1>5. Paired' /\ UNCHANGED <<token, oldest>>
  BY PairedFrame DEF IInv, Forgets, portal, caches
<1> QED BY <1>2, <1>3, <1>4, <1>5, StepKeeps

\* Time only takes entries out of use.
LEMMA AgesKeeps ==
    ASSUME IInv, \/ \E p \in Pages : LinkAges(p)
                 \/ \E k \in Students \cup {Subject} : HintAges(k)
    PROVE  IInv'
<1>1. UNCHANGED <<portal, context, warm, job, result, shaken, plan>>
  BY DEF LinkAges, HintAges
<1>2. Paired' /\ links' \in [Pages -> Links] /\ hint' \in [Students \cup {Subject} -> Hints]
  <2>1. ASSUME NEW p \in Pages, LinkAges(p)
        PROVE  /\ Paired' /\ links' \in [Pages -> Links]
               /\ hint' \in [Students \cup {Subject} -> Hints]
    <3>1. links' \in [Pages -> Links]
      BY <2>1 DEF LinkAges, IInv, TypeOK, Links
    <3>2. Paired'
      BY <2>1 DEF LinkAges, IInv, TypeOK, Paired, Links, portal
    <3> QED BY <2>1, <3>1, <3>2 DEF LinkAges, IInv, TypeOK
  <2>2. ASSUME NEW k \in Students \cup {Subject}, HintAges(k)
        PROVE  /\ Paired' /\ links' \in [Pages -> Links]
               /\ hint' \in [Students \cup {Subject} -> Hints]
    <3>0. hint[k] \in Hints
      BY DEF IInv, TypeOK
    <3>1. [hint[k] EXCEPT !.live = FALSE] \in Hints
      BY <3>0 DEF Hints
    <3>2. hint' \in [Students \cup {Subject} -> Hints]
      BY <2>2, <3>1 DEF HintAges, IInv, TypeOK
    <3> QED BY <2>2, <3>2, SameLinks DEF HintAges, portal
  <2> QED BY <2>1, <2>2
<1>3. TypeOK'
  BY <1>1, <1>2 DEF IInv, TypeOK, portal
<1>4. ASSUME NEW s \in Students PROVE Sound(s)'
  BY <1>1 DEF IInv, Sound, Opens, MyPage, portal
<1> QED BY <1>2, <1>3, <1>4 DEF IInv

-----------------------------------------------------------------------------
(* The invariant, and what follows from it.                                   *)

LEMMA InitIInv == Init => IInv
<1> SUFFICES ASSUME Init PROVE IInv
  OBVIOUS
<1>1. NoLinks \in Links /\ NoHint \in Hints /\ plan \in PlanRecords
  BY PlansAssumption DEF Init, NoLinks, Links, NoHint, Hints, PlanRecords
<1>2. TypeOK
  BY <1>1, IdleType DEF Init, TypeOK, Contexts
<1>3. Paired
  BY DEF Init, Paired, NoLinks
<1>4. ASSUME NEW s \in Students PROVE Sound(s)
  BY DEF Init, Sound, Idle
<1> QED BY <1>2, <1>3, <1>4 DEF IInv

LEMMA StepKeepsIInv ==
    ASSUME IInv, NEW s \in Students, Step(s)
    PROVE  IInv'
<1>1. CASE Login(s) \/ LoginFails(s) \/ Seed(s)
  BY <1>1, LoginKeeps, LoginFailsKeeps, SeedKeeps
<1>2. CASE Way(s)
  BY <1>2, WarmPathKeeps, PeekKeeps, ResolveKeeps, LaunchKeeps, LaunchFailsKeeps, HomeKeeps,
     LauncherKeeps, StorePairKeeps DEF Way
<1>3. CASE Work(s)
  BY <1>3, PageGetKeeps, ScrapeKeeps, FormGetKeeps, LeavingKeeps, BreaksKeeps, RetryKeeps DEF Work
<1> QED BY <1>1, <1>2, <1>3 DEF Step

LEMMA NextIInv == IInv /\ [Next]_vars => IInv'
<1> SUFFICES ASSUME IInv, [Next]_vars PROVE IInv'
  OBVIOUS
<1>1. ASSUME NEW s \in Students, Step(s) PROVE IInv'
  BY <1>1, StepKeepsIInv
<1>2. ASSUME NEW s \in Students, LeaseEnds(s) PROVE IInv'
  BY <1>2, RetryKeeps
<1>3. ASSUME NEW s \in Students, NEW kind \in Kinds, Start(s, kind) PROVE IInv'
  BY <1>3, StartKeeps
<1>4. ASSUME NEW s \in Students, NEW what \in {"none", "out"}, Forgets(s, what) PROVE IInv'
  BY <1>4, ForgetsKeeps
<1>5. CASE \/ \E p \in Pages : LinkAges(p)
          \/ \E k \in Students \cup {Subject} : HintAges(k)
  BY <1>5, AgesKeeps
<1>6. CASE Rotate \/ Retire \/ OpenTerm
  BY <1>6, RotateKeeps, RetireKeeps, OpenTermKeeps
<1>7. CASE UNCHANGED vars
  <2>1. TypeOK'
    BY <1>7 DEF IInv, TypeOK, vars, portal, caches
  <2>2. Paired'
    BY <1>7 DEF IInv, Paired, vars, portal, caches
  <2>3. ASSUME NEW s \in Students PROVE Sound(s)'
    BY <1>7 DEF IInv, Sound, Opens, MyPage, vars, portal, caches
  <2> QED BY <2>1, <2>2, <2>3 DEF IInv
<1> QED BY <1>1, <1>2, <1>3, <1>4, <1>5, <1>6, <1>7 DEF Next

LEMMA SpecIInv == Spec => []IInv
BY InitIInv, NextIInv, PTL DEF Spec

\* Every variable keeps its type: the retries, the links and the hints of every job, whatever
\* the portal does (client.py, attendance_service.py).
THEOREM TypeCorrect == Spec => []TypeOK
<1>1. IInv => TypeOK
  BY DEF IInv
<1> QED BY <1>1, SpecIInv, PTL

\* _resolve_module_subpage_url: once the launcher of a module answered, its page opens, for any
\* number of students whose logins and jobs write the shared links meanwhile, unless the portal
\* took back the tokens or the context.
THEOREM PageIsReachable == Spec => []PageReachable
<1>1. IInv => PageReachable
  BY DEF IInv, Sound, PageReachable
<1> QED BY <1>1, SpecIInv, PTL

\* _seed_module_urls_from_home and the write-backs of _resolve_module_subpage_url: no
\* interleaving of logins and jobs ever leaves a launcher beside an older sub-page.
THEOREM PairsStayTogether == Spec => []Paired
<1>1. IInv => Paired
  BY DEF IInv
<1> QED BY <1>1, SpecIInv, PTL

=============================================================================
