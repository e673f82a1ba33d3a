------------------------------- MODULE Portal -------------------------------
(***************************************************************************)
(* What the bot's jobs do on the portal with the session of their student    *)
(* (app/nitris/client.py and the services that call it): the login, the way   *)
(* to a page through the launcher of its module, the postbacks there, and     *)
(* the retries of the attendance services.  The links and the hints a job      *)
(* leaves behind are shared by the whole process.                             *)
(*                                                                         *)
(* The portal signs every link with tokens.  It rotates them, and some time     *)
(* later it stops accepting the old ones.  A page answers only with tokens it   *)
(* accepts, in a session that visited the launcher of the page's module last.   *)
(* A student's jobs follow one another on a pooled session (SessionPool); a     *)
(* login the portal rejects is the subject of AuthGate and does not occur here. *)
(***************************************************************************)
EXTENDS Integers

CONSTANTS
    Students,
    Subject,     \* the subject whose dates the students ask for: a key of the hints
    MaxTries,    \* MAX_RETRIES of the attendance services
    Plans        \* bounds: the kinds of job of each student, and how often the
                 \* portal rotates its tokens, opens a term and misbehaves

Kinds == {"attendance", "details", "search", "paper", "seats", "home"}
Bounds == {"rotations", "terms", "faults"}

ASSUME SubjectAssumption == Subject \notin Students
ASSUME MaxTriesAssumption == MaxTries \in Nat \ {0}
ASSUME PlansAssumption ==
    Plans \subseteq [kinds : [Students -> SUBSET Kinds], bound : [Bounds -> Nat]]

VARIABLES
    token, oldest,    \* the portal: its current generation of tokens, the oldest accepted
    term,             \* the portal: the newest term with a table of attendance
    context,          \* the portal: each session, "out" or the module visited last
    links,            \* _resolved_url_cache: generations of launcher and sub-page, 0 for none
    hint,             \* _probe_hints: the term that worked last, and whether its TTL runs
    warm,             \* the student has a pooled session that needs no login
    job,              \* the job under way on each student's session
    result,           \* the term of the attendance each student was shown last
    shaken,           \* history: the portal withdrew tokens or this session's context
                      \* since it last accepted a launcher of the session
    plan              \* the bounds that are left

portal == <<token, oldest, term>>
caches == <<links, hint>>
vars == <<portal, context, caches, warm, job, result, shaken, plan>>

Pages == {"attendance", "papers", "seats"}
Module(page) == IF page = "attendance" THEN "attendance" ELSE "examination"
Page(kind) == CASE kind \in {"attendance", "details"} -> "attendance"
                [] kind \in {"search", "paper"} -> "papers"
                [] OTHER -> "seats"

\* The services that try again.
Retried == {"attendance", "details"}
Key(s) == IF job[s].kind = "details" THEN Subject ELSE s

Places == {"idle", "login", "seed", "peek", "resolve", "launch", "complete", "home",
           "launcher", "store", "page", "scrape", "detail", "post", "dashboard",
           "relogin", "backoff"}
Idle == [kind |-> "home", at |-> "idle", tries |-> 0, relogged |-> FALSE, round |-> 1,
         launcher |-> 0, sub |-> 0, hint |-> 0]
NoLinks == [launcher |-> 0, sub |-> 0, fresh |-> FALSE]
NoHint == [term |-> 0, live |-> FALSE]

-----------------------------------------------------------------------------

Entry(kind) == CASE kind \in Retried -> "peek" [] kind = "home" -> "dashboard"
                 [] OTHER -> "resolve"

At(s, place) == job[s].at = place
Goes(s, place) == job' = [job EXCEPT ![s] = [@ EXCEPT !.at = place]]
MyPage(s) == Page(job[s].kind)
Out(s) == context[s] = "out"
Accepts(launcher) == launcher >= oldest
Opens(s) == context[s] = Module(MyPage(s)) /\ job[s].sub >= oldest
\* The link is known; the second round of a paper is the download itself.
Enters(s) ==
    job' = [job EXCEPT ![s] = [@ EXCEPT !.launcher = 0,
                                        !.at = IF job[s].kind = "paper" /\ job[s].round = 2
                                               THEN "post" ELSE "page"]]
Store(page, launcher, sub) ==
    links' = [links EXCEPT ![page] = [launcher |-> launcher, sub |-> sub, fresh |-> TRUE]]

\* The work returns or raises: a session that expired is dropped from the pool.
Returns(s) == job' = [job EXCEPT ![s] = Idle] /\ UNCHANGED <<context, warm>>
Drops(s) == /\ job' = [job EXCEPT ![s] = Idle]
            /\ warm' = [warm EXCEPT ![s] = FALSE]
            /\ context' = [context EXCEPT ![s] = "out"]
Again(s, round) ==
    /\ job' = [job EXCEPT ![s] = [@ EXCEPT !.at = Entry(job[s].kind), !.round = round,
                                           !.launcher = 0, !.sub = 0, !.hint = 0]]
    /\ UNCHANGED <<context, warm>>

\* A round of a search is over, with the records found or with any exception.
NextRound(s) == IF job[s].round = 1 THEN Again(s, 2) ELSE Returns(s)

\* SessionExpiredError: one new login for the services that try again.
Expires(s) ==
    IF job[s].kind = "search" THEN NextRound(s)
    ELSE IF job[s].kind \in Retried /\ ~job[s].relogged
         THEN Goes(s, "relogin") /\ UNCHANGED <<context, warm>>
         ELSE Drops(s)

\* AttendanceWorkflowError or a failed transport: they sleep and start over.
Fails(s) ==
    IF job[s].kind = "search" THEN NextRound(s)
    ELSE IF job[s].kind \in Retried /\ job[s].tries + 1 < MaxTries
         THEN /\ job' = [job EXCEPT ![s] = [@ EXCEPT !.at = "backoff",
                                                   !.tries = job[s].tries + 1]]
              /\ UNCHANGED <<context, warm>>
         ELSE Returns(s)

\* InvalidContextError and the errors nobody repeats.
Aborts(s) == IF job[s].kind = "search" THEN NextRound(s) ELSE Returns(s)

Spend(what) == /\ plan.bound[what] > 0
               /\ plan' = [plan EXCEPT !.bound[what] = @ - 1]

-----------------------------------------------------------------------------
(* The job gets its session: a warm one of the pool, or a login.              *)

Start(s, kind) ==
    /\ job[s] = Idle
    /\ kind \in plan.kinds[s]
    /\ job' = [job EXCEPT ![s] = [Idle EXCEPT !.kind = kind,
                                              !.at = IF warm[s] THEN Entry(kind) ELSE "login"]]
    /\ UNCHANGED <<portal, context, caches, warm, result, shaken, plan>>

\* A login ends on the dashboard, whose launcher links a thread reads.
Login(s) ==
    /\ At(s, "login") \/ At(s, "relogin")
    /\ context' = [context EXCEPT ![s] = "none"]
    /\ job' = [job EXCEPT ![s] = [@ EXCEPT !.at = "seed", !.launcher = token,
                                           !.relogged = At(s, "relogin")]]
    /\ UNCHANGED <<portal, caches, warm, result, shaken, plan>>

\* Three attempts in vain.  A session that was warm stays in the pool.
LoginFails(s) ==
    /\ At(s, "login") \/ At(s, "relogin")
    /\ Spend("faults")
    /\ job' = [job EXCEPT ![s] = Idle]
    /\ context' = [context EXCEPT ![s] = "out"]
    /\ UNCHANGED <<portal, caches, warm, result, shaken>>

\* Mutant of Seeded: the new launcher beside the old sub-page.
SeededOver(launcher) ==
    [p \in Pages |-> IF p # "seats" THEN [links[p] EXCEPT !.launcher = launcher, !.fresh = TRUE]
                     ELSE links[p]]

\* No entry is ever downgraded, a full one of which the time is over included.
Seeded(launcher) ==
    [p \in Pages |-> IF p # "seats" /\ links[p].launcher = 0
                     THEN [launcher |-> launcher, sub |-> 0, fresh |-> TRUE] ELSE links[p]]

\* The retry after a new login counts as one of the tries.
Seed(s) ==
    /\ At(s, "seed")
    /\ links' = Seeded(job[s].launcher)
    /\ warm' = [warm EXCEPT ![s] = TRUE]
    /\ LET tries == IF job[s].relogged THEN job[s].tries + 1 ELSE job[s].tries IN
       job' = [job EXCEPT ![s] =
                   IF tries >= MaxTries THEN Idle
                   ELSE [@ EXCEPT !.at = Entry(job[s].kind), !.tries = tries,
                                  !.round = 1, !.launcher = 0, !.sub = 0, !.hint = 0]]
    /\ UNCHANGED <<portal, context, hint, result, shaken, plan>>

-----------------------------------------------------------------------------
(* The way to a page.                                                        *)

\* Mutant of Hinted: the TTL is not looked at.
HintedEver(key) == hint[key].term

\* The hint of a student or a subject, unless its TTL is over.
Hinted(key) == IF hint[key].live THEN hint[key].term ELSE 0

\* The attendance page is there: the hint is read, or taken out once its TTL is over.
BeginsGrid(s, sub) ==
    /\ job' = [job EXCEPT ![s] = [@ EXCEPT !.at = "scrape", !.sub = sub,
                                           !.hint = Hinted(Key(s))]]
    /\ hint' = [hint EXCEPT ![Key(s)] = IF @.live THEN @ ELSE NoHint]
    /\ UNCHANGED <<context, warm>>

Cached == links["attendance"].fresh /\ links["attendance"].sub # 0
Answers(s) == context[s] = "attendance" /\ links["attendance"].sub >= oldest
Touch == links' = [links EXCEPT !["attendance"].fresh = TRUE]

\* The dates of a subject are found on the attendance page as it stands; otherwise the
\* whole workflow is run.
WarmPath(s) ==
    /\ At(s, "peek") /\ job[s].kind = "details" /\ job[s].round = 1
    /\ \/ Cached /\ Out(s) /\ Expires(s) /\ UNCHANGED links
       \/ /\ Cached /\ Answers(s) /\ Touch
          /\ \/ /\ job' = [job EXCEPT ![s] = [@ EXCEPT !.at = "detail", !.sub = links["attendance"].sub]]
                /\ UNCHANGED <<context, warm>>
             \/ Again(s, 2)
       \/ ~Cached /\ Again(s, 2) /\ UNCHANGED links
       \/ ~Out(s) /\ ~Answers(s) /\ Again(s, 2) /\ UNCHANGED links
    /\ UNCHANGED <<portal, hint, result, shaken, plan>>

\* The attendance page is asked for directly when its link is cached, and by way of the
\* launcher when that does not open it.
Peek(s) ==
    /\ At(s, "peek") /\ (job[s].kind = "attendance" \/ job[s].round = 2)
    /\ \/ Cached /\ Out(s) /\ Expires(s) /\ UNCHANGED caches
       \/ Cached /\ Answers(s) /\ Touch /\ BeginsGrid(s, links["attendance"].sub)
       \/ /\ ~Cached \/ (~Out(s) /\ ~Answers(s))
          /\ Goes(s, "resolve") /\ UNCHANGED <<context, caches, warm>>
    /\ UNCHANGED <<portal, result, shaken, plan>>

Resolve(s) ==
    LET entry == links[MyPage(s)] IN
    /\ At(s, "resolve")
    /\ IF entry.fresh
       THEN job' = [job EXCEPT ![s] = [@ EXCEPT !.at = "launch", !.launcher = entry.launcher,
                                                !.sub = entry.sub]]
       ELSE Goes(s, "home")
    /\ UNCHANGED <<portal, context, caches, warm, result, shaken, plan>>

Visited(s) == /\ context' = [context EXCEPT ![s] = Module(MyPage(s))]
              /\ shaken' = [shaken EXCEPT ![s] = FALSE]

\* The cached launcher answers.  A full entry is written back as it was read.
Launch(s) ==
    /\ At(s, "launch") /\ ~Out(s) /\ Accepts(job[s].launcher)
    /\ Visited(s)
    /\ IF job[s].sub # 0
       THEN Enters(s) /\ Store(MyPage(s), job[s].launcher, job[s].sub)
       ELSE job' = [job EXCEPT ![s] = [@ EXCEPT !.at = "complete", !.sub = token]] /\ UNCHANGED links
    /\ UNCHANGED <<portal, hint, warm, result, plan>>

LaunchFails(s) ==
    /\ At(s, "launch")
    /\ \/ (Out(s) \/ ~Accepts(job[s].launcher)) /\ UNCHANGED plan
       \/ Spend("faults")
    /\ links' = [links EXCEPT ![MyPage(s)] = NoLinks]
    /\ Goes(s, "home")
    /\ UNCHANGED <<portal, context, hint, warm, result, shaken>>

Home(s) ==
    /\ At(s, "home")
    /\ \/ Out(s) /\ Expires(s)
       \/ /\ ~Out(s)
          /\ job' = [job EXCEPT ![s] = [@ EXCEPT !.at = "launcher", !.launcher = token]]
          /\ UNCHANGED <<context, warm>>
    /\ UNCHANGED <<portal, caches, result, shaken, plan>>

\* An error page of the launcher has no link to the sub-page.
Launcher(s) ==
    /\ At(s, "launcher")
    /\ \/ Out(s) /\ Expires(s) /\ UNCHANGED shaken
       \/ ~Out(s) /\ ~Accepts(job[s].launcher) /\ Fails(s) /\ UNCHANGED shaken
       \/ /\ ~Out(s) /\ Accepts(job[s].launcher)
          /\ Visited(s)
          /\ job' = [job EXCEPT ![s] = [@ EXCEPT !.at = "store", !.sub = token]]
          /\ UNCHANGED warm
    /\ UNCHANGED <<portal, caches, result, plan>>

\* The thread that reads the launcher's page is done: the pair is cached.
StorePair(s) ==
    /\ At(s, "complete") \/ At(s, "store")
    /\ Store(MyPage(s), job[s].launcher, job[s].sub)
    /\ Enters(s)
    /\ UNCHANGED <<portal, context, hint, warm, result, shaken, plan>>

-----------------------------------------------------------------------------
(* The work on the page.                                                      *)

\* The attendance page.  One that does not open after its launcher is fatal.
PageGet(s) ==
    /\ At(s, "page") /\ job[s].kind \in Retried
    /\ \/ Out(s) /\ Expires(s) /\ UNCHANGED hint
       \/ ~Out(s) /\ ~Opens(s) /\ Aborts(s) /\ UNCHANGED hint
       \/ Opens(s) /\ BeginsGrid(s, job[s].sub)
    /\ UNCHANGED <<portal, links, result, shaken, plan>>

\* The years and sessions are tried with the hint first, then the newest first; the
\* one whose table has rows is remembered.
Table(s) == IF job[s].hint # 0 THEN job[s].hint ELSE term
Remember(s) == hint' = [hint EXCEPT ![Key(s)] = [term |-> Table(s), live |-> TRUE]]

\* The postbacks of the attendance.  When the context is lost, a lost semester is fatal
\* and lost years and sessions are skipped until none is left.
Scrape(s) ==
    /\ At(s, "scrape") /\ job[s].kind \in Retried
    /\ \/ Out(s) /\ Expires(s) /\ UNCHANGED <<hint, result>>
       \/ ~Out(s) /\ ~Opens(s) /\ (Aborts(s) \/ Fails(s)) /\ UNCHANGED <<hint, result>>
       \/ /\ Opens(s) /\ job[s].kind = "attendance"
          /\ result' = [result EXCEPT ![s] = Table(s)]
          /\ Remember(s) /\ Returns(s)
       \/ /\ Opens(s) /\ job[s].kind = "details"
          /\ Remember(s) /\ Goes(s, "detail")
          /\ UNCHANGED <<context, warm, result>>
    /\ UNCHANGED <<portal, links, shaken, plan>>

\* The pages of the papers and of the seats: an error like any other.
FormGet(s) ==
    /\ At(s, "page") /\ job[s].kind \notin Retried
    /\ IF Out(s) THEN Expires(s)
       ELSE IF Opens(s) THEN Goes(s, "scrape") /\ UNCHANGED <<context, warm>>
       ELSE Fails(s)
    /\ UNCHANGED <<portal, caches, result, shaken, plan>>

\* Their postbacks.  A search is done once per season, a paper is downloaded next.
Search(s) ==
    /\ At(s, "scrape") /\ job[s].kind \notin Retried
    /\ IF Out(s) THEN Expires(s)
       ELSE IF ~Opens(s) THEN Aborts(s)
       ELSE IF job[s].kind = "seats" THEN Returns(s)
       ELSE NextRound(s)
    /\ UNCHANGED <<portal, caches, result, shaken, plan>>

\* The dates of the subject; without the context the job is over as well.
Detail(s) ==
    /\ At(s, "detail")
    /\ IF Out(s) THEN Expires(s) ELSE Returns(s)
    /\ UNCHANGED <<portal, caches, result, shaken, plan>>

\* The download of a paper does not look for the login page: an error like any other.
Post(s) ==
    /\ At(s, "post")
    /\ Returns(s)
    /\ UNCHANGED <<portal, caches, result, shaken, plan>>

\* The dashboard: timetable, holidays, list of messages.
Dashboard(s) ==
    /\ At(s, "dashboard")
    /\ IF Out(s) THEN Expires(s) ELSE Returns(s)
    /\ UNCHANGED <<portal, caches, result, shaken, plan>>

\* A request on the way or on the page breaks, or answers with some other status.
Breaks(s) ==
    /\ \E place \in {"peek", "home", "launcher", "page", "scrape", "detail", "dashboard"} :
           At(s, place)
    /\ Spend("faults")
    /\ Fails(s)
    /\ UNCHANGED <<portal, caches, result, shaken>>

Retry(s) ==
    /\ At(s, "backoff")
    /\ Again(s, 1)
    /\ UNCHANGED <<portal, caches, result, shaken, plan>>

-----------------------------------------------------------------------------
(* The portal and the clock.                                                  *)

Rotate == /\ Spend("rotations")
          /\ token' = token + 1
          /\ UNCHANGED <<oldest, term, context, caches, warm, job, result, shaken>>

Retire == /\ oldest < token
          /\ oldest' = token
          /\ shaken' = [s \in Students |-> TRUE]
          /\ UNCHANGED <<token, term, context, caches, warm, job, result, plan>>

OpenTerm == /\ Spend("terms")
            /\ term' = term + 1
            /\ UNCHANGED <<token, oldest, context, caches, warm, job, result, shaken>>

\* The portal forgets the module of a session, or the session.
Forgets(s, what) ==
    /\ context[s] \notin {"out", what}
    /\ Spend("faults")
    /\ context' = [context EXCEPT ![s] = what]
    /\ shaken' = [shaken EXCEPT ![s] = TRUE]
    /\ UNCHANGED <<portal, caches, warm, job, result>>

LinkAges(page) == /\ links[page].fresh
                  /\ links' = [links EXCEPT ![page].fresh = FALSE]
                  /\ UNCHANGED <<portal, context, hint, warm, job, result, shaken, plan>>

HintAges(key) == /\ hint[key].live
                 /\ hint' = [hint EXCEPT ![key].live = FALSE]
                 /\ UNCHANGED <<portal, context, links, warm, job, result, shaken, plan>>

LeaseEnds(s) == /\ warm[s] /\ job[s] = Idle
                /\ Drops(s)
                /\ UNCHANGED <<portal, caches, result, shaken, plan>>

-----------------------------------------------------------------------------

Init ==
    /\ token = 1 /\ oldest = 1 /\ term = 1
    /\ context = [s \in Students |-> "out"]
    /\ links = [p \in Pages |-> NoLinks]
    /\ hint = [k \in Students \cup {Subject} |-> NoHint]
    /\ warm = [s \in Students |-> FALSE]
    /\ job = [s \in Students |-> Idle]
    /\ result = [s \in Students |-> 0]
    /\ shaken = [s \in Students |-> FALSE]
    /\ plan \in Plans

Way(s) == \/ WarmPath(s) \/ Peek(s) \/ Resolve(s) \/ Launch(s) \/ LaunchFails(s) \/ Home(s)
          \/ Launcher(s) \/ StorePair(s)
Work(s) == \/ PageGet(s) \/ Scrape(s) \/ Detail(s) \/ FormGet(s) \/ Search(s)
           \/ Post(s) \/ Dashboard(s) \/ Breaks(s) \/ Retry(s)
Step(s) == Login(s) \/ LoginFails(s) \/ Seed(s) \/ Way(s) \/ Work(s)

Next == \/ \E s \in Students : \/ Step(s) \/ LeaseEnds(s)
                               \/ \E kind \in Kinds : Start(s, kind)
                               \/ \E what \in {"none", "out"} : Forgets(s, what)
        \/ \E p \in Pages : LinkAges(p)
        \/ \E k \in Students \cup {Subject} : HintAges(k)
        \/ Rotate \/ Retire \/ OpenTerm

\* A job goes on.  The attendance is asked for again and again, and every now and then
\* a student's hint outlives its TTL while no job runs: the syncs are hours apart.
Fairness ==
    /\ \A s \in Students : WF_vars(Step(s))
    /\ \A s \in Students : SF_vars(Start(s, "attendance"))
    /\ \A s \in Students : SF_vars(job[s] = Idle /\ HintAges(s))

Spec == Init /\ [][Next]_vars /\ Fairness

-----------------------------------------------------------------------------

Contexts == {"out", "none", "attendance", "examination"}
Links == [launcher : Nat, sub : Nat, fresh : BOOLEAN]
Hints == [term : Nat, live : BOOLEAN]
Jobs == [kind : Kinds, at : Places, tries : Nat, relogged : BOOLEAN, round : {1, 2},
         launcher : Nat, sub : Nat, hint : Nat]
PlanRecords == [kinds : [Students -> SUBSET Kinds], bound : [Bounds -> Nat]]

TypeOK ==
    /\ token \in Nat \ {0} /\ oldest \in 1 .. token /\ term \in Nat \ {0}
    /\ context \in [Students -> Contexts]
    /\ links \in [Pages -> Links]
    /\ hint \in [Students \cup {Subject} -> Hints]
    /\ warm \in [Students -> BOOLEAN]
    /\ job \in [Students -> Jobs]
    /\ result \in [Students -> Nat]
    /\ shaken \in [Students -> BOOLEAN]
    /\ plan \in PlanRecords

\* A job that went through a launcher finds its page: whatever the other students'
\* logins and jobs did to the shared links meanwhile, the page opens unless the portal
\* itself withdrew the tokens or the context after it answered the launcher.
PageReachable ==
    \A s \in Students :
        job[s].at \in {"complete", "store", "page", "post", "scrape"} /\ ~shaken[s] => Opens(s)

\* Once the portal has opened its last term, every student who asks for the attendance
\* is in the end shown that term for good, although a hint prefers an older one whose
\* table is still there.
FollowsTerm ==
    <>[](\A s \in Students : "attendance" \in plan.kinds[s] => result[s] = term)

=============================================================================
