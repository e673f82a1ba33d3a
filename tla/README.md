# A TLA+ model of the NITRIS Telegram bot

The program is a Telegram bot (Python, asyncio, PostgreSQL) that logs in to a university's
ASP.NET portal, NITRIS, with each student's password, keeps copies of attendance, notices,
timetables and question papers, and notifies the student of changes. One process serves some
thousand students through one slow portal, so most of its logic is about sharing: slots, login
tokens, sessions, jobs, claims on database rows. That logic is modelled here, checked with TLC on
small instances, and, for its safety, proved with TLAPS for every value of the constants.

Paths below are relative to the repository (`src/` in `PROJECT.json`); line numbers are those of the
modelled commit. `PROJECT.json` maps every definition that models code to its lines.

## 1. The system

### 1.1 Components

| Component | Code | State | Operations |
|---|---|---|---|
| Gateway | `app/nitris/gateway.py` | active slots, adaptive cap, circuit and its probe, login bucket and pacing queue, the in-memory guard of quarantined accounts | `acquire()`, `login()`, `relogin()`, `verify_credentials()` |
| Job queue | `app/nitris/job_queue.py` | two priority queues, `_in_flight` by dedup key, futures, retry tasks | `enqueue()`, the workers, `_schedule_retry()`, `cancel_dedup()` |
| Session pool | `app/nitris/session_pool.py` | one entry per user: client, lock, lease, `needs_login` | `with_pooled_session()`, `drop_session()`, eviction, expiry |
| Credential quarantine | `app/nitris/auth_gate.py` | `users.credentials_valid` and `credentials_version`, the gateway's guard | `load_user_credentials()`, `on_login_failure()`, `on_credentials_updated()`, `init_quarantine()` |
| Paper cache | `app/services/qpaper_service.py` | a row per paper: status, file, lock, attempts; two semaphores | `deliver()`, claim, acquire, wait, marks, reaper; also written by the pre-warm, the catalog sync and the admin |
| Event dispatcher | `app/services/event_dispatcher_service.py` | the `events` table: sent, failed, claim, attempts | claim, send (message or digest), marks, reaper |
| Scheduler | `app/services/scheduler_service.py` | `module_sync_schedule`: due time, claim, failures, disabled | the loop, the sync handlers, `mark_sync_success/failure()`, `ensure_schedule_exists()` |
| Session warmer | `app/services/session_warmer.py` | a throttle per user | `request_session_warm()`, `warm_now()` |
| Registration | `app/bot/handlers/registration.py` | a dialogue, an admission semaphore, the user's rows | verify, store, arm schedules, lift the quarantine, enqueue the onboarding |
| Job handlers | `app/nitris/job_handlers.py` | none of their own | one function per job type: credentials, pooled session, scrape, store, render |
| Inbox sync | `app/workers/sync_worker.py`, `app/db/repositories/inbox_repository.py` | the stored notices | `prepare_inbox_sync()` (network), `persist_inbox_sync()` (transaction under an advisory lock) |
| Outbox and snapshots | `app/services/event_service.py`, `snapshot_service.py` | snapshots, events | compare and store under an advisory lock |
| Attachment cache | `app/services/attachment_service.py` | a row per attachment with a lease; two semaphores | as the paper cache, without its recovery inside a delivery |
| Bubbles | `app/ui/surface.py`, `alive.py` | owner token of each message, generation of each surface | `claim_bubble()`, `edit()`, `poke_later()`, `final()` |
| Class-end sync | `app/services/class_end_sync.py` | the users already served today | one cycle per scheduler cycle |
| Retention | `app/services/retention_service.py` | none | batched deletes of old snapshots and terminal events |
| Rate limiter, user lock | `app/nitris/rate_limiter.py`, `app/services/lock_service.py` | expiry times; a set nobody uses | `check()`, `clear()` |
| Portal client | `app/nitris/client.py`, `aspnet.py` | cookies; for the whole process, the link cache `_resolved_url_cache` and the `_probe_hints` | login, the way to a page by its module's launcher, postbacks |
| Portal parsers | `app/nitris/*parser.py` | none | HTML to records; they also make up the identity of a notice that has none |
| Academic services | `app/services/attendance_*.py`, `timetable_service.py`, `now_next_service.py`, `exam*.py`, `holidays_service.py` | caches | pure computations, reads, one scrape each |
| Bot handlers, middlewares | `app/bot/` | dialogues | enqueue a job, await its future with a timeout, render |
| Database, start, configuration, texts | `app/db/`, `app/main.py`, `app/config.py`, `app/ui/` | tables | wiring |

### 1.2 How they interact

A tap enqueues a job (HIGH) with a dedup key and awaits the job's future under `asyncio.wait_for`,
which on a timeout cancels the future, also for everyone else who joined it. A worker runs the
handler, which loads the credentials (refused for a quarantined account), takes the user's pooled
session, enters the gateway (slot, circuit), logs in if the session is cold (pacing, guard),
scrapes and writes. The scheduler claims due rows and enqueues LOW jobs with the same handlers. A
changed snapshot or a new notice becomes an event in the same transaction; the dispatcher, one in
every process, claims events and sends them. A rejected password closes the account: first the
guard in memory, then the row, then one notice. Registration is the only way to open it again.

Tasks switch only at an `await` that suspends; what is shared between processes, or survives a
restart, is in the database and changes by single statements or short transactions.

### 1.3 What is hard

* *Interleavings at awaits*: slots handed back in the middle of a call, entries resolved before a
  lock and used after it, keys freed by whoever ends last.
* *Shared caches of another's state*: the portal rotates its tokens, retires the old ones and ties a page to the
  module a session visited last; every student's login and jobs write the links that all of them use.
* *Two histories of one screen*: a bubble is drawn by handlers, jobs, pokes and cooldown notices, each
  begun by another tap.
* *Claims that age*: papers, attachments, events and schedule rows are claimed for some minutes; a slow
  holder meets its successor, and no mark asks who holds the claim.
* *Failures between two steps*: a message delivered and its mark lost, a commit whose follow-up
  raises, a restart that forgets jobs but not claims.
* *Two records of one fact*: the guard and the row, the table's claims and the queue's jobs, the
  cached file and the bot token it belongs to.
* *Liveness under bounds*: capacity that widens without a wake-up, nested semaphores, a retry that
  waits for itself, a batch smaller than the backlog.

`PROJECT.json` lists these at their lines under "hazards", each with the properties that would catch it.

### 1.4 What makes each component correct

| Component | Correct when |
|---|---|
| Gateway | every slot taken comes back, once; nobody sleeps beside a free slot or token; the cap binds whoever takes a slot; interactive logins go first; a circuit's probe is never lost |
| Job queue | a duplicate joins a live job; one job per key; an answer is final; every accepted job is answered; the bounds hold and background work never rejects a tap |
| Session pool | a client is used by one job at a time; no closed client is handed out; only a fault of the same account closes a client in use; every call ends |
| Quarantine | one notice per credential version; a rejected password is not sent again and again; no quarantine without a rejection; guard and row agree in the end |
| Paper cache, attachments | one acquisition per file; settled answers stay; locks are released; every request is answered |
| Dispatcher | one sender per event; a second copy only after a failure; nothing unsent counts as sent; no event is given up before its attempts are spent, by one attempt per failed send |
| Scheduler | one job per row; a row is disabled by failures that happened; every due row is served, in order |
| Portal client | a launcher that answered leads to its page, whatever others write into the links meanwhile; a new term is shown in the end |
| Inbox, snapshots | the first population is silent; the body under a portal's number is that message's; a followed student catches up |
| Bubbles | a late render never replaces a newer screen; no loading screen stays; a paper is not sent twice at a time |
| Registration | a registered student has schedules, or the registration is known to have failed |

## 2. The modules

Every module names the code in its head comment, uses the code's names, and has one action for each
piece of code between two suspensions (asyncio) or one statement or transaction (database). Time is
events: a window elapses, a token drips, a claim ages.

**Gateway.** `pc` says where a task is in `acquire()`, its body or `_do_login()`. `Admit`, `Reject` and
`WaitForSlot` are the locked section of `acquire()`, on entry or after a wake-up; `StartLogin`
hands the slot back and queues for a token; `Resume` and `WaitToResume` are `_reacquire_slot()`;
`CancelWait`, `CancelPacing` and `CancelResume` are the cancellation of a delivery by its `wait_for()` at each of these waits (in the body
it is an `Abort`), `Unwind` the cancelled login's second try for its slot; `doubled` is a history: the slots returned twice;
`Succeed`, `Judged`, `Refused`, `Fault` and `Abort` are the ways the body ends and what each records;
`Close` is the `finally` block with its `notify_all`. `Cool` and `Tick` are time.

**JobQueue.** A job and its future are one; `phase` is where it is, `fut` its future, `retry` its retry
task, `inFlight` the map. `RequestNew/RequestJoins` are `enqueue()`, `Take` a worker of one
of the three lanes, `Succeed`, `FailForGood` and `FailAndRetry` the end of a handler with
`_cleanup_dedup`, `RetryNew/Joins/Rejected/Ends` the steps of `_schedule_retry()`, `WaiterTimesOut`
its timeout, `CancelDedup` a cancelled future whose key was freed.

**SessionPool.** Entries are objects; one that nobody refers to is made anew. `Reuse` and `Renew` are the code
up to the lock (resolution, expiry, eviction), `Wake` the lock, `Admitted/Refused` the gateway,
`LoggedIn`, `LoginRejected` and `LoginUnavailable` the login, `WorkDone`, `WarmDone`, `WorkFails`, `SessionLost` and
`Relogin` the job; `LeaseEnds` and `PortalForgets` are time.

**AuthGate.** One account: the row (`password`, `valid`, `version`), the `guard`, the pooled `session`, what the
`portal` accepts, and jobs of four kinds that differ in what they do about a failed login. The
registration is four steps (`Verify`, `StoreCredentials`, `Enable`, `Unquarantine`), any of which may fail.

**FileCache** is the abstract specification of both file caches: an `answer`, a `lease`, and five actions. A lease is
given only while an answer is missing, only under a lease is an answer stored, and every lease ends.

**QPaper.** One row of the paper cache and the requests for it. The recursion of the code is a tail recursion inside
`async with`, so a request is a place and the permits it still has to give back. `LockAges` is the
clock; `Reap`, `CatalogLists`, `AdminReset` and `Restart` are the other writers. `ImplementsCache` maps the row to `FileCache`.

**Attachment.** One row of the attachment cache, with the handler around it: `FindRow` and `InsertRow` are the first tap's insertion
against another's, `Poll` and `WaitTimeout` the wait for another's download, `TimedOut` the handler's `wait_for()`, which cancels
the request wherever it is. It implements the same `FileCache`.

**Portal** (with **MCPortal** for its plans). The portal's side is `token`, `oldest` (the generations of links it accepts), `term` and each session's `context`;
`links` and `hint` are the two caches of the process. A job is the place it has reached and the links it carries. `Start`, `Login`,
`LoginFails` and `Seed` get a session; `WarmPath`, `Peek`, `Resolve`, `Launch`, `LaunchFails`, `Home`, `Launcher` and `StorePair` are the way to a page (a thread
reads the launcher's page, so that other tasks run before `StorePair`); `PageGet`, `Scrape`, `FormGet`, `Search`, `Detail`, `Post` and `Dashboard` the work there; `Breaks` and `Retry` its
failures. `Expires`, `Fails` and `Aborts` say what each kind of job does with the three classes of exceptions. `shaken` is a
history: the portal withdrew something since it last answered a launcher of that session.

**Screens.** `Row` is a table of the bot's screens by the few shapes their handlers have, `Job` one of what their jobs do about drawing. A tap is a
place in its handler; `Claim`, `DrawIfHeld` and `DrawAnyway` are `surface.py` and the direct `edit_text()`; `Forget` is the registry at
its limit. `claimant`, `strayed`, `abandoned` and `lapsed` are histories that name the cases in which the code leaves a tap without an answer.

**Student.** One student's rows. A registration is `Commit`, two schedules, `EnableLogins` and `EnqueueOnboarding`, each of which may fail
(`FailRegistration`); a sync is `FetchList`, `FetchDetails` and the transaction `PersistInbox`; `FetchBody` and `StoreBody` open a notice by its token or by its
place in the list; `SaveMarks` stores an attendance snapshot. `PortalId` is the parser's identity of a listed row: the number in its token, or
one made up from what the row shows, for a row without a token and for one whose token does not decode (`Opaque`, `parser.py:643`). An opening
by place may end without an address that holds a token (`real = 0`, `job_handlers.py:842`), or with a token that does not decode (`:853`): the
body is then stored and the made-up id kept. `guessed` is a history: the rows that got their body so.

**Dispatcher** (with **MCDispatcher** for its symmetry). The table and the workers: `Claim`, then per
message a send with its outcome, then a mark per event (`Marked`, `Ticks`). `MarkRaises` is a mark that raises before its commit or after
it; then, as after `SendRaises`, the exception handler releases the events of the message one by one (`ReleaseAfter`), the committed ones
too. `Crash`, `ClaimAges`, `Reap` are the rest. `loosened` and `excused` are histories: the events whose claim went away under a worker, and
those whose mark, answer or worker was lost, or whose failure may be counted twice.

**Scheduler.** `due` and `ahead` are the order of `next_sync_at`; `claimed`, `failures` and `disabled` the row;
`job[u]` a job or the loop itself writing an outcome: the failures are read (`ReadFailures`) and written
(`Written`) in two actions, as the code does. `failed` is a history: the failures that happened since the
row was armed, or `None` once a claim went away under its writer.

`Student` composes the registration with the inbox sync, the snapshots and the outbox's input, `Screens` the handlers with the
rate limiter and the registry of bubbles, `Portal` the client with the retries of the services. Beyond that the
modules share no variables. Where one component meets another, the other is its environment:
the pool sees a gateway that admits or refuses, the quarantine sees two workers because the
pool lets the waiters of a dropped entry run beside the new one, the scheduler sees a queue that
accepts, refuses and retries.

## 3. The runs

`Student` and `Scheduler` are proved about in one module, and so are `Screens` and `JobQueue`, since the jobs are common to both;
that is why some names of `Student` and `Screens` carry the module's name (`StudentNext`, `ScreensTypeOK`), and a screen's job
is in `flight`. `Attachment` has the names of `QPaper`, so that one proof module can take it as an instance.

Each run is a module and a `.cfg`; every action of every module fires in some passing run, and every
property of a passing run is violated by a mutant of the code it is about (the operators commented
`Mutant of ...`, listed in `PROJECT.json`). `CHECK_DEADLOCK` is off everywhere, because demand is bounded:
when nobody asks for anything more, nothing happens any more. That nobody waits for ever is a
liveness property instead.

| Run | Bounds | Shows |
|---|---|---|
| `Gateway` | 2 interactive tasks, one of them under a `wait_for()`, and a background task, 2 slots, 1 reserved, 1 token, 5 calls of one login each | slots are conserved up to the double returns of section 6, no lost wake-up, the cap binds, interactive logins first, every call returns |
| `JobQueue` | 1 key, 2 requests, 2 retries, depth 1, 1 cancellation | duplicates join live jobs, single flight, no orphaned future (save a keyed retry's that joined itself), background work rejects no tap, unkeyed jobs are answered |
| `SessionPool` | 2 jobs, 3 users, 4 entries, a pool of 1, which the two jobs exceed, 4 calls | exclusive clients, bounded pool, faults stay in their account, every call ends |
| `AuthGate` | 2 workers, 2 passwords, a registration, a password change, a fault | one notice per version, bounded rejections, no quarantine without a failed login, the guard reaches the row |
| `QPaper` | 3 students and a pre-warm, 2 delivery permits and 1 acquisition permit, permanent after 2, a restart, an intervention | one acquisition, settled answers stay, the row is a `FileCache`, requests are answered |
| `Attachment` | 4 students, 2 delivery permits and 1 acquisition permit, permanent after 2, a restart | the row is a `FileCache`, every tap is answered |
| `MCPortal` | 2 students, 2 tries; six plans of at most one rotation, one term and one fault | reachable pages, the new term is followed |
| `Screens` | 2 taps on any of 18 screens and 2 downloads, 2 bubbles | the last tap wins, one download, no loading screen stays |
| `Student` | 2 workers, 1 registration as a new user and any number of updates, 2 notices of which 1 with a token, then a third one or an edit; the tokens of the first and third do not decode; 1 body per sync | silent backlog, bodies under their numbers, no half registration, a followed student catches up |
| `MCDispatcher` | 2 dispatchers, 2 events of one user, batch 2, 2 attempts, a fault (an exception before or after a commit, a lost answer, a crash) | exclusive claims, excused duplicates, honest marks, attempts are not burnt |
| `Scheduler` | 2 rows, 2 jobs, batch 1, limit 2, 1 retry, a fault | one job per row, disabled by real failures, due rows are served in order |
| `GatewayLostProbe` | 3 tasks, 2 slots, threshold 1 | a violation, see 6 |

Further configurations repeat an experiment by hand and are not among the runs: `JobQueueDepth` (4 requests and all lanes, the
depth never exceeds twice its cap), `StudentShift` (the safety of `Student` with 3 notices and a fourth, so that a place without a token
comes to mean another notice, whose number the row then takes) and the counterexamples `JobQueueKeyedRetry`, `AuthGateExam`, `QPaperJam`, `ScreensSlowNote` and
`StudentOldNotice` of section 6. The type invariants, and the invariants that only a proof shows (`NoIdleToken`, `PooledIsOpen`,
`DepthBounded`), are not in the runs either: TLC checked them once at the bounds above, and the
proofs cover them.

**Why these bounds.** They are the smallest at which every contention can happen: one slot fewer than
tasks; a cap that can shrink to its floor and widen again; a job with a retry after a
retry, beside another one; more users than pooled sessions, so that evictions happen while both
jobs hold locks, and more jobs than the pool's size, so that what holds it down is the eviction and not the number of jobs; an entry for each job, one pooled and one just dropped; two workers, because
the waiters of a dropped entry run beside the new one; more requests than permits,
and one acquirer overtaken by another; two events of one user, the smallest digest, and two
dispatchers; a batch smaller than the backlog, so that order and starvation matter, and a second
failure that disables; as many deliveries stuck behind a rejected attachment as there are permits, and one tap
more; a session that used the old links while another seeds the new ones; two taps, since a claim concerns the newest and one that it overtook,
and two bubbles, since jobs are joined across them; a notice with a token and one with a place only, a third that takes the first one's token from it, or an edit
of a notice whose token does not decode, and two workers, so that
syncs, openings and registrations overlap in pairs. Rows, papers, accounts and events share nothing but what is in the module.
A fault is any one of those the code handles (a failing transaction, a restart, a lost answer, a
full queue, an open circuit); two of them at once were run for `Scheduler`'s safety and found
nothing new. What the bounds cannot show, the proofs of section 5 do.

**Names of the bounds.** `Demand` (calls), `MaxRequests`, `MaxCancels`, `MaxLogins`, `Registrations`,
`Changes`, `Faults`, `Restarts`, `Interventions`, `Events`, `Jobs` (at once), `Taps`, `Bubbles`, `Standing`, `MaxNotices` (with the edits), `MaxEdits`, `MaxUsers` and `Plans`
(the jobs of each student, and how often the portal rotates, opens a term and misbehaves) bound the environment. All other
constants are the program's own parameters (slots, permits, limits, batch sizes), made small.
Counters that only a threshold reads stop at the threshold.

## 4. Fairness

Only what the runtime does by itself is fair.

* *asyncio runs ready tasks*: weak fairness of each task's next step. Locks, conditions and semaphores
  of asyncio wake waiters in order, and the models keep those queues where the order matters.
* *I/O ends*: the HTTP client and the Telegram client have timeouts, so a login, a scrape or a send ends,
  with some outcome; which one is never fair.
* *Time passes*: a token drips, a claim ages, a wait times out, the reaper and the scheduler's loop come round
  again, an open circuit cools. In `Scheduler` the last one assumes that no probe is lost: the real
  gateway may lose one (`GatewayLostProbe`), and then no row is served any more.
* *The scheduler enqueues an account's syncs again and again*: strong fairness of the sync's `Load` in `AuthGate`,
  for a row that is valid only from time to time.
* *A sync of the inbox succeeds now and then*: strong fairness of each step of a scheduled sync in `Student`; the scheduler queues
  them for ever, and the portal does not fail all of them.
* *The attendance is asked for again and again, hours apart*: in `Portal`, strong fairness of `Start(s, "attendance")`, and of the end of a hint's TTL of
  45 minutes while its student has no job. Without the second a student who refreshes within every TTL keeps an old term for ever (section 6).
* *Screens*: weak fairness of every handler and of every job's end, with whatever outcome; `wait_for()` ends a wait. No cooldown, poke or
  eviction is fair.
* *FileCache*: weak fairness of `Settle`. `QPaper` and `Attachment` discharge it by their own fairness, of the reaper and the
  clock, so the refinement shows that claims end.
* Nobody has to tap, register or restart anything, and no fault has to happen.

## 5. The proofs

`GatewayProofs`, `JobQueueProofs` (with `Screens`), `SessionPoolProofs`, `AuthGateProofs`, `QPaperProofs` (with `Attachment`), `PortalProofs`,
`DispatcherProofs` and `SyncProofs` (`Scheduler` and `Student`) prove, for every value of the constants that the modules' assumptions admit,
type correctness of every module and every safety property that a run checks, listed below. The assumptions say that sets are finite, bounds are numbers, limits are
positive where the code divides or counts by them, and that names do not coincide. Each proof has the same
shape: `Init => IInv`, `IInv /\ [Next]_vars => IInv'` with a lemma per action or group of actions, then the
property from `IInv`. Every `IInv` was first checked with TLC.

| Module | Proved | The invariant, and why it is needed |
|---|---|---|
| Gateway | `SlotConservation`, `NoLostWakeup`, `NoIdleToken`, `AdmissionRespectsCap`, `PacePriority` | the three invariants and the type: a slot is counted by each task that holds one, but for one per login cancelled while it resumed; the wake-up needs that whoever makes room is still to run its `finally`, or notifies itself; a step of the pacing queue either appends to it, serves its first interactive login or else its first, or loses a cancelled one |
| JobQueue | `DepthBounded`, `TapAdmitted`, `JoinsLiveJob`, `AnsweredOnce`; `SingleFlight`, `PendingIsAlive` | background jobs alone hold at most `MaxDepth`; what is registered under a key was enqueued under it and, while pending, is alive or has joined itself; a retry sleeps only for a job that is over. A second invariant holds while nothing has been cancelled: the map names every pending job with a key, so two of one key would be the same, and a retry task awaits the next attempt, without a key, or its own future, with one |
| Screens | `LastTapWins`, `OneDownload` | a claim's tap is still acting, or a running job carries its screen, or the tap is given up; whoever draws without it strays and is named. A registered download excludes others; before it is registered its cooldown does |
| SessionPool | `ClientExclusive`, `PooledIsOpen`, `PoolBounded`, `ClosedByOwnFault` | a job in the critical part holds its entry's lock; an entry in use has an owner, so that a drop by user id hits an entry of the same account; sessions that cannot be evicted are held by jobs, each by one of its own |
| AuthGate | `NoticePerVersion`, `QuarantineHasGrounds`, `RejectionsBounded` | rejections and the jobs that may still cause one are bounded together, by the gateway while the guard is open and by a scrape's own login while the row is; each version buys one flip of the row: notices, notices to come and a valid row add up to at most the version; a guard, an invalid row or a job about to record has met a failed login |
| QPaper | `OneAcquisition`, `TerminalStays`, and `RefinesCache` (every step is one of `FileCache` or a stutter) | an acquirer that nobody overran holds a fresh lock, alone; a request meets a stale file at most once, so it needs at most two permits. Held and free permits add up (`PermitsConserved`), since a permit is taken one at a time and given back all at once |
| Attachment | `TypeOK`, and that every step is one of `FileCache` or a stutter | the shape of the row is enough for the refinement; the types need that the permits add up and that a request which recovers from a rejected file holds one permit and no acquisition |
| Portal | `PageReachable`, `Paired` | no cached sub-page is older than the launcher beside it, and the same of what a job carries between its suspensions: a launcher the portal still accepts then vouches for its sub-page. No login breaks a pair, because a seed writes only where no launcher is |
| Scheduler | `OneJobPerRow`, `DisabledAfterFailures` | a row whose claim was never gone under a writer has one writer, which holds the claim; its failures in the table, and those a writer has read, are no more than those that happened |
| Dispatcher | `ClaimExclusive`, `DuplicatesExcused`, `SentWasShown`, `GivenUpAfterTries` | the messages of a worker are disjoint; an event nobody loosened has one holder, with a fresh claim on a pending row; a delivered one is settled, or its mark is the worker's next step; counted attempts and those still to be counted, of the whole message where a failing mark may release it, are no more than the sends |
| Student | `BacklogIsSilent`, `BodyOfItsId`, `NoHalfRegistration` | every page a sync carries shows the backlog, so the first one stored brings all of it that has a number, and a later first sync is the overlap; a row that is no guess and has a token has its own, also while it is opened; a guess has a body and a made-up id, so that it is not opened again; a place that told a number gave the row that number; schedules are missing only under a registration that still makes them |

Proving `RejectionsBounded` found an error in it: with more workers than the run has, more rejected logins fit between the two parts of
`on_credentials_updated()`, when the row is open and the guard still shut, than the earlier bound of two per worker and fault
allowed. The bound is now what the code guarantees, and is commented where it is defined.

Model-checked only: liveness (`EveryCallReturns`, `UnkeyedAnswered`, `EveryCallEnds`, `GuardReachesRow`,
`EveryRequestAnswered`, `EveryTapAnswered`, `BubbleSettles`, `Converges`, `FollowsTerm`, `DueServed`, and the fairness of `FileCache` in both
`ImplementsCache`), which needs fairness and `ENABLED`, beyond the reach of the prover.

## 6. What the code does otherwise than it says

One disagreement is a run, in which TLC finds a counterexample:

* **A probe is lost** (`GatewayLostProbe`). `acquire()` marks the probe before it waits for a slot; woken, the caller is
  refused by its own mark (`gateway.py:191`), outside the block that would clear it. The circuit stays
  half-open until a restart. `gateway.py:273` promises that it "can never deadlock on a lost probe".

Five more have a configuration that repeats the counterexample:

* **A keyed retry waits for itself** (`JobQueueKeyedRetry`). `_schedule_retry()` enqueues under the key that still
  names the failed job's future and is handed that future (`job_queue.py:389`). `JoinsLiveJob` and `PendingIsAlive` name this case
  (`SelfJoined`) and exclude every other way to a future that nobody settles.
* **An outage quarantines** (`AuthGateExam`). The exam seating handlers catch `LoginUnavailableError` together with
  `LoginError` (`exam_seating_service.py:368`); `auth_gate.py:18` forbids it.
* **Deliveries jam** (`QPaperJam`). A request that recovers a stale file asks for a second permit of the semaphore whose
  permit it holds (`qpaper_service.py:279`); as many of these as there are permits wait for ever.
* **A note over a refusal** (`ScreensSlowNote`). The poke of a search that was refused for its cooldown is not stopped and draws "slow" over
  the refusal; `surface.py` says that a note "can never overwrite a finished render".
* **An old notice's body** (`StudentOldNotice`). A notice without a token is opened by the place it had when it was listed
  (`job_handlers.py:813`); when others have appeared since, the body of another one is stored in its row. The row then takes that notice's
  number as well, if the answer tells one; if it is no redirect (`:842`), or its token does not decode (`:853`), the other notice's body
  stays under the made-up id of the tapped one. `BodyOfItsId` says what is left: the body under a portal's number is that message's.
  `inbox.py:76` promises that a stored body is fresh.

Others were met while modelling and are in the models as the code has them, without a run:

* Gateway: two probes may be in flight, since an old one clears the flag of the current one; a probe that
  fails for a reason of the bot's own records nothing; a refusal made locally closes the circuit; a login resumed
  after pacing does not look at the circuit again. A delivery whose `wait_for()` (`inbox.py:646`) ends while its login waits in
  `_reacquire_slot()` returns its slot twice (`gateway.py:402-405`, `268-270`): `active_requests` then counts one task too few, for
  good or until `_release_slot()` meets a counter that is not positive, and one task more than the cap is admitted.
  `SlotConservation` says that this is the only way, once per such call. Cancelled in the admission wait, a probe is lost as in `GatewayLostProbe`.
* Job queue: a request that joins a cancelled future gets the cancellation; a timed-out waiter
  loses the answer of a job that still runs.
* Session pool: a waiter of a dropped entry may drop the account's new one under a running job, which
  `ClosedByOwnFault` admits, since both are the same account's; the warmer's no-op extends the lease of a session the portal
  has forgotten.
* Quarantine: scrapes log in again by themselves, around the guard; an old password's rejection may quarantine
  fresh credentials; `credentials_version` is written and never read; the exam handlers' notice raises a
  `TypeError` and is not sent.
* Papers: the reset of a stale file is unconditional and may drop a good file or a negative answer that was cached
  meanwhile (`TerminalStays` excuses exactly that step); the marks do not look at `acquired_by`; a student without credentials leaves the row in progress
  for five minutes; the lock ages while its owner queues for the acquisition semaphore.
* Attachments: the recovery from a rejected file is as in the papers, and the handler's timeout is what ends a jam; a request
  cancelled there leaves its row in progress until the reaper.
* Portal: a wrong or stale hint does not "degrade gracefully" (`client.py:132`): an old term's table passes every check, and each scrape
  stores the hint with a new TTL; the hints of the dates are kept by subject, for all students. "Don't count this
  against MAX_RETRIES" (`attendance_service.py:120`) is followed by a `continue` that does count, so a new login on the last attempt
  is in vain. A search swallows an expired session, reports no records and leaves the dead session in the pool. The visit
  of the dashboard that ends a login raises an untyped error. A new login that fails for an outage leaves the pool's entry warm, with its cookies gone.
* Inbox: two first syncs that straddle an arrival may announce a notice of the backlog (`BacklogIsSilent` names the case); a
  notice that leaves the dropdown gets a made-up id and a second row, whose body is fetched and refused again and again; an edit of a notice
  without a token is a new, silent row, and one of a notice whose token does not decode is announced as a new message (`BacklogIsSilent` names it); a body fetched before an edit may be stored after the wipe; the first message of an inbox that was empty at
  registration is silent, and so are arrivals that an onboarding queued by `/forgot` swallows.
* Registration: after the commit a failing step reports "a database error", though the student is registered; a
  failure to lift the quarantine is logged only.
* Screens: the Refresh buttons of the exam screens call a method that does not exist and draw nothing; a tap that joins another's job
  leaves its own bubble loading, unless it waits itself; one caller's timeout cancels everybody's wait (`papers.py:209`); a refresh of the
  dates that a background job has begun draws nothing; the timetable's "Syncing" may be drawn over its result.
* Dispatcher: "Atomic claim prevents duplicate sends across processes" holds only until a claim goes stale; the handler
  of a failing digest releases events already marked or taken by another, and counts a failure twice; so does the handler of a single
  event, if its release (`event_dispatcher_service.py:552`) commits and then raises; an event whose formatting raises is retried for ever. `ClaimExclusive`, `DuplicatesExcused` and `GivenUpAfterTries` say what is left.
* Scheduler: "release the claim for retry next cycle" in fact counts a failure and waits a backoff; the rest of a
  batch stays claimed after a refusal; an outage counts towards the five failures that disable a row until
  the student registers again; `on_credentials_updated()` re-arms disabled rows only (`auth_gate.py:178`), so the failures of a row
  that is not yet disabled survive new credentials; the handler of `NitrisCircuitOpenError` is dead, as `enqueue()` never raises it.

## 7. What is left out

* Of modelled modules: metrics, logging, texts; the process's start and stop (`start()`, `stop()`, `drop_all_sessions()`); the
  size of delays and backoffs; scheduler rows of modules without a sync handler, which are due in ten years; the
  order in which a dispatcher sends its messages; what a sync fetches and stores.
* Of the client: form and view state, the navigation of the calendar, room layouts, the download of attachments. A login
  that the portal rejects is `AuthGate`'s, a session that several jobs want is `SessionPool`'s.
* Of the handlers: the search dialogue, the admin screens, the middlewares, the dialogue of a registration before its password. Of a
  notice: sender, date, read mark, attachments' links. Of a snapshot: which change of a subject makes which event.
* The class-end sync (one more refresh of the attendance, at a predicted time) and the warmer's throttle (one more cooldown).
* For good: the HTTP client, the other parsers (text handling, no shared state), layout,
  retention (it deletes only rows that nobody claims again), the
  user lock (nothing takes it), migrations, configuration, scripts; the pure computations of the academic services, which
  read one record and share nothing.

## 8. Plan

Done: Gateway, JobQueue, SessionPool, AuthGate, QPaper, Dispatcher, Scheduler; then FileCache with its two
implementations, Attachment, Screens, Student and Portal; the proofs of type correctness and of every safety property of all of them.

Next, extending: the class-end sync as a second source of jobs in `Scheduler`; the stop flag of the pre-warm in `QPaper`; two accounts of one
user, one after the other, in `SessionPool` (its entry outlives a change of roll number); the announcement of changed subjects, with snapshots
saved out of order, in `Student`; `Scheduler` over an abstract queue that `JobQueue` implements, which is a refinement worth proving.
