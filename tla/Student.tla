------------------------------- MODULE Student -------------------------------
(***************************************************************************)
(* What the bot keeps of one student: the registration and its steps, the    *)
(* copy of the portal's inbox, the attendance snapshot and the notifications  *)
(* that both put in the outbox (app/bot/handlers/registration.py,             *)
(* app/workers/sync_worker.py, app/services/snapshot_service.py,              *)
(* event_service.py and the inbox handlers of app/nitris/job_handlers.py).    *)
(*                                                                         *)
(* The portal numbers its notices 1, 2, ... as they appear and lists the      *)
(* newest first.  A notice among the first Dropdown of the list comes with a   *)
(* token, and most tokens decode to a stable number; the others only have      *)
(* their place in the list.  Where it finds no number, the parser makes up an   *)
(* identity from what the row shows.                                          *)
(***************************************************************************)
EXTENDS Integers, FiniteSets

CONSTANTS
    Workers,      \* jobs and dialogues that can be under way at once (bound)
    Sweep,        \* the workers that run the scheduler's syncs of the inbox
    Dropdown,     \* how many notices the portal lists with a direct token
    Opaque,       \* the notices whose token does not decode to a number
    DetailLimit,  \* INBOX_SYNC_DETAIL_LIMIT
    Standing,     \* notices on the portal at the start
    MaxNotices,   \* notices the portal ever shows and edits of them, together (bound)
    MaxEdits,     \* edits of notices (bound)
    MaxUsers,     \* registrations as a new user (bound)
    NoBody        \* a stored notice has no body

ASSUME StudentBounds ==
    /\ {Dropdown, DetailLimit, Standing, MaxNotices, MaxEdits, MaxUsers}
           \subseteq Nat
    /\ Opaque \subseteq 1 .. MaxNotices
    /\ NoBody \notin (1 .. MaxNotices) \X (1 .. MaxEdits + 1)
    /\ Sweep \subseteq Workers /\ Standing <= MaxNotices

VARIABLES
    top, edition,          \* the portal: its newest notice, and the edition of each
    user, uids,            \* users: the id of the student's row or 0, the ids given out
    valid,                 \* users.credentials_valid
    schedules,             \* module_sync_schedule: the modules with a row
    inbox,                 \* inbox_messages: portal_message_id -> row
    snapshot,              \* whether an attendance snapshot is stored
    told, flooded,         \* events: notices announced as new, and whether another sync had
                           \* filled the empty inbox meanwhile; a subject announced as new
    onboarding,            \* the users whose sync_onboarding job is queued
    work,                  \* what each worker is doing
    backlog, broken        \* history: notices at the registration; it failed before the
                           \* schedules were in place

portal == <<top, edition>>
account == <<user, uids, valid, schedules>>
outbox == <<told, flooded>>
history == <<backlog, broken>>
studentVars == <<portal, account, inbox, snapshot, outbox, onboarding, work, history>>

Notices == 1 .. MaxNotices
Modules == {"attendance", "inbox"}
Idle == [job |-> "idle"]
Doing(w, job, at) == work[w].job = job /\ work[w].at = at
Becomes(w, task) == work' = [work EXCEPT ![w] = task]
Ends(w) == Becomes(w, Idle)
Mine(w) == user = work[w].uid       \* the row a job writes to still exists

-----------------------------------------------------------------------------
(* The portal's page of messages, as it was read: list.top, list.edition.     *)

Listed(list) == 1 .. list.top
Place(list, n) == list.top - n + 1
Direct(list, n) == Place(list, n) <= Dropdown
\* extract_message_id: the number in the message's own token.
Decodes(n) == n \notin Opaque
\* The number in the token, or a digest of what the row shows, without a token
\* and for one that does not decode: edited, such a row is another message.
PortalId(list, n) == IF Direct(list, n) /\ Decodes(n) THEN <<n, 0>>
                     ELSE <<n, list.edition[n]>>
\* A message's own token, or "postback:" with a place in the list.
Token(list, n) == IF Direct(list, n) THEN <<"message", n>> ELSE <<"place", Place(list, n)>>
Header(list, n) == <<n, list.edition[n]>>

-----------------------------------------------------------------------------
(* The environment: the portal publishes and edits notices.                   *)

Edits == Cardinality({m \in Notices \X (1 .. MaxEdits) : m[2] < edition[m[1]]})

Publish == /\ top + Edits < MaxNotices
           /\ top' = top + 1
           /\ UNCHANGED <<edition, account, inbox, snapshot, outbox, onboarding, work,
                          history>>

Edit(n) == /\ n <= top
           /\ Edits < MaxEdits /\ top + Edits < MaxNotices
           /\ edition' = [edition EXCEPT ![n] = @ + 1]
           /\ UNCHANGED <<top, account, inbox, snapshot, outbox, onboarding, work, history>>

-----------------------------------------------------------------------------
(* Jobs.  Each reads the user and the credentials before it takes a session.   *)

Start(w, job) ==
    /\ work[w] = Idle
    /\ user # 0 /\ valid
    /\ Becomes(w, job)
    /\ UNCHANGED <<portal, account, inbox, snapshot, outbox, history>>

Sync(quiet) == [job |-> "sync", at |-> "list", uid |-> user, quiet |-> quiet]
Attendance == [job |-> "marks", at |-> "fetch", uid |-> user]

\* The scheduler's sync, for a student with a schedule.
SyncInbox(w) == /\ w \in Sweep /\ "inbox" \in schedules
                /\ Start(w, Sync(FALSE))
                /\ UNCHANGED onboarding

\* The student's Refresh buttons and the retries of an onboarding; the scheduler's
\* sync of the attendance differs from a refresh in nothing that is modelled.
RefreshInbox(w) == w \notin Sweep /\ Start(w, Sync(FALSE)) /\ UNCHANGED onboarding
RefreshAttendance(w) == w \notin Sweep /\ Start(w, Attendance) /\ UNCHANGED onboarding

\* The silent first sync that a registration queues.
Onboard(w) == /\ w \notin Sweep /\ user \in onboarding
              /\ Start(w, Sync(TRUE))
              /\ onboarding' = onboarding \ {user}

\* Its user is gone, or its credentials are marked invalid.
OnboardRefused == /\ \E u \in onboarding : (u # user \/ ~valid) /\ onboarding' = onboarding \ {u}
                  /\ UNCHANGED <<portal, account, inbox, snapshot, outbox, work, history>>

\* A notice without a stored body is opened; one fetch per notice at a time.
OpenNotice(w, id) ==
    /\ w \notin Sweep
    /\ inbox[id].body = NoBody
    /\ \A v \in Workers : work[v].job = "open" => work[v].id # id
    /\ Start(w, [job |-> "open", at |-> "fetch", uid |-> user, id |-> id,
                 token |-> inbox[id].token])
    /\ UNCHANGED onboarding

\* The portal or the database fails under a job, or its session expires twice.
Fail(w) == /\ work[w].job \in {"sync", "marks", "open"}
           /\ Ends(w)
           /\ UNCHANGED <<portal, account, inbox, snapshot, outbox, onboarding, history>>

\* The portal rejects the stored password: on_login_failure marks it invalid.  The
\* onboarding takes the rejection for a failed scrape.
RejectLogin(w) == /\ Doing(w, "sync", "list") \/ Doing(w, "marks", "fetch")
                        \/ Doing(w, "open", "fetch")
                  /\ valid' = (valid /\ ~(Mine(w) /\ (work[w].job = "sync" => ~work[w].quiet)))
                  /\ Ends(w)
                  /\ UNCHANGED <<portal, user, uids, schedules, inbox, snapshot, outbox,
                                 onboarding, history>>

-----------------------------------------------------------------------------
(* A sync of the inbox: the network phase, then one transaction under the      *)
(* student's advisory lock.                                                  *)

\* An empty list ends the sync: nothing is written.
FetchList(w) ==
    /\ Doing(w, "sync", "list")
    /\ IF top = 0 THEN Ends(w)
       ELSE Becomes(w, [job |-> "sync", at |-> "details", uid |-> work[w].uid,
                        quiet |-> work[w].quiet, first |-> DOMAIN inbox = {},
                        list |-> [top |-> top, edition |-> edition]])
    /\ UNCHANGED <<portal, account, inbox, snapshot, outbox, onboarding, history>>

\* The bodies of listed notices with a token that are not stored: at most
\* DetailLimit, and those whose fetch failed are left out.
FetchDetails(w) ==
    /\ Doing(w, "sync", "details")
    /\ LET list == work[w].list
           stored == IF Mine(w) THEN DOMAIN inbox ELSE {}
           missing == {n \in Listed(list) : Direct(list, n) /\ PortalId(list, n) \notin stored}
       IN \E got \in SUBSET missing :
              /\ Cardinality(got) <= DetailLimit
              /\ Becomes(w, [job |-> "sync", at |-> "save", uid |-> work[w].uid,
                             quiet |-> work[w].quiet, first |-> work[w].first, list |-> list,
                             bodies |-> [n \in got |-> <<n, edition[n]>>]])
    /\ UNCHANGED <<portal, account, inbox, snapshot, outbox, onboarding, history>>

\* A row that was not stored; without a body it is fetched when it is opened.
NewRow(list, n, bodies) ==
    [header |-> Header(list, n), token |-> Token(list, n), guessed |-> FALSE,
     body |-> IF Direct(list, n) /\ n \in DOMAIN bodies THEN bodies[n] ELSE NoBody]

\* A plausible bug: a stored row is left as it is, whatever the portal shows now.
KeepStored(row, list, n) == [row EXCEPT !.token = Token(list, n)]

\* A stored row: another subject wipes the body.  Its announcement is left out.
Resynced(row, list, n) ==
    IF row.header = Header(list, n) THEN [row EXCEPT !.token = Token(list, n)]
    ELSE [header |-> Header(list, n), token |-> Token(list, n), guessed |-> FALSE, body |-> NoBody]

\* A plausible bug: only the onboarding's sync is silent.
SilentWhenAsked(quiet) == quiet

\* The first population of an inbox is silent, whoever makes it.
Silent(quiet) == quiet \/ DOMAIN inbox = {}

PersistInbox(w) ==
    /\ Doing(w, "sync", "save")
    /\ IF Mine(w)
       THEN LET list == work[w].list
                ids == {PortalId(list, n) : n \in Listed(list)}
                new == ids \ DOMAIN inbox     \* read again, under the lock
            IN /\ inbox' = [id \in DOMAIN inbox \union ids |->
                               IF id \in new THEN NewRow(list, id[1], work[w].bodies)
                               ELSE IF id \in ids THEN Resynced(inbox[id], list, id[1])
                               ELSE inbox[id]]
               /\ told' = told \union
                      IF Silent(work[w].quiet) THEN {}
                      ELSE {[notice |-> id[1], overlap |-> work[w].first /\ DOMAIN inbox # {}] :
                               id \in {i \in new : Direct(list, i[1])}}
       ELSE UNCHANGED <<inbox, told>>         \* no such user: rolled back
    /\ Ends(w)
    /\ UNCHANGED <<portal, account, snapshot, flooded, onboarding, history>>

-----------------------------------------------------------------------------
(* Opening a notice: its token, or the place it had when it was last listed.  *)

\* real is the message whose token the address of the page holds, or 0: the
\* answer to a postback need not be a redirect, and a token's page is not looked at.
FetchBody(w) ==
    /\ Doing(w, "open", "fetch")
    /\ LET token == work[w].token
           n == IF token[1] = "message" THEN token[2] ELSE top - token[2] + 1
       IN \E real \in IF token[1] = "message" THEN {0} ELSE {0, n} :
              Becomes(w, [job |-> "open", at |-> "store", uid |-> work[w].uid, id |-> work[w].id,
                          token |-> token, real |-> real, body |-> <<n, edition[n]>>])
    /\ UNCHANGED <<portal, account, inbox, snapshot, outbox, onboarding, history>>

\* The row that a fetched body makes of a stored one.  History: a place that told no
\* number leaves it a guess, and so does the token it told.
Opened(row, task, numbered) ==
    [row EXCEPT !.body = task.body,
                !.token = IF task.real = 0 THEN @ ELSE <<"message", task.real>>,
                !.guessed = IF task.token[1] = "place" THEN ~numbered ELSE @]

\* A plausible bug: the token and the body are stored and the made-up id is kept.
StoreBodyKeepsId(w) ==
    /\ Doing(w, "open", "store")
    /\ LET numbered == work[w].real # 0 /\ Decodes(work[w].real)
       IN inbox' = IF Mine(w) /\ work[w].id \in DOMAIN inbox
                   THEN [inbox EXCEPT ![work[w].id] = Opened(@, work[w], numbered)]
                   ELSE inbox
    /\ Ends(w)
    /\ UNCHANGED <<portal, account, snapshot, outbox, onboarding, history>>

\* The token that a place told is stored with the body, and if it decodes so is its
\* number; a second row with that number is refused by the unique index, and
\* nothing is stored.
StoreBody(w) ==
    /\ Doing(w, "open", "store")
    /\ LET id == work[w].id
           numbered == work[w].real # 0 /\ Decodes(work[w].real)
           found == IF numbered THEN <<work[w].real, 0>> ELSE id
       IN IF Mine(w) /\ id \in DOMAIN inbox /\ (found = id \/ found \notin DOMAIN inbox)
          THEN inbox' = [i \in (DOMAIN inbox \ {id}) \union {found} |->
                            IF i = found THEN Opened(inbox[id], work[w], numbered) ELSE inbox[i]]
          ELSE inbox' = inbox
    /\ Ends(w)
    /\ UNCHANGED <<portal, account, snapshot, outbox, onboarding, history>>

-----------------------------------------------------------------------------
(* Attendance: create_snapshot_if_changed, under its own advisory lock.  What   *)
(* the page says is left out: only whether there is an earlier snapshot matters. *)

\* Without an earlier snapshot every subject is announced as new.
SaveMarks(w) ==
    /\ Doing(w, "marks", "fetch")
    /\ IF Mine(w)
       THEN /\ snapshot' = TRUE
            /\ flooded' = (flooded \/ ~snapshot)
       ELSE UNCHANGED <<snapshot, flooded>>
    /\ Ends(w)
    /\ UNCHANGED <<portal, account, inbox, told, onboarding, history>>

-----------------------------------------------------------------------------
(* Registration, and the update of the credentials by /forgot: the password is  *)
(* verified and the attendance fetched, the user row and the first snapshot are  *)
(* committed together, and then come steps of their own.                        *)

Register(w) ==
    /\ w \notin Sweep /\ work[w] = Idle
    /\ user # 0 \/ uids < MaxUsers
    /\ Becomes(w, [job |-> "register", at |-> "commit"])
    /\ UNCHANGED <<portal, account, inbox, snapshot, outbox, onboarding, history>>

CommitNew(w) ==
    /\ Doing(w, "register", "commit") /\ user = 0 /\ uids < MaxUsers
    /\ user' = uids + 1 /\ uids' = uids + 1
    /\ valid' = TRUE
    /\ snapshot' = TRUE       \* the baseline: no event
    /\ backlog' = top /\ broken' = FALSE
    /\ Becomes(w, [job |-> "register", at |-> "schedule attendance", uid |-> user'])
    /\ UNCHANGED <<portal, schedules, inbox, outbox, onboarding>>

\* A plausible bug: schedules are made for new users only.
UpdateWithoutSchedules(w) ==
    /\ Doing(w, "register", "commit") /\ user # 0
    /\ snapshot' = TRUE /\ broken' = FALSE
    /\ Becomes(w, [job |-> "register", at |-> "enable", uid |-> user])
    /\ UNCHANGED <<portal, account, inbox, outbox, onboarding, backlog>>

CommitUpdate(w) ==
    /\ Doing(w, "register", "commit") /\ user # 0
    /\ snapshot' = TRUE
    /\ broken' = FALSE
    /\ Becomes(w, [job |-> "register", at |-> "schedule attendance", uid |-> user])
    /\ UNCHANGED <<portal, account, inbox, outbox, onboarding, backlog>>

Commit(w) == CommitNew(w) \/ CommitUpdate(w)

\* ensure_schedule_exists, twice; a row for a deleted user is refused.
Schedule(w, module, next) ==
    /\ work[w].job = "register" /\ Mine(w)
    /\ schedules' = schedules \union {module}
    /\ Becomes(w, [work[w] EXCEPT !.at = next])
    /\ UNCHANGED <<portal, user, uids, valid, inbox, snapshot, outbox, onboarding, history>>
ScheduleAttendance(w) == /\ Doing(w, "register", "schedule attendance")
                         /\ Schedule(w, "attendance", "schedule inbox")
ScheduleInbox(w) == /\ Doing(w, "register", "schedule inbox")
                    /\ Schedule(w, "inbox", "enable")

\* on_credentials_updated: its database error is logged, and the registration goes on.
EnableLogins(w) ==
    /\ Doing(w, "register", "enable")
    /\ valid' \in {valid, valid \/ Mine(w)}
    /\ Becomes(w, [work[w] EXCEPT !.at = "enqueue"])
    /\ UNCHANGED <<portal, user, uids, schedules, inbox, snapshot, outbox, onboarding, history>>

EnqueueOnboarding(w) ==
    /\ Doing(w, "register", "enqueue")
    /\ onboarding' = onboarding \union {work[w].uid}
    /\ Ends(w)
    /\ UNCHANGED <<portal, account, inbox, snapshot, outbox, history>>

Scheduling(w) == work[w].job = "register" /\ work[w].at \in {"schedule attendance", "schedule inbox"}

\* Before the commit the student is asked again.  After it a failed step, or a full
\* queue, ends the registration with "a database error"; the row stays.
FailRegistration(w) ==
    /\ work[w].job = "register"
    /\ broken' = (broken \/ (Scheduling(w) /\ schedules # Modules))
    /\ Ends(w)
    /\ UNCHANGED <<portal, account, inbox, snapshot, outbox, onboarding, backlog>>

\* Deregistration: the row and everything that hangs on it.
Deregister ==
    /\ user # 0
    /\ user' = 0 /\ valid' = FALSE /\ schedules' = {}
    /\ inbox' = [id \in {} |-> NoBody] /\ snapshot' = FALSE
    /\ told' = {} /\ flooded' = FALSE /\ broken' = FALSE /\ backlog' = 0
    /\ UNCHANGED <<portal, uids, onboarding, work>>

-----------------------------------------------------------------------------
StudentInit ==
    /\ top = Standing /\ edition = [n \in Notices |-> 1]
    /\ user = 0 /\ uids = 0 /\ valid = FALSE /\ schedules = {}
    /\ inbox = [id \in {} |-> NoBody] /\ snapshot = FALSE
    /\ told = {} /\ flooded = FALSE /\ onboarding = {}
    /\ work = [w \in Workers |-> Idle]
    /\ backlog = 0 /\ broken = FALSE

Environment == Publish \/ \E n \in Notices : Edit(n)

Starts(w) ==
    \/ SyncInbox(w) \/ RefreshInbox(w) \/ RefreshAttendance(w)
    \/ Onboard(w) \/ Register(w)
    \/ \E id \in DOMAIN inbox : OpenNotice(w, id)

Proceeds(w) ==
    \/ FetchList(w) \/ FetchDetails(w) \/ PersistInbox(w)
    \/ FetchBody(w) \/ StoreBody(w)
    \/ SaveMarks(w)
    \/ Commit(w) \/ ScheduleAttendance(w) \/ ScheduleInbox(w)
    \/ EnableLogins(w) \/ EnqueueOnboarding(w)
    \/ Fail(w) \/ RejectLogin(w) \/ FailRegistration(w)

StudentNext ==
    \/ Environment \/ OnboardRefused \/ Deregister
    \/ \E w \in Workers : Starts(w) \/ Proceeds(w)

\* The scheduler keeps queueing its jobs, and the portal does not fail all of them:
\* every step of a scheduled sync that keeps being possible is taken.
Fairness == \A w \in Sweep :
    /\ SF_studentVars(SyncInbox(w)) /\ SF_studentVars(FetchList(w))
    /\ SF_studentVars(FetchDetails(w)) /\ SF_studentVars(PersistInbox(w))

StudentSpec == StudentInit /\ [][StudentNext]_studentVars /\ Fairness

-----------------------------------------------------------------------------
Ids == {<<n, e>> : n \in Notices, e \in 0 .. MaxEdits + 1}
Editions == {<<n, e>> : n \in Notices, e \in 1 .. MaxEdits + 1}
Tokens == {"message", "place"} \X Notices

\* The ranges of the variables: an inbox is a partial function from portal ids to
\* rows, a stored token that of a message or a place in the list.
StudentTypeOK ==
    /\ top \in 0 .. MaxNotices /\ edition \in [Notices -> 1 .. MaxEdits + 1]
    /\ user \in 0 .. uids /\ uids \in 0 .. MaxUsers /\ valid \in BOOLEAN
    /\ schedules \subseteq Modules
    /\ DOMAIN inbox \subseteq Ids
    /\ \A id \in DOMAIN inbox : inbox[id] \in
           [header : Editions, token : Tokens, guessed : BOOLEAN,
            body : Editions \union {NoBody}]

\* What was on the portal when the student registered is not announced as new,
\* however the jobs of the registration, the scheduler and the student overlap, with
\* two exceptions: two first syncs straddle the arrival of a notice, and the one with
\* the older list is saved second; and a notice whose token does not decode, which is
\* a new message once it is edited.  A first snapshot announces no subject.
BacklogIsSilent == /\ \A news \in told :
                          news.notice <= backlog => news.overlap \/ news.notice \in Opaque
                   /\ ~flooded

\* The body stored under a portal's number is that of the message with that number,
\* whatever the place that led to it meant by then.  A row with a made-up id has a
\* body in two cases only: its own token does not decode, and the body is the
\* notice's; or the body was fetched through a place and no number came with it.
BodyOfItsId == \A id \in DOMAIN inbox :
    inbox[id].body # NoBody =>
        \/ id[2] = 0 /\ inbox[id].body[1] = id[1]
        \/ id[2] # 0 /\ id[1] \in Opaque /\ inbox[id].body[1] = id[1]
        \/ id[2] # 0 /\ inbox[id].guessed

\* A student is left with a row but without both schedules only by a registration
\* that is under way or failed between its commit and its schedules.
NoHalfRegistration ==
    user # 0 /\ ~broken /\ (\A w \in Workers : ~Scheduling(w)) => schedules = Modules

\* A student with schedules and accepted credentials catches up with the portal for
\* good once it stops changing, though an older list may be saved after a newer one:
\* every notice the portal lists with a token is stored as it is listed.
CaughtUp ==
    LET list == [top |-> top, edition |-> edition]
    IN \A n \in Listed(list) : Direct(list, n) =>
           /\ PortalId(list, n) \in DOMAIN inbox
           /\ inbox[PortalId(list, n)].header = Header(list, n)
Followed == user # 0 /\ valid /\ schedules = Modules
Converges == <>[](Followed => CaughtUp)

\* "A stored body is served as-is, permanently.  Freshness is guaranteed by"
\* the sync and the Refresh button (app/bot/handlers/inbox.py): a stored body is one
\* of the notice its row shows, and no older than the subject it shows.
StoredBodyIsFresh == \A id \in DOMAIN inbox :
    LET row == inbox[id]
    IN row.body # NoBody => row.body[1] = row.header[1] /\ row.body[2] >= row.header[2]
=============================================================================
