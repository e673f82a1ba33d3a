------------------------------- MODULE Screens -------------------------------
(***************************************************************************)
(* The bubbles of one student: taps on buttons, the handlers they start, the *)
(* jobs those handlers queue and the screens that all of them draw            *)
(* (app/ui/surface.py, app/bot/handlers, the rendering half of                *)
(* app/nitris/job_handlers.py).  A handler claims the bubble that was tapped;  *)
(* whatever claimed it earlier must not draw on it any more.                  *)
(*                                                                         *)
(* A tap is one run of a handler; a row of Row says which of the few shapes   *)
(* the handler has.  The queue is seen through its keys: a job is running,    *)
(* or its failure was retried under its own key and it never ends (JobQueue). *)
(* Telegram applies the edits of a bubble in the order they were sent.        *)
(***************************************************************************)
EXTENDS Integers, FiniteSets

CONSTANTS
    Taps,       \* 1 .. number of taps (bound); they begin in this order
    Bubbles,    \* 1 .. number of messages with buttons; used in this order
    Offered,    \* the rows a tap may choose
    None

ASSUME TapsAssumption ==
    Taps \subseteq Nat /\ Bubbles \subseteq Nat /\ None \notin Nat

-----------------------------------------------------------------------------
(* The handlers.  opens: how the bubble is taken and the first screen drawn.   *)
(* cooldown: what a tap inside the cooldown gets.  refunds: a rejected job     *)
(* gives the cooldown back.  cached: the answer may be at hand.  awaits: the   *)
(* handler waits for the job and draws; otherwise the job does.                *)

Plain == [job |-> None, opens |-> "at once", cooldown |-> "no", refunds |-> FALSE,
          cached |-> FALSE, awaits |-> FALSE]

Attendance == [Plain EXCEPT !.job = "attendance", !.cooldown = "screen", !.refunds = TRUE]
AttendanceCommand == [Attendance EXCEPT !.opens = "fresh"]
Dates == [Plain EXCEPT !.job = "dates", !.cached = TRUE]
DatesRefresh == [Plain EXCEPT !.job = "dates", !.cooldown = "screen", !.refunds = TRUE]

Holidays == [Plain EXCEPT !.job = "holidays", !.cached = TRUE]
HolidaysCommand == [Holidays EXCEPT !.opens = "fresh"]
HolidaysRefresh == [Plain EXCEPT !.job = "holidays", !.cooldown = "alert"]
HolidaysNav == [Holidays EXCEPT !.opens = "claims first"]

Exams == [Plain EXCEPT !.job = "exams", !.cached = TRUE]
ExamsCommand == [Exams EXCEPT !.opens = "fresh"]
ExamSeat == [Plain EXCEPT !.job = "seat", !.cached = TRUE]
\* operation_cooldown has no method check_and_update: the Refresh buttons of the
\* exam screens end there, with nothing drawn.
ExamRefresh == [Plain EXCEPT !.opens = "ends"]

TimetableSync == [Plain EXCEPT !.job = "timetable", !.opens = "late", !.cooldown = "screen",
                               !.refunds = TRUE]
Notice == [Plain EXCEPT !.job = "notice", !.opens = "claims twice", !.cached = TRUE,
                        !.awaits = TRUE]
InboxRefresh == [Plain EXCEPT !.job = "inbox", !.opens = "draws first", !.cooldown = "alert",
                              !.awaits = TRUE]
PaperYear == [Plain EXCEPT !.job = "papers", !.opens = "fresh", !.awaits = TRUE]
PaperSearch == [Plain EXCEPT !.job = "search", !.opens = "starts poke", !.awaits = TRUE]
\* Screens drawn from the database alone.
Menu == [Plain EXCEPT !.opens = "menu"]

Row == [attendance |-> Attendance, attendanceCommand |-> AttendanceCommand,
        dates |-> Dates, datesRefresh |-> DatesRefresh,
        holidays |-> Holidays, holidaysCommand |-> HolidaysCommand,
        holidaysRefresh |-> HolidaysRefresh, holidaysNav |-> HolidaysNav,
        exams |-> Exams, examsCommand |-> ExamsCommand, examSeat |-> ExamSeat,
        examRefresh |-> ExamRefresh, timetable |-> TimetableSync, notice |-> Notice,
        inbox |-> InboxRefresh, paperYear |-> PaperYear, paperSearch |-> PaperSearch,
        menu |-> Menu]

\* The jobs.  token: their drawing respects the claim.  silent: they may return
\* without drawing.  raises: an exception may leave them.
AttendanceJob == [token |-> TRUE, silent |-> TRUE, raises |-> TRUE]
DatesJob == [token |-> TRUE, silent |-> TRUE, raises |-> TRUE]
HolidaysJob == [token |-> TRUE, silent |-> FALSE, raises |-> TRUE]
ExamsJob == [token |-> TRUE, silent |-> FALSE, raises |-> TRUE]
SeatJob == [token |-> TRUE, silent |-> FALSE, raises |-> TRUE]
TimetableJob == [token |-> FALSE, silent |-> FALSE, raises |-> FALSE]
NoticeJob == [token |-> TRUE, silent |-> FALSE, raises |-> TRUE]
InboxJob == [token |-> TRUE, silent |-> FALSE, raises |-> FALSE]
PapersJob == [token |-> TRUE, silent |-> FALSE, raises |-> FALSE]
SearchJob == [token |-> TRUE, silent |-> FALSE, raises |-> FALSE]

Job == [attendance |-> AttendanceJob, dates |-> DatesJob, holidays |-> HolidaysJob,
        exams |-> ExamsJob, seat |-> SeatJob, timetable |-> TimetableJob,
        notice |-> NoticeJob, inbox |-> InboxJob, papers |-> PapersJob, search |-> SearchJob]
Jobs == DOMAIN Job

\* The jobs whose handlers wait draw nothing themselves.
AwaitedJobs == {Row[s].job : s \in {r \in DOMAIN Row : Row[r].awaits}}

\* Downloads send documents and draw on no bubble of this module.
Downloads == {"paper", "batch"}

ASSUME OfferedAssumption == Offered \subseteq DOMAIN Row \cup Downloads

-----------------------------------------------------------------------------
VARIABLES
    pc, row, bub,       \* of each tap: where its handler is, its row, its bubble
    owner,              \* _bubble_owners: the claim a bubble honours
    screen,             \* of each bubble: who drew it last, and what
    flight, payload,    \* of each key: the job in flight, the tap whose payload it carries
    cooling,            \* rows whose cooldown runs
    inflight,           \* downloads registered as in flight
    claimant,           \* ghost: the last tap to claim a bubble
    strayed,            \* ghost: bubbles drawn past a claim, or whose claim was taken back or dropped
    abandoned,          \* ghost: taps that nobody will answer any more
    lapsed              \* ghost: a cooldown ended between a download's in-flight check and
                        \* its registration

screenVars == <<pc, row, bub, owner, screen, flight, payload, cooling, inflight,
          claimant, strayed, abandoned, lapsed>>
bubbles == <<owner, screen, claimant, strayed>>
queue == <<flight, payload>>
downloads == <<inflight, lapsed>>

Places == {"idle", "load", "limit", "reclaim", "enqueue", "announce", "wait", "answered",
           "identify", "ack", "deliver", "done"}

ScreensTypeOK ==
    /\ pc \in [Taps -> Places] /\ row \in [Taps -> Offered \cup {None}]
    /\ bub \in [Taps -> Bubbles \cup {None}]
    /\ owner \in [Bubbles -> Taps \cup {None}] /\ claimant \in [Bubbles -> Taps \cup {None}]
    /\ screen \in [Bubbles -> [by : Taps \cup {None}, what : {"menu", "loading", "answer"}]]
    /\ flight \in [Jobs -> {"none", "running", "stuck"}] /\ payload \in [Jobs -> Taps \cup {None}]
    /\ cooling \subseteq Offered /\ inflight \subseteq Downloads
    /\ strayed \subseteq Bubbles /\ abandoned \subseteq Taps /\ lapsed \in BOOLEAN

ScreensInit ==
    /\ pc = [f \in Taps |-> "idle"] /\ row = [f \in Taps |-> None]
    /\ bub = [f \in Taps |-> None]
    /\ owner = [b \in Bubbles |-> None] /\ claimant = [b \in Bubbles |-> None]
    /\ screen = [b \in Bubbles |-> [by |-> None, what |-> "menu"]]
    /\ flight = [g \in Jobs |-> "none"] /\ payload = [g \in Jobs |-> None]
    /\ cooling = {} /\ inflight = {}
    /\ strayed = {} /\ abandoned = {} /\ lapsed = FALSE

-----------------------------------------------------------------------------
(* surface.py *)

\* claim_bubble(): every token handed out before is void.
Claim(f, b) ==
    /\ owner' = [owner EXCEPT ![b] = f] /\ claimant' = [claimant EXCEPT ![b] = f]
    /\ strayed' = strayed \ {b}

Draw(f, b, what) == screen' = [screen EXCEPT ![b] = [by |-> f, what |-> what]]

\* show(), and Surface() followed at once by edit(): claimed and drawn.
Show(f, b, what) == Claim(f, b) /\ Draw(f, b, what)

\* Mutant of OwnerOf: the token is not compared.
AnyOwner(b) == None

OwnerOf(b) == owner[b]

\* is_bubble_owner(), check_bubble_owner(): a bubble that is not registered is anybody's.
Holds(f, b) == OwnerOf(b) \in {None, f}

\* Surface.edit(), Surface.final(), _edit_callback_message() with a token.
DrawIfHeld(f, b, what) ==
    /\ IF Holds(f, b) THEN Draw(f, b, what) ELSE UNCHANGED screen
    /\ UNCHANGED <<owner, claimant>>
    /\ strayed' = IF Holds(f, b) /\ owner[b] = None /\ claimant[b] \notin {None, f}
                  THEN strayed \cup {b} ELSE strayed

\* edit_text() on the message itself, without a look at the registry.
DrawAnyway(f, b, what) ==
    /\ Draw(f, b, what) /\ UNCHANGED <<owner, claimant>>
    /\ strayed' = IF claimant[b] \notin {None, f} THEN strayed \cup {b} ELSE strayed

\* claim_bubble() drops the oldest half of a full registry.
Forget(b) ==
    /\ owner[b] # None /\ owner' = [owner EXCEPT ![b] = None]
    /\ UNCHANGED <<pc, row, bub, screen, queue, cooling, claimant, strayed, abandoned, downloads>>

Goto(f, place) == pc' = [pc EXCEPT ![f] = place]

-----------------------------------------------------------------------------
(* A tap, up to its first wait. *)

Begins(f) == pc[f] = "idle" /\ \A e \in Taps : e < f => pc[e] # "idle"

Tap(f, s, b) ==
    /\ Begins(f) /\ s \in Offered \ Downloads
    /\ \A c \in Bubbles : c < b => \E e \in Taps : bub[e] = c
    /\ row' = [row EXCEPT ![f] = s] /\ bub' = [bub EXCEPT ![f] = b]
    /\ UNCHANGED <<queue, downloads>>

\* A menu, or an answer that is at hand.
ShowKnown(f, s, b) ==
    /\ Tap(f, s, b) /\ (Row[s].opens = "menu" \/ Row[s].cached)
    /\ Show(f, b, "answer") /\ Goto(f, "done") /\ UNCHANGED <<cooling, abandoned>>

CoolDown(f, s, b) ==
    /\ Tap(f, s, b) /\ s \in cooling /\ Goto(f, "done")
    /\ IF Row[s].cooldown = "screen" THEN Show(f, b, "answer") ELSE UNCHANGED bubbles
    /\ UNCHANGED <<cooling, abandoned>>

Crash(f, s, b) ==
    /\ Tap(f, s, b) /\ Row[s].opens = "ends" /\ Goto(f, "done")
    /\ UNCHANGED <<bubbles, cooling, abandoned>>

\* operation_cooldown.check() allows the tap and starts the next cooldown.
Open(f, s, b) ==
    /\ Tap(f, s, b) /\ s \notin cooling
    /\ cooling' = IF Row[s].cooldown = "no" THEN cooling ELSE cooling \cup {s}
    /\ \/ Row[s].opens = "at once" /\ Show(f, b, "loading") /\ Goto(f, "enqueue")
       \/ /\ Row[s].opens \in {"fresh", "starts poke"} /\ screen[b].by = None
          /\ claimant[b] = None /\ Show(f, b, "loading")
          /\ Goto(f, IF Row[s].opens = "fresh" THEN "enqueue" ELSE "limit")
       \/ Row[s].opens = "claims first" /\ Claim(f, b) /\ UNCHANGED screen /\ Goto(f, "load")
       \/ Row[s].opens = "claims twice" /\ Show(f, b, "loading") /\ Goto(f, "reclaim")
       \/ Row[s].opens = "draws first" /\ DrawAnyway(f, b, "loading") /\ Goto(f, "reclaim")
       \/ Row[s].opens = "late" /\ UNCHANGED bubbles /\ Goto(f, "enqueue")
    /\ UNCHANGED abandoned

\* After the database said who taps: the loading screen, or the refusal.
Load(f) ==
    /\ pc[f] = "load"
    /\ \/ DrawIfHeld(f, bub[f], "loading") /\ Goto(f, "enqueue")
       \/ DrawIfHeld(f, bub[f], "answer") /\ Goto(f, "done")
    /\ UNCHANGED <<row, bub, queue, cooling, abandoned, downloads>>

\* The search asks for its cooldown after it opened its bubble and started its poke;
\* the refusal is drawn by edit_text(), which the poke does not notice.
Limit(f) ==
    /\ pc[f] = "limit"
    /\ \/ "paperSearch" \notin cooling /\ cooling' = cooling \cup {"paperSearch"}
          /\ Goto(f, "enqueue") /\ UNCHANGED <<bubbles, abandoned>>
       \/ "paperSearch" \in cooling /\ UNCHANGED cooling
          /\ Goto(f, "done") /\ DrawAnyway(f, bub[f], "answer")
          /\ abandoned' = abandoned \cup {f}
    /\ UNCHANGED <<row, bub, queue, downloads>>

\* Surface(await ...): claimed once more, over whoever claimed in the meantime.
Reclaim(f) ==
    /\ pc[f] = "reclaim" /\ Goto(f, "enqueue")
    /\ owner' = [owner EXCEPT ![bub[f]] = f] /\ claimant' = [claimant EXCEPT ![bub[f]] = f]
    /\ strayed' = IF screen[bub[f]].by = f THEN strayed \ {bub[f]} ELSE strayed \cup {bub[f]}
    /\ UNCHANGED <<row, bub, screen, queue, cooling, abandoned, downloads>>

-----------------------------------------------------------------------------
(* The job. *)

\* Mutant of Reject: the rejection is swallowed.
RejectSilently(f) ==
    /\ pc[f] = "enqueue" /\ Goto(f, "done")
    /\ cooling' = IF Row[row[f]].refunds THEN cooling \ {row[f]} ELSE cooling
    /\ UNCHANGED <<row, bub, bubbles, queue, abandoned, downloads>>

\* The queue is full: the tap is told, and is given its cooldown back where the code does so.
Reject(f) ==
    /\ pc[f] = "enqueue" /\ Goto(f, "done")
    /\ cooling' = IF Row[row[f]].refunds THEN cooling \ {row[f]} ELSE cooling
    /\ IF Row[row[f]].opens = "late" THEN Show(f, bub[f], "answer")
                                     ELSE DrawIfHeld(f, bub[f], "answer")
    /\ UNCHANGED <<row, bub, queue, abandoned, downloads>>

\* Joined to a job of its key, or at the head of a new one.  A handler that leaves
\* the drawing to the job is left with the payload of the tap it joined.
Enqueue(f) ==
    LET g == Row[row[f]].job IN
    /\ pc[f] = "enqueue"
    /\ Goto(f, CASE Row[row[f]].awaits -> "wait"
                 [] Row[row[f]].opens = "late" -> "announce"
                 [] OTHER -> "done")
    /\ IF flight[g] = "none"
       THEN /\ flight' = [flight EXCEPT ![g] = "running"] /\ payload' = [payload EXCEPT ![g] = f]
            /\ UNCHANGED abandoned
       ELSE /\ UNCHANGED queue
            /\ abandoned' = IF Row[row[f]].awaits THEN abandoned ELSE abandoned \cup {f}
    /\ UNCHANGED <<row, bub, bubbles, cooling, downloads>>

\* cb_sync() draws "Syncing" after it queued the job, over its result if that is there.
Announce(f) ==
    LET b == bub[f] IN
    /\ pc[f] = "announce" /\ Goto(f, "done") /\ Show(f, b, "loading")
    /\ abandoned' = IF payload[Row[row[f]].job] = f THEN abandoned ELSE abandoned \cup {f}
    /\ UNCHANGED <<row, bub, queue, cooling, downloads>>

Waiters(g) == {f \in Taps : pc[f] = "wait" /\ Row[row[f]].job = g}

EndOf(g) == flight' = [flight EXCEPT ![g] = "none"] /\ payload' = [payload EXCEPT ![g] = None]

\* The job ends.  It draws for the tap of its payload; those that wait hear of it.
JobEnds(g) ==
    LET f == payload[g] IN
    /\ flight[g] = "running" /\ EndOf(g)
    /\ pc' = [e \in Taps |-> IF e \in Waiters(g) THEN "answered" ELSE pc[e]]
    /\ IF f = None \/ g \in AwaitedJobs THEN UNCHANGED bubbles
       ELSE IF Job[g].token THEN DrawIfHeld(f, bub[f], "answer")
            ELSE DrawAnyway(f, bub[f], "answer")
    /\ UNCHANGED <<row, bub, cooling, abandoned, downloads>>

\* The student is gone or quarantined: attendance jobs return before they draw.
JobSilent(g) ==
    /\ flight[g] = "running" /\ EndOf(g) /\ Job[g].silent
    /\ abandoned' = abandoned \cup ({payload[g]} \ {None})
    /\ UNCHANGED <<pc, row, bub, bubbles, cooling, downloads>>

\* An exception leaves the handler: its retry joins the future of its own key.
JobRaises(g) ==
    /\ flight[g] = "running" /\ Job[g].raises
    /\ flight' = [flight EXCEPT ![g] = "stuck"]
    /\ abandoned' = IF g \in AwaitedJobs THEN abandoned
                    ELSE abandoned \cup ({payload[g]} \ {None})
    /\ UNCHANGED <<pc, row, bub, payload, bubbles, cooling, downloads>>

\* A low-priority refresh of the dates of a subject, queued after a changed
\* snapshot or by the scheduler, under the key that taps use.
Background ==
    /\ flight["dates"] = "none" /\ flight' = [flight EXCEPT !["dates"] = "running"]
    /\ UNCHANGED <<pc, row, bub, bubbles, payload, cooling, abandoned, downloads>>

-----------------------------------------------------------------------------
(* Handlers that wait. *)

Answer(f) ==
    /\ pc[f] = "answered" /\ Goto(f, "done") /\ DrawIfHeld(f, bub[f], "answer")
    /\ UNCHANGED <<row, bub, queue, cooling, abandoned, downloads>>

\* asyncio.wait_for(future): the future is cancelled, and with it everyone who
\* joined the job; their handlers end in CancelledError, which none of them catches.
Timeout(f) ==
    LET g == Row[row[f]].job
        others == Waiters(g) \ {f} IN
    /\ pc[f] = "wait"
    /\ pc' = [e \in Taps |-> IF e \in Waiters(g) THEN "done" ELSE pc[e]]
    /\ DrawIfHeld(f, bub[f], "answer")
    /\ abandoned' = abandoned \cup others /\ EndOf(g)
    /\ UNCHANGED <<row, bub, cooling, downloads>>

\* Surface.poke_later(): NITRIS is slow.  Nothing stops the poke of a refused search,
\* nor that of a handler that was cancelled.
Poke(f) ==
    /\ \/ pc[f] = "wait"
       \/ pc[f] = "done" /\ f \in abandoned /\ Row[row[f]].awaits
    /\ Holds(f, bub[f]) /\ DrawIfHeld(f, bub[f], "loading")
    /\ UNCHANGED <<pc, row, bub, queue, cooling, abandoned, downloads>>

\* A cooldown ends, perhaps while a download is between its check and its registration.
CooldownEnds(s) ==
    /\ s \in cooling /\ cooling' = cooling \ {s}
    /\ lapsed' = (lapsed \/ \E f \in Taps : pc[f] \in {"identify", "ack"} /\ row[f] = s)
    /\ UNCHANGED <<pc, row, bub, bubbles, queue, abandoned, inflight>>

-----------------------------------------------------------------------------
(* Downloads of one paper, or of all of a year: an in-flight check, the student *)
(* read, the cooldown, the acknowledgement of the tap, and only then the         *)
(* registration the next tap's check will see.                                  *)

Download(f, s) ==
    /\ Begins(f) /\ s \in Offered \cap Downloads /\ row' = [row EXCEPT ![f] = s]
    /\ Goto(f, IF s \in inflight THEN "done" ELSE "identify")
    /\ UNCHANGED <<bub, bubbles, queue, cooling, abandoned, downloads>>

\* Mutant of Identify: without operation_cooldown.check().
IdentifyUnlimited(f) ==
    /\ pc[f] = "identify" /\ Goto(f, "ack")
    /\ UNCHANGED <<row, bub, bubbles, queue, cooling, abandoned, downloads>>

\* Not registered or inside the cooldown: refused.  Otherwise acknowledged.
Identify(f) ==
    /\ pc[f] = "identify"
    /\ \/ Goto(f, "done") /\ UNCHANGED cooling
       \/ row[f] \notin cooling /\ Goto(f, "ack") /\ cooling' = cooling \cup {row[f]}
    /\ UNCHANGED <<row, bub, bubbles, queue, abandoned, downloads>>

Register(f) ==
    /\ pc[f] = "ack" /\ Goto(f, "deliver") /\ inflight' = inflight \cup {row[f]}
    /\ UNCHANGED <<row, bub, bubbles, queue, cooling, abandoned, lapsed>>

Delivered(f) ==
    /\ pc[f] = "deliver" /\ Goto(f, "done") /\ inflight' = inflight \ {row[f]}
    /\ UNCHANGED <<row, bub, bubbles, queue, cooling, abandoned, lapsed>>

-----------------------------------------------------------------------------
Advance(f) ==
    \/ Load(f) \/ Limit(f) \/ Reclaim(f) \/ Reject(f) \/ Enqueue(f) \/ Announce(f)
    \/ Answer(f) \/ Timeout(f)
    \/ Identify(f) \/ Register(f) \/ Delivered(f)

ScreensNext ==
    \/ \E f \in Taps, s \in DOMAIN Row, b \in Bubbles :
          ShowKnown(f, s, b) \/ CoolDown(f, s, b) \/ Crash(f, s, b) \/ Open(f, s, b)
    \/ \E f \in Taps, s \in Downloads : Download(f, s)
    \/ \E f \in Taps : Advance(f) \/ Poke(f)
    \/ \E g \in Jobs : JobEnds(g) \/ JobSilent(g) \/ JobRaises(g)
    \/ Background
    \/ \E b \in Bubbles : Forget(b)
    \/ \E s \in cooling : CooldownEnds(s)

\* Handlers are not suspended for ever, and jobs end or fail.
ScreensFairness ==
    /\ \A f \in Taps : WF_screenVars(Advance(f))
    /\ \A g \in Jobs : WF_screenVars(JobEnds(g) \/ JobSilent(g) \/ JobRaises(g))

ScreensSpec == ScreensInit /\ [][ScreensNext]_screenVars /\ ScreensFairness

-----------------------------------------------------------------------------
\* Once everything a bubble waited for is over, it shows what the last tap to claim
\* it was answered - not an older screen that came late, not a loading note - unless
\* that tap is one of those the code leaves without an answer.
Quiet(b) ==
    /\ \A f \in Taps : bub[f] = b => pc[f] \in {"idle", "done"}
    /\ \A g \in Jobs : (flight[g] = "running" /\ payload[g] # None) => bub[payload[g]] # b

LastTapWins ==
    \A b \in Bubbles :
        (Quiet(b) /\ claimant[b] # None /\ b \notin strayed /\ claimant[b] \notin abandoned)
            => screen[b] = [by |-> claimant[b], what |-> "answer"]

\* A loading screen is replaced, or its bubble is that of a tap nobody answers: it joined
\* another tap's job, its job said nothing, raised or was cancelled by somebody
\* else's impatience, or its answer was drawn before its loading screen.
BubbleSettles ==
    \A b \in Bubbles :
        (screen[b].what = "loading")
            ~> \/ screen[b].what # "loading"
               \/ screen[b].by \in abandoned \/ claimant[b] \in abandoned

\* What surface.py says of its slow notes: one "can never overwrite a finished render"
\* of the same tap.
NoSlowNoteOverAnswer ==
    [][\A b \in Bubbles : LET f == screen[b].by IN
         (screen[b].what = "answer" /\ f # None /\ pc[f] = "done")
             => screen'[b] # [by |-> f, what |-> "loading"]]_screenVars

\* The same paper, or the same year, is sent twice at a time only if a cooldown ran
\* out while one of the taps was past its in-flight check and not yet registered.
OneDownload ==
    \/ lapsed
    \/ \A s \in Downloads :
          Cardinality({f \in Taps : row[f] = s /\ pc[f] = "deliver"}) <= 1
=============================================================================
