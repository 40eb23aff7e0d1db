----------------------------- MODULE TransferView -----------------------------
(***************************************************************************)
(* What the window shows of a backup (frontend/src): the store of the      *)
(* transfer page, filled by polls of the session's progress and by events  *)
(* of its feed, the cache of the queries, and the guard that starts a new  *)
(* session once.  A session has a row that the engine changes under the    *)
(* window; ids are SQLite row ids, and the highest is given again after    *)
(* its session is deleted.                                                 *)
(***************************************************************************)
EXTENDS Integers, Sequences, FiniteSets, FiniteSetsExt

CONSTANTS
  SessionIds,  \* 1 .. n
  LastClick    \* bound on the sessions created and the start requests, together

ASSUME ViewAssumption == SessionIds \subseteq Nat \ {0}

VARIABLES
  rows,      \* transfer_sessions, by id
  highest,   \* history: the highest id given so far
  arrived,   \* start requests the engine has not answered
  clicks,    \* sessions created and start requests so far
  cancelled, \* the session whose cancellation the window waits for
  page,      \* ui.currentPage: the transfer page or another
  view,      \* the transfer slice of the store
  hydrated,  \* initialisedRef of the mounted page
  known,     \* query cache of GET /sessions/{id}
  progress,  \* query cache of GET /sessions/{id}/progress
  poll,      \* the answer on its way, by id
  polled,    \* the progress was asked for since the page was mounted
  due,       \* the effect that shows the last answer has not run
  linked,    \* the socket of the feed is open
  wire,      \* events sent on it and not handled
  guarded,   \* startedSessions
  asked,     \* the start request whose callbacks the page would run
  autoStarted, \* autoStartedRef of the mounted page
  recycled,  \* history: ids that were cached across "clear sessions"
  orphaned,  \* history: ids whose start nobody waits for, and ids given again
  overtaken  \* history: the end was heard while an older answer was due

viewVars   == <<rows, highest, arrived, clicks, cancelled, page, view, hydrated,
                known, progress, poll, polled, due, linked, wire, guarded, asked,
                autoStarted, recycled, orphaned, overtaken>>
engineVars == <<rows, highest, clicks>>
startVars  == <<arrived, asked, autoStarted>>
queryVars  == <<known, progress, poll>>
pageVars   == <<page, hydrated, polled, due>>
linkVars   == <<linked, wire>>
historyVars == <<recycled, orphaned, overtaken>>

NoRecord  == [status |-> "none", imported |-> 0]
NoView    == [sid |-> 0, status |-> "created", imported |-> 0]
Terminal  == {"completed", "failed"}     \* a cancelled session counts as failed
Exists(s) == rows[s] # NoRecord
Shown     == view.sid
Observed(s) == page = "transfer" /\ Shown = s

-----------------------------------------------------------------------------
(* Bugs the code could have; each stands in for a definition below.        *)

KeepsGuard(s)       == guarded
KeepsCache(s)       == known
PollGoesOn(s)       == poll

-----------------------------------------------------------------------------
(* The store.                                                              *)

\* initTransfer: the counts start again.
FromSession(s, session) == [sid |-> s, status |-> session.status, imported |-> 0]

\* updateFromPolling: everything but a terminal status.
FromPolling(v, s, answer) ==
  [sid |-> s, imported |-> answer.imported,
   status |-> IF v.status \in Terminal THEN v.status ELSE answer.status]

\* The two effects of a page that has the session, in their order.
Hydrated(s, v, session) ==
  LET w == IF session = NoRecord THEN v ELSE FromSession(s, session)
  IN  IF progress[s] = NoRecord THEN w ELSE FromPolling(w, s, progress[s])

\* The effect that forgets a session once it is seen completed.
GuardedAfter(v) == IF v.status = "completed" THEN guarded \ {v.sid} ELSE guarded

-----------------------------------------------------------------------------

ViewInit ==
  /\ rows = [s \in SessionIds |-> NoRecord] /\ highest = 0
  /\ arrived = {} /\ clicks = 0 /\ asked = 0 /\ autoStarted = FALSE /\ cancelled = 0
  /\ page = "elsewhere" /\ view = NoView /\ hydrated = FALSE
  /\ known = [s \in SessionIds |-> NoRecord] /\ progress = known /\ poll = known
  /\ polled = FALSE /\ due = FALSE /\ linked = FALSE /\ wire = <<>>
  /\ guarded = {} /\ recycled = {} /\ orphaned = {} /\ overtaken = FALSE

\* The callbacks of a start request are lost with the page, or with the next one.
LosesCallbacks == orphaned' = IF asked = 0 THEN orphaned ELSE orphaned \cup {asked}

\* setCurrentPage("transfer"): a page that is mounted anew shows what is cached.
Mounts(s, v) ==
  /\ page' = "transfer" /\ polled' = FALSE /\ due' = FALSE
  /\ hydrated' = (s # 0 /\ known[s] # NoRecord)
  /\ view' = IF s = 0 THEN v ELSE Hydrated(s, v, known[s])
  /\ guarded' = GuardedAfter(view')

\* The page is left: its socket closes, and its queries are no longer observed.
Unmounts ==
  /\ page' = "elsewhere" /\ hydrated' = FALSE /\ polled' = FALSE /\ due' = FALSE
  /\ linked' = FALSE /\ wire' = <<>>
  /\ asked' = 0 /\ LosesCallbacks /\ autoStarted' = FALSE

-----------------------------------------------------------------------------
(* The user: pages and sessions.                                           *)

LeavePage ==
  /\ page = "transfer" /\ Unmounts
  /\ UNCHANGED <<engineVars, arrived, cancelled, view, queryVars, guarded,
                 recycled, overtaken>>

OpenPage ==
  /\ page = "elsewhere" /\ Mounts(Shown, view) /\ overtaken' = FALSE
  /\ UNCHANGED <<engineVars, startVars, cancelled, queryVars, linkVars, recycled, orphaned>>

\* handleResume of a row of the dashboard.
OpenSession(s) ==
  /\ page = "elsewhere" /\ rows[s].status \in {"paused", "completed"}
  /\ Mounts(s, FromSession(s, rows[s])) /\ overtaken' = FALSE
  /\ UNCHANGED <<engineVars, startVars, cancelled, queryVars, linkVars, recycled, orphaned>>

\* The answer of POST /sessions: wherever the user is by now, the new session
\* is shown; a mounted page stays as it is.
NewId == 1 + Max({s \in SessionIds : Exists(s)} \cup {0})

CreateSession ==
  /\ clicks < LastClick /\ NewId \in SessionIds
  /\ LET row == [status |-> "created", imported |-> 0]
         v   == FromSession(NewId, row)
     IN  /\ rows' = [rows EXCEPT ![NewId] = row] /\ clicks' = clicks + 1
         /\ highest' = Max({highest, NewId})
         /\ IF page = "transfer"
            THEN /\ view' = v /\ polled' = FALSE /\ due' = (progress[NewId] # NoRecord)
                 /\ UNCHANGED <<page, hydrated, guarded>>
            ELSE Mounts(NewId, v)
  /\ orphaned' = IF NewId <= highest THEN orphaned \cup {NewId} ELSE orphaned
  /\ linked' = FALSE /\ wire' = <<>> /\ overtaken' = FALSE
  /\ UNCHANGED <<startVars, cancelled, queryVars, recycled>>

\* handleCancel: the engine has cancelled, the window has not heard so.
CancelSession ==
  /\ page = "transfer" /\ Shown # 0 /\ cancelled = 0 /\ view.status \notin Terminal
  /\ Exists(Shown) /\ rows' = [rows EXCEPT ![Shown].status = "failed"]
  /\ cancelled' = Shown
  /\ UNCHANGED <<clicks, highest, startVars, pageVars, view, queryVars, linkVars,
                 guarded, historyVars>>

\* The rest of handleCancel runs wherever the user is by then, and on
\* whatever session the store shows.
CancelAnswered ==
  /\ cancelled # 0 /\ cancelled' = 0
  /\ view' = NoView /\ Unmounts /\ overtaken' = FALSE
  /\ UNCHANGED <<engineVars, arrived, queryVars, guarded, recycled>>

\* POST /pause of a running session.
PauseSession ==
  /\ page = "transfer" /\ Shown # 0 /\ view.status = "running"
  /\ rows[Shown].status = "running"
  /\ rows' = [rows EXCEPT ![Shown].status = "paused"]
  /\ wire' = IF linked THEN Append(wire, "paused") ELSE wire
  /\ UNCHANGED <<clicks, highest, startVars, cancelled, pageVars, view, queryVars, linked,
                 guarded, historyVars>>

\* useDeleteSession drops what is cached of the session, and what is shown of it.
CacheWithout(s) == [known EXCEPT ![s] = NoRecord]

\* clearAllExceptPage
ShowsNothing == view' = [NoView EXCEPT !.status = "failed"] /\ overtaken' = FALSE

DeleteSession(s) ==
  /\ page = "elsewhere" /\ Exists(s) /\ rows[s].status # "running"
  /\ rows' = [rows EXCEPT ![s] = NoRecord]
  /\ known' = CacheWithout(s)
  /\ progress' = [progress EXCEPT ![s] = NoRecord] /\ poll' = [poll EXCEPT ![s] = NoRecord]
  /\ IF Shown = s THEN ShowsNothing ELSE UNCHANGED <<view, overtaken>>
  /\ UNCHANGED <<clicks, highest, startVars, cancelled, pageVars, linkVars, guarded,
                 recycled, orphaned>>

\* useClearSessions and useClearLibrary: the progress of every session, but
\* only the session that is shown, leaves the cache.
ClearSessions ==
  /\ page = "elsewhere" /\ \E s \in SessionIds : Exists(s)
  /\ rows' = [s \in SessionIds |-> NoRecord]
  /\ known' = IF Shown = 0 THEN known ELSE [known EXCEPT ![Shown] = NoRecord]
  /\ progress' = rows' /\ poll' = rows'
  /\ ShowsNothing
  /\ recycled' = recycled \cup {s \in SessionIds : known'[s] # NoRecord}
  /\ UNCHANGED <<clicks, highest, startVars, cancelled, pageVars, linkVars, guarded, orphaned>>

-----------------------------------------------------------------------------
(* Starting a session.                                                     *)

Asks(s) ==
  /\ clicks < LastClick /\ clicks' = clicks + 1
  /\ asked' = s /\ arrived' = arrived \cup {s} /\ LosesCallbacks

\* The effect that starts a fresh session, once.
AutoStart ==
  /\ page = "transfer" /\ hydrated /\ Shown # 0
  /\ known[Shown].status = "created" /\ Shown \notin guarded
  /\ guarded' = guarded \cup {Shown} /\ autoStarted' = TRUE /\ Asks(Shown)
  /\ UNCHANGED <<rows, highest, cancelled, pageVars, view, queryVars, linkVars,
                 recycled, overtaken>>

\* handleStart: the Start and the Resume button.
UserStarts ==
  /\ page = "transfer" /\ Shown # 0 /\ asked = 0
  /\ \/ /\ view.status = "created" /\ ~autoStarted /\ Shown \notin guarded
        /\ guarded' = guarded \cup {Shown}
     \/ view.status = "paused" /\ UNCHANGED guarded
  /\ Asks(Shown)
  /\ UNCHANGED <<rows, highest, autoStarted, cancelled, pageVars, view, queryVars,
                 linkVars, recycled, overtaken>>

\* onError of the request.
GuardAfterError(s) == guarded \ {s}

\* start_session: a created session may fail its preflight.
StartSucceeds(s) ==
  /\ s \in arrived /\ rows[s].status \in {"created", "paused"}
  /\ arrived' = arrived \ {s}
  /\ rows' = [rows EXCEPT ![s].status = "running"]
  /\ wire' = IF linked /\ Shown = s THEN Append(wire, "started") ELSE wire
  /\ asked' = IF asked = s THEN 0 ELSE asked
  /\ UNCHANGED <<clicks, highest, autoStarted, cancelled, pageVars, view, queryVars,
                 linked, guarded, historyVars>>

StartIsRefused(s) ==
  /\ s \in arrived /\ rows[s].status # "paused"
  /\ arrived' = arrived \ {s}
  /\ asked' = IF asked = s THEN 0 ELSE asked
  /\ IF asked = s THEN guarded' = GuardAfterError(s) /\ autoStarted' = FALSE
                  ELSE UNCHANGED <<guarded, autoStarted>>
  /\ UNCHANGED <<engineVars, cancelled, pageVars, view, queryVars, linkVars,
                 historyVars>>

\* 30 s have passed; the engine goes on with the request.
StartTimesOut ==
  /\ asked # 0 /\ asked \in arrived
  /\ asked' = 0 /\ guarded' = GuardAfterError(asked) /\ autoStarted' = FALSE
  /\ UNCHANGED <<engineVars, arrived, cancelled, pageVars, view, queryVars,
                 linkVars, historyVars>>

\* _finalize_session: the count and the status in one transaction, then the
\* event; a task that is paused late still ends its session.
TaskEnds(s) ==
  /\ rows[s].status \in {"running", "paused"}
  /\ \/ /\ rows' = [rows EXCEPT ![s].status = "completed", ![s].imported = 1]
        /\ wire' = IF linked /\ Shown = s THEN Append(wire, "completed") ELSE wire
     \/ /\ rows' = [rows EXCEPT ![s].status = "failed"] /\ UNCHANGED wire
  /\ UNCHANGED <<clicks, highest, startVars, cancelled, pageVars, view, queryVars, linked,
                 guarded, historyVars>>

-----------------------------------------------------------------------------
(* Polls.                                                                  *)

\* useSession: its answer is shown only to a page that has none yet.
SessionFetched ==
  /\ page = "transfer" /\ Shown # 0 /\ Exists(Shown) /\ known[Shown] # rows[Shown]
  /\ known' = [known EXCEPT ![Shown] = rows[Shown]]
  /\ IF hydrated
     THEN UNCHANGED <<view, hydrated, guarded, due, overtaken>>
     ELSE /\ view' = Hydrated(Shown, view, rows[Shown]) /\ hydrated' = TRUE
          /\ guarded' = GuardedAfter(view') /\ due' = FALSE /\ overtaken' = polled
  /\ UNCHANGED <<engineVars, startVars, cancelled, page, progress, poll, polled,
                 linkVars, recycled, orphaned>>

\* get_session_progress reads the row: once on a mounted page, and again and
\* again while the status that is shown is not terminal.
PollReads ==
  /\ page = "transfer" /\ Shown # 0 /\ Exists(Shown) /\ poll[Shown] = NoRecord
  /\ view.status \notin Terminal \/ ~polled
  /\ polled' = TRUE /\ poll' = [poll EXCEPT ![Shown] = rows[Shown]]
  /\ UNCHANGED <<engineVars, startVars, cancelled, page, hydrated, due, view, known,
                 progress, linkVars, guarded, historyVars>>

PollArrives(s) ==
  /\ poll[s] # NoRecord
  /\ progress' = [progress EXCEPT ![s] = poll[s]] /\ poll' = [poll EXCEPT ![s] = NoRecord]
  /\ due' = (due \/ Observed(s))
  /\ UNCHANGED <<engineVars, startVars, cancelled, page, hydrated, polled, view, known,
                 linkVars, guarded, historyVars>>

\* The effect of a new answer: updateFromPolling.
PollIsShown ==
  /\ due /\ due' = FALSE
  /\ view' = FromPolling(view, Shown, progress[Shown]) /\ guarded' = GuardedAfter(view')
  /\ UNCHANGED <<engineVars, startVars, cancelled, page, hydrated, polled, queryVars,
                 linkVars, historyVars>>

\* Five minutes unobserved.
CacheExpires(s) ==
  /\ ~Observed(s) /\ (known[s] # NoRecord \/ progress[s] # NoRecord)
  /\ known' = [known EXCEPT ![s] = NoRecord]
  /\ progress' = [progress EXCEPT ![s] = NoRecord]
  /\ UNCHANGED <<engineVars, startVars, cancelled, pageVars, view, poll, linkVars,
                 guarded, historyVars>>

-----------------------------------------------------------------------------
(* useTransferWs and handleWsEvent.                                        *)

\* connect: not for a session that is shown as ended.
Links ==
  /\ page = "transfer" /\ Shown # 0 /\ Exists(Shown) /\ ~linked
  /\ view.status \notin Terminal
  /\ linked' = TRUE
  /\ UNCHANGED <<engineVars, startVars, cancelled, pageVars, view, queryVars, wire,
                 guarded, historyVars>>

LinkBreaks ==
  /\ linked /\ linked' = FALSE /\ wire' = <<>>
  /\ UNCHANGED <<engineVars, startVars, cancelled, pageVars, view, queryVars,
                 guarded, historyVars>>

\* The end of a session cancels the poll that is under way.
PollAfterEnd(s) == [poll EXCEPT ![s] = NoRecord]

EventArrives ==
  /\ wire # <<>> /\ wire' = Tail(wire)
  /\ CASE Head(wire) = "started"   -> view' = [view EXCEPT !.status = "running"]
       [] Head(wire) = "paused"    -> view' = [view EXCEPT !.status = "paused"]
       [] Head(wire) = "completed" -> view' = [view EXCEPT !.status = "completed", !.imported = 1]
  /\ IF Head(wire) = "completed"
     THEN poll' = PollAfterEnd(Shown) /\ overtaken' = (overtaken \/ due)
     ELSE UNCHANGED <<poll, overtaken>>
  /\ guarded' = GuardedAfter(view')
  /\ UNCHANGED <<engineVars, startVars, cancelled, pageVars, known, progress, linked,
                 recycled, orphaned>>

-----------------------------------------------------------------------------

ViewNext ==
  \/ LeavePage \/ OpenPage \/ CreateSession \/ CancelSession \/ CancelAnswered
  \/ PauseSession \/ ClearSessions \/ AutoStart \/ UserStarts \/ StartTimesOut
  \/ SessionFetched \/ PollReads \/ PollIsShown \/ Links \/ LinkBreaks \/ EventArrives
  \/ \E s \in SessionIds :
       \/ OpenSession(s) \/ DeleteSession(s) \/ StartSucceeds(s) \/ StartIsRefused(s)
       \/ TaskEnds(s) \/ PollArrives(s) \/ CacheExpires(s)

ViewSpec == ViewInit /\ [][ViewNext]_viewVars

-----------------------------------------------------------------------------
(* Properties                                                              *)

(* A session that is shown as ended has ended, although a terminal status  *)
(* is kept whatever the polls say (transfer.ts:737): no status outlives    *)
(* its session in a cache and comes back for the next one of the same id.  *)
(* "Clear sessions" leaves the cached sessions that are not shown, and an  *)
(* id among them is not covered.                                           *)
ShownEndIsReal ==
  view.status \in Terminal /\ Shown # 0 /\ Exists(Shown) /\ Shown \notin recycled
    => rows[Shown].status \in Terminal

(* Once a completed session is shown and no answer is on its way, what is  *)
(* shown is its final count, whether the end was polled or heard: nothing  *)
(* asks again after it.  Not when the end was heard while an older answer  *)
(* waited to be shown.                                                     *)
EndIsShownInFull ==
  (/\ page = "transfer" /\ hydrated /\ polled /\ ~due /\ ~overtaken
   /\ Shown # 0 /\ poll[Shown] = NoRecord /\ Shown \notin recycled
   /\ view.status = "completed" /\ rows[Shown].status = "completed")
  => view.imported = 1

(* A session that waits to be started can be: "release the guards so a      *)
(* manual retry via the Start button is possible" (TransferPage.tsx:1366). *)
(* A page that has started another session keeps the button inert, but     *)
(* only until it has fetched this one, which it then starts itself.        *)
(* Excepted are a request whose callbacks were lost with the page or with  *)
(* a later request, and an id that was given before.                       *)
StartsItself(s) == known[s].status \in {"none", "created"}

WaitingCanStart ==
  (/\ page = "transfer" /\ Shown # 0 /\ view.status = "created"
   /\ rows[Shown].status = "created" /\ asked # Shown /\ Shown \notin orphaned)
  => Shown \notin guarded /\ (autoStarted => hydrated /\ StartsItself(Shown))
=============================================================================
