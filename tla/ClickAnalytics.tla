---------------------------- MODULE ClickAnalytics ----------------------------
(***************************************************************************)
(* The clicks of one short link: redirects queue a task per click, workers *)
(* store it and announce it to the webhooks, while the owner may delete    *)
(* the link or look at its analytics.                                      *)
(*                                                                         *)
(* A message is acknowledged when it is received.  The task is retried     *)
(* after a DatabaseError.  The foreign key of a click is checked at COMMIT *)
(* (DEFERRABLE INITIALLY DEFERRED) and waits for a deletion in progress.   *)
(***************************************************************************)
EXTENDS Integers, FiniteSets

CONSTANTS
    Redirect,    \* redirects answered for the link, each with its click
    Worker,
    MaxRetries,  \* max_retries of click_event_create_task
    Window,      \* days in clicks_over_time
    MaxDay,      \* bound on the day
    MaxErrors,   \* bound on the errors of the database
    MayLose      \* whether workers are killed and messages fail to be published

NoMessage == -1
NoTask    == "no task"

ASSUME ClickAssumption ==
    /\ NoTask \notin Redirect
    /\ MaxRetries \in Nat /\ Window \in Nat \ {0}
    /\ MaxDay \in Nat /\ MaxErrors \in Nat /\ MayLose \in BOOLEAN

VARIABLES
    day,              \* the date
    link,             \* the ShortLink row: "live" or "gone"
    clicks,           \* the committed ClickEvent rows: of which redirect, on which day
    asked,            \* redirects that were answered
    message,          \* [Redirect -> retries of its queued message, or NoMessage]
    pc, task, tries, clickedAt,  \* [Worker -> next step, redirect, retries, clicked_at]
    announced,        \* redirects whose click was dispatched to the webhooks
    lost,             \* [Redirect -> why its click will not be stored], an observation
    dpc, cleared,     \* the DELETE request: next step, rows it deleted
    rpc, today, total, clicksToday, chart,  \* the analytics request: next step, results
    errors            \* errors of the database so far

workerVars == <<pc, task, tries, clickedAt>>
deleteVars == <<dpc, cleared>>
reportVars == <<rpc, today, total, clicksToday, chart>>
vars == <<day, link, clicks, asked, message, workerVars, announced, lost, deleteVars,
          reportVars, errors>>

Click == [of: Redirect, day: 0..MaxDay]

Init ==
    /\ day = 0
    /\ link = "live"
    /\ clicks = {}
    /\ asked = {}
    /\ message = [r \in Redirect |-> NoMessage]
    /\ pc = [w \in Worker |-> "idle"]
    /\ task = [w \in Worker |-> NoTask]
    /\ tries = [w \in Worker |-> 0]
    /\ clickedAt = [w \in Worker |-> 0]
    /\ announced = {}
    /\ lost = [r \in Redirect |-> "no"]
    /\ dpc = "idle"
    /\ cleared = {}
    /\ rpc = "idle"
    /\ today = 0
    /\ total = 0
    /\ clicksToday = 0
    /\ chart = [d \in {} |-> 0]
    /\ errors = 0

-----------------------------------------------------------------------------
(* The redirect and click_event_create_task.                               *)

\* click_event_create_task.delay; the redirect is answered whether or not it
\* succeeds, and a cached link may be gone.
Answer(r) ==
    /\ r \notin asked
    /\ asked' = asked \cup {r}
    /\ \/ message' = [message EXCEPT ![r] = 0] /\ UNCHANGED lost
       \/ MayLose /\ lost' = [lost EXCEPT ![r] = "broker"] /\ UNCHANGED message
    /\ UNCHANGED <<day, link, clicks, workerVars, announced, deleteVars, reportVars, errors>>

Goto(w, step) == pc' = [pc EXCEPT ![w] = step]

EndTask(w) ==
    /\ pc' = [pc EXCEPT ![w] = "idle"]
    /\ task' = [task EXCEPT ![w] = NoTask]
    /\ tries' = [tries EXCEPT ![w] = 0]
    /\ clickedAt' = [clickedAt EXCEPT ![w] = 0]

Receive(w, r) ==
    /\ pc[w] = "idle"
    /\ message[r] # NoMessage
    /\ message' = [message EXCEPT ![r] = NoMessage]
    /\ Goto(w, "get")
    /\ task' = [task EXCEPT ![w] = r]
    /\ tries' = [tries EXCEPT ![w] = message[r]]
    /\ UNCHANGED <<day, link, clicks, asked, clickedAt, announced, lost, deleteVars,
                   reportVars, errors>>

\* autoretry_for=(DatabaseError,), max_retries; the mutant is off by one.
OneRetryLess(w) == tries[w] + 1 < MaxRetries
RetriesLeft(w)  == tries[w] < MaxRetries

\* The mutant ends the task and forgets the click.
NotRetried(w) == EndTask(w) /\ UNCHANGED <<message, lost>>

Retry(w) ==
    /\ EndTask(w)
    /\ \/ /\ RetriesLeft(w)
          /\ message' = [message EXCEPT ![task[w]] = tries[w] + 1]
          /\ UNCHANGED lost
       \/ /\ ~RetriesLeft(w)
          /\ lost' = [lost EXCEPT ![task[w]] = "given up"]
          /\ UNCHANGED message
       \/ /\ RetriesLeft(w) /\ MayLose
          /\ lost' = [lost EXCEPT ![task[w]] = "broker"]
          /\ UNCHANGED message

\* A link that is gone ends the task.
GetLink(w) ==
    /\ pc[w] = "get"
    /\ IF link = "live" THEN Goto(w, "insert") /\ UNCHANGED <<task, tries, clickedAt>>
                        ELSE EndTask(w)
    /\ UNCHANGED <<day, link, clicks, asked, message, announced, lost, deleteVars,
                   reportVars, errors>>

\* The webhooks hear of a click on commit; in the mutant they do at once.
AnnouncedEarly(r) == announced' = announced \cup {r}
AtInsert(r)       == UNCHANGED announced

InsertClick(w) ==
    /\ pc[w] = "insert"
    /\ Goto(w, "commit")
    /\ clickedAt' = [clickedAt EXCEPT ![w] = day]
    /\ AtInsert(task[w])
    /\ UNCHANGED <<day, link, clicks, asked, message, task, tries, lost, deleteVars,
                   reportVars, errors>>

\* The check of the foreign key locks the link: it waits for a DELETE of it.
CommitClick(w) ==
    /\ pc[w] = "commit"
    /\ dpc # "removed"
    /\ IF link = "live"
       THEN /\ clicks' = clicks \cup {[of |-> task[w], day |-> clickedAt[w]]}
            /\ Goto(w, "announce")
            /\ UNCHANGED <<task, tries, clickedAt, message, lost>>
       ELSE Retry(w) /\ UNCHANGED clicks
    /\ UNCHANGED <<day, link, asked, announced, deleteVars, reportVars, errors>>

\* _handle_short_link_clicked swallows every exception of the dispatch, for a
\* DatabaseError would run the task, and store the click, again (the mutant).
DispatchRetried(w) == Retry(w)
DispatchFailed(w)  == EndTask(w) /\ UNCHANGED <<message, lost>>

Announce(w) ==
    /\ pc[w] = "announce"
    /\ \/ /\ announced' = announced \cup {task[w]}
          /\ EndTask(w)
          /\ UNCHANGED <<message, lost>>
       \/ DispatchFailed(w) /\ UNCHANGED announced
    /\ UNCHANGED <<day, link, clicks, asked, deleteVars, reportVars, errors>>

\* A statement or the COMMIT fails and nothing is stored. A header that the
\* columns do not take (DataError) fails so at every attempt.
DatabaseFails(w) ==
    /\ pc[w] \in {"get", "insert", "commit"}
    /\ errors < MaxErrors
    /\ errors' = errors + 1
    /\ Retry(w)
    /\ UNCHANGED <<day, link, clicks, asked, announced, deleteVars, reportVars>>

WorkerDies(w) ==
    /\ MayLose
    /\ pc[w] # "idle"
    /\ lost' = IF pc[w] = "announce" THEN lost ELSE [lost EXCEPT ![task[w]] = "killed"]
    /\ EndTask(w)
    /\ UNCHANGED <<day, link, clicks, asked, message, announced, deleteVars, reportVars, errors>>

-----------------------------------------------------------------------------
(* short_link_delete: link.delete() deletes the clicks it can see, then the *)
(* link.                                                                    *)

ClearClicks ==
    /\ dpc = "idle" /\ link = "live"
    /\ dpc' = "cleared"
    /\ cleared' = clicks
    /\ UNCHANGED <<day, link, clicks, asked, message, workerVars, announced, lost,
                   reportVars, errors>>

RemoveLink ==
    /\ dpc = "cleared"
    /\ dpc' = "removed"
    /\ UNCHANGED <<day, link, clicks, asked, message, workerVars, announced, lost, cleared,
                   reportVars, errors>>

\* A click that was stored in between still refers to the link: the COMMIT is
\* an IntegrityError, and the request fails. It may be made again.
CommitDelete ==
    /\ dpc = "removed"
    /\ IF clicks = cleared
       THEN dpc' = "done" /\ link' = "gone" /\ clicks' = {}
       ELSE dpc' = "idle" /\ UNCHANGED <<link, clicks>>
    /\ cleared' = {}
    /\ UNCHANGED <<day, asked, message, workerVars, announced, lost, reportVars, errors>>

-----------------------------------------------------------------------------
(* ShortLinkAnalyticsAPIView: three queries, outside a transaction. The     *)
(* list of recent clicks is left out.                                       *)

CountOf(S, d) == Cardinality({k \in S : k.day = d})

\* The first day of the chart; the mutant is a day late.
OneDayLate(date) == date - (Window - 2)
StartDate(date)  == date - (Window - 1)

\* click_event_get_daily_counts: the days since start_at that have clicks.
click_event_get_daily_counts(start) ==
    [d \in {k.day : k \in {j \in clicks : j.day >= start}} |-> CountOf(clicks, d)]

\* One entry per day from start to end; the mutant leaves out the last one.
WithoutToday(start, end, counts) ==
    [d \in start..(end - 1) |-> IF d \in DOMAIN counts THEN counts[d] ELSE 0]
build_daily_click_counts(start, end, counts) ==
    [d \in start..end |-> IF d \in DOMAIN counts THEN counts[d] ELSE 0]

StartReport ==
    /\ rpc = "idle" /\ link = "live"
    /\ rpc' = "summary"
    /\ today' = day
    /\ UNCHANGED <<day, link, clicks, asked, message, workerVars, announced, lost, deleteVars,
                   total, clicksToday, chart, errors>>

ReadSummary ==
    /\ rpc = "summary"
    /\ rpc' = "daily"
    /\ total' = Cardinality(clicks)
    /\ clicksToday' = Cardinality({k \in clicks : k.day >= today})
    /\ UNCHANGED <<day, link, clicks, asked, message, workerVars, announced, lost, deleteVars,
                   today, chart, errors>>

ReadDaily ==
    /\ rpc = "daily"
    /\ rpc' = "done"
    /\ chart' = build_daily_click_counts(StartDate(today), today,
                    click_event_get_daily_counts(StartDate(today)))
    /\ UNCHANGED <<day, link, clicks, asked, message, workerVars, announced, lost, deleteVars,
                   today, total, clicksToday, errors>>

Midnight ==
    /\ day < MaxDay
    /\ day' = day + 1
    /\ UNCHANGED <<link, clicks, asked, message, workerVars, announced, lost, deleteVars,
                   reportVars, errors>>

-----------------------------------------------------------------------------
TaskNext(w) == GetLink(w) \/ InsertClick(w) \/ CommitClick(w) \/ Announce(w)

Next ==
    \/ \E r \in Redirect : Answer(r) \/ \E w \in Worker : Receive(w, r)
    \/ \E w \in Worker : TaskNext(w) \/ DatabaseFails(w) \/ WorkerDies(w)
    \/ ClearClicks \/ RemoveLink \/ CommitDelete
    \/ StartReport \/ ReadSummary \/ ReadDaily
    \/ Midnight

Spec == Init /\ [][Next]_vars

\* Workers go on with their tasks and empty the queue, and a DELETE that began
\* goes on.
Fairness ==
    /\ \A w \in Worker : WF_vars(TaskNext(w))
    /\ \A r \in Redirect : WF_vars(\E w \in Worker : Receive(w, r))
    /\ WF_vars(RemoveLink \/ CommitDelete)

FairSpec == Spec /\ Fairness

-----------------------------------------------------------------------------
(* Properties.                                                             *)

TypeOK ==
    /\ day \in 0..MaxDay
    /\ link \in {"live", "gone"}
    /\ clicks \subseteq Click
    /\ asked \subseteq Redirect
    /\ message \in [Redirect -> {NoMessage} \cup 0..MaxRetries]
    /\ pc \in [Worker -> {"idle", "get", "insert", "commit", "announce"}]
    /\ task \in [Worker -> Redirect \cup {NoTask}]
    /\ tries \in [Worker -> 0..MaxRetries]
    /\ clickedAt \in [Worker -> 0..MaxDay]
    /\ announced \subseteq Redirect
    /\ lost \in [Redirect -> {"no", "broker", "killed", "given up"}]
    /\ dpc \in {"idle", "cleared", "removed", "done"}
    /\ cleared \subseteq Click
    /\ rpc \in {"idle", "summary", "daily", "done"}
    /\ today \in 0..MaxDay
    /\ total \in 0..Cardinality(asked) /\ clicksToday \in 0..total
    /\ rpc = "done" => chart \in [(today - Window + 1)..today -> 0..Cardinality(asked)]
    /\ errors \in 0..MaxErrors

Stored(r) == \E k \in clicks : k.of = r

\* A redirect is one click, although any statement may fail and have the task
\* retried, and a COMMIT may fail too: the rows stored, the message in the queue
\* and the task on its way to a COMMIT are one at most. (A COMMIT that succeeds
\* unknown to the task is not modelled: its retry would store a second click.)
CountedOnce ==
    \A r \in Redirect :
        Cardinality({k \in clicks : k.of = r})
        + (IF message[r] # NoMessage THEN 1 ELSE 0)
        + Cardinality({w \in Worker : task[w] = r /\ pc[w] # "announce"}) <= 1

\* The webhooks hear only of clicks that are stored.
AnnouncedIsStored ==
    \A r \in announced : Stored(r) \/ link = "gone"

\* A click is given up only when more attempts than max_retries met an error,
\* or for a link that is gone.
NotGivenUpEarly ==
    \A r \in Redirect : lost[r] = "given up" => errors > MaxRetries \/ link = "gone"

\* The three queries see different clicks, and midnight may pass between them,
\* but what the summary counts is in the chart: the clicks of today in its last
\* day, unless they are dated after today ...
Newer == Cardinality({k \in clicks : k.day > today})
TodayConsistent ==
    rpc = "done" /\ link = "live" =>
        today \in DOMAIN chart /\ clicksToday <= chart[today] + Newer

\* ... and every click in one of its days, unless it is dated before the Window
\* or after today. Charted has one member for each click that a chart shows.
Older == Cardinality({k \in clicks : k.day <= today - Window})
Charted(days) == UNION {{d} \X (1..days[d]) : d \in DOMAIN days}
WindowConsistent ==
    rpc = "done" /\ link = "live" => total <= Older + Cardinality(Charted(chart)) + Newer

\* The parts of a report agree although its queries share no transaction.
ReportConsistent == TodayConsistent /\ WindowConsistent

\* The click of every redirect is stored in the end, unless its link is gone
\* or a fault took it.
EveryClickStored ==
    \A r \in Redirect : r \in asked ~> (Stored(r) \/ lost[r] # "no" \/ link = "gone")
=============================================================================
