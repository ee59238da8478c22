------------------------ MODULE ClickAnalytics_proofs ------------------------
(***************************************************************************)
(* Proofs about ClickAnalytics for every set of redirects and of workers,  *)
(* any number of retries, errors and days, and any length of the chart.    *)
(***************************************************************************)
EXTENDS ClickAnalytics, FiniteSetTheorems, FunctionTheorems, TLAPS

Busy == {"get", "insert", "commit"}

\* There is one token per redirect: its message, its task or its row.
TokenInv ==
    /\ \A w \in Worker : pc[w] = "idle" <=> task[w] = NoTask
    /\ \A w \in Worker : task[w] # NoTask => task[w] \in asked /\ message[task[w]] = NoMessage
    /\ \A v, w \in Worker : task[v] = task[w] /\ task[v] # NoTask => v = w
    /\ \A r \in Redirect : message[r] # NoMessage => r \in asked /\ ~Stored(r)
    /\ \A w \in Worker : pc[w] \in Busy => ~Stored(task[w])
    /\ \A w \in Worker : pc[w] = "announce" => Stored(task[w]) \/ link = "gone"

\* The rows are finitely many, one for each of some redirects that were answered.
RowInv ==
    /\ IsFiniteSet(clicks) /\ IsFiniteSet(asked)
    /\ \A k \in clicks : k.of \in asked
    /\ \A j, k \in clicks : j.of = k.of => j = k

\* Every retry was caused by an error, or by the deletion of the link.
RetryInv ==
    link = "live" =>
        /\ \A r \in Redirect : message[r] <= errors
        /\ \A w \in Worker : tries[w] <= errors

\* Rows that the summary counted today are still there.
ReportInv ==
    rpc = "daily" /\ link = "live" =>
        clicksToday <= Cardinality({k \in clicks : k.day >= today})

\* Rows that the summary counted are still there.
TotalInv == rpc = "daily" /\ link = "live" => total <= Cardinality(clicks)

IInv ==
    /\ TypeOK
    /\ TokenInv /\ RowInv
    /\ RetryInv /\ NotGivenUpEarly
    /\ AnnouncedIsStored
    /\ ReportInv /\ TodayConsistent
    /\ TotalInv /\ WindowConsistent

-----------------------------------------------------------------------------
(* Lemmas about the operators.                                             *)

LEMMA Constants ==
    /\ NoTask \notin Redirect
    /\ MaxRetries \in Nat /\ MaxDay \in Nat /\ MaxErrors \in Nat
    /\ Window \in Nat /\ Window >= 1
    /\ NoMessage = -1
  BY ClickAssumption DEF NoMessage

\* Rows are no more than redirects: the redirect of a row is an injection.
LEMMA RowsCounted ==
    ASSUME RowInv
    PROVE  /\ Cardinality(clicks) \in Nat
           /\ Cardinality(asked) \in Nat
           /\ Cardinality(clicks) <= Cardinality(asked)
<1> DEFINE f == [k \in clicks |-> k.of]
<1>1. f \in [clicks -> asked] /\ \A j, k \in clicks : f[j] = f[k] => j = k
  BY DEF RowInv
<1>2. f \in Injection(clicks, asked)
  BY <1>1 DEF Injection, IsInjective
<1> HIDE DEF f
<1>3. Cardinality(clicks) <= Cardinality(asked)
  BY <1>2, FS_Injection DEF RowInv
<1>4. QED
  BY <1>3, FS_CardinalityType DEF RowInv

LEMMA SomeRowsCounted ==
    ASSUME RowInv, NEW S \in SUBSET clicks
    PROVE  /\ IsFiniteSet(S)
           /\ Cardinality(S) \in 0..Cardinality(clicks)
           /\ Cardinality(S) \in 0..Cardinality(asked)
<1>1. IsFiniteSet(S) /\ Cardinality(S) <= Cardinality(clicks)
  BY FS_Subset DEF RowInv
<1>2. Cardinality(S) \in Nat
  BY <1>1, FS_CardinalityType
<1>3. QED
  BY <1>1, <1>2, RowsCounted

\* The chart has an entry for each of its days and no other.
LEMMA ChartDays ==
    ASSUME RowInv, NEW start \in Int, NEW end \in Int
    PROVE  LET counts == click_event_get_daily_counts(start)
               days   == build_daily_click_counts(start, end, counts)
           IN  /\ days \in [start..end -> 0..Cardinality(asked)]
               /\ \A d \in start..end : days[d] = CountOf(clicks, d)
<1> DEFINE counts == click_event_get_daily_counts(start)
           days   == build_daily_click_counts(start, end, counts)
<1>1. \A d : CountOf(clicks, d) \in 0..Cardinality(asked)
  BY SomeRowsCounted DEF CountOf
<1>2. ASSUME NEW d \in start..end
      PROVE  days[d] = CountOf(clicks, d)
  <2>1. DOMAIN counts = {k.day : k \in {j \in clicks : j.day >= start}}
    BY DEF click_event_get_daily_counts
  <2>2. CASE d \in DOMAIN counts
    <3>1. counts[d] = CountOf(clicks, d)
      BY <2>1, <2>2 DEF click_event_get_daily_counts
    <3>2. QED
      BY <2>2, <3>1 DEF build_daily_click_counts
  <2>3. CASE d \notin DOMAIN counts
    <3>1. {k \in clicks : k.day = d} = {}
      BY <1>2, <2>1, <2>3
    <3>2. CountOf(clicks, d) = 0
      BY <3>1, FS_EmptySet DEF CountOf
    <3>3. QED
      BY <2>3, <3>2 DEF build_daily_click_counts
  <2>4. QED
    BY <2>2, <2>3
<1>3. days = [d \in start..end |-> days[d]]
  BY DEF build_daily_click_counts
<1> HIDE DEF days
<1>4. QED
  BY <1>1, <1>2, <1>3 DEF days

-----------------------------------------------------------------------------
(* Type correctness.                                                       *)

LEMMA EndTaskType ==
    ASSUME TypeOK, NEW w \in Worker, EndTask(w)
    PROVE  /\ pc' \in [Worker -> {"idle", "get", "insert", "commit", "announce"}]
           /\ task' \in [Worker -> Redirect \cup {NoTask}]
           /\ tries' \in [Worker -> 0..MaxRetries]
           /\ clickedAt' \in [Worker -> 0..MaxDay]
<1>1. 0 \in 0..MaxRetries /\ 0 \in 0..MaxDay
  BY Constants
<1>2. QED
  BY <1>1 DEF TypeOK, EndTask

LEMMA WorkingTask ==
    ASSUME TypeOK, TokenInv, NEW w \in Worker, pc[w] # "idle"
    PROVE  task[w] \in Redirect /\ task[w] # NoTask
  BY DEF TypeOK, TokenInv

LEMMA RetryType ==
    ASSUME TypeOK, NEW w \in Worker, task[w] \in Redirect, Retry(w)
    PROVE  /\ message' \in [Redirect -> {NoMessage} \cup 0..MaxRetries]
           /\ lost' \in [Redirect -> {"no", "broker", "killed", "given up"}]
<1>1. tries[w] \in 0..MaxRetries /\ MaxRetries \in Nat
  BY Constants DEF TypeOK
<1>2. RetriesLeft(w) => tries[w] + 1 \in 0..MaxRetries
  BY <1>1 DEF RetriesLeft
<1>3. QED
  BY <1>2 DEF TypeOK, Retry

\* A step that leaves the report and the redirects alone keeps their types.
LEMMA ReportType ==
    ASSUME TypeOK, UNCHANGED <<reportVars, asked>>
    PROVE  /\ asked' \subseteq Redirect
           /\ rpc' \in {"idle", "summary", "daily", "done"}
           /\ today' \in 0..MaxDay
           /\ total' \in 0..Cardinality(asked') /\ clicksToday' \in 0..total'
           /\ rpc' = "done" =>
                 chart' \in [(today' - Window + 1)..today' -> 0..Cardinality(asked')]
  BY DEF TypeOK, reportVars

LEMMA TaskType ==
    ASSUME TypeOK, TokenInv, NEW w \in Worker,
           TaskNext(w) \/ DatabaseFails(w) \/ WorkerDies(w)
    PROVE  TypeOK'
<1> USE DEF workerVars, deleteVars
<1>1. CASE GetLink(w)
  <2>1. \/ Goto(w, "insert") /\ UNCHANGED <<task, tries, clickedAt>>
        \/ EndTask(w)
    BY <1>1 DEF GetLink
  <2>2. /\ pc' \in [Worker -> {"idle", "get", "insert", "commit", "announce"}]
        /\ task' \in [Worker -> Redirect \cup {NoTask}]
        /\ tries' \in [Worker -> 0..MaxRetries]
        /\ clickedAt' \in [Worker -> 0..MaxDay]
    BY <2>1, EndTaskType DEF Goto, TypeOK
  <2>3. QED
    BY <1>1, <2>2, ReportType DEF GetLink, TypeOK
<1>2. CASE InsertClick(w)
  <2>1. /\ pc' \in [Worker -> {"idle", "get", "insert", "commit", "announce"}]
        /\ clickedAt' \in [Worker -> 0..MaxDay]
    BY <1>2 DEF InsertClick, Goto, TypeOK
  <2>2. QED
    BY <1>2, <2>1, ReportType DEF InsertClick, AtInsert, TypeOK
<1>3. CASE CommitClick(w)
  <2>0. task[w] \in Redirect
    BY <1>3, WorkingTask DEF CommitClick
  <2>1. CASE link = "live"
    <3>1. pc' \in [Worker -> {"idle", "get", "insert", "commit", "announce"}]
      BY <1>3, <2>1 DEF CommitClick, Goto, TypeOK
    <3>2. [of |-> task[w], day |-> clickedAt[w]] \in Click
      BY <2>0 DEF TypeOK, Click
    <3>3. clicks' \subseteq Click
      BY <1>3, <2>1, <3>2 DEF CommitClick, TypeOK
    <3>4. QED
      BY <1>3, <2>1, <3>1, <3>3, ReportType DEF CommitClick, TypeOK
  <2>2. CASE link # "live"
    <3>1. Retry(w) /\ EndTask(w)
      BY <1>3, <2>2 DEF CommitClick, Retry
    <3>2. QED
      BY <1>3, <2>0, <2>2, <3>1, RetryType, EndTaskType, ReportType DEF CommitClick, TypeOK
  <2>3. QED
    BY <2>1, <2>2
<1>4. CASE Announce(w)
  <2>0. task[w] \in Redirect /\ EndTask(w)
    BY <1>4, WorkingTask DEF Announce, DispatchFailed
  <2>1. announced' \subseteq Redirect
    BY <1>4, <2>0 DEF Announce, TypeOK
  <2>2. QED
    BY <1>4, <2>0, <2>1, EndTaskType, ReportType DEF Announce, DispatchFailed, TypeOK
<1>5. CASE DatabaseFails(w)
  <2>0. task[w] \in Redirect /\ Retry(w) /\ EndTask(w)
    BY <1>5, WorkingTask DEF DatabaseFails, Retry
  <2>1. errors' \in 0..MaxErrors
    <3>1. errors \in 0..MaxErrors /\ errors < MaxErrors /\ errors' = errors + 1
      BY <1>5 DEF DatabaseFails, TypeOK
    <3>2. QED
      BY <3>1, Constants
  <2>2. QED
    BY <1>5, <2>0, <2>1, RetryType, EndTaskType, ReportType DEF DatabaseFails, TypeOK
<1>6. CASE WorkerDies(w)
  <2>0. EndTask(w)
    BY <1>6 DEF WorkerDies
  <2>1. lost' \in [Redirect -> {"no", "broker", "killed", "given up"}]
    BY <1>6 DEF WorkerDies, TypeOK
  <2>2. QED
    BY <1>6, <2>0, <2>1, EndTaskType, ReportType DEF WorkerDies, TypeOK
<1>7. QED
  BY <1>1, <1>2, <1>3, <1>4, <1>5, <1>6 DEF TaskNext

LEMMA QueueType ==
    ASSUME TypeOK, RowInv, NEW r \in Redirect,
           Answer(r) \/ \E w \in Worker : Receive(w, r)
    PROVE  TypeOK'
<1> USE DEF workerVars, deleteVars, reportVars
<1>1. CASE Answer(r)
  <2>0. 0 \in 0..MaxRetries
    BY Constants
  <2>1. message' \in [Redirect -> {NoMessage} \cup 0..MaxRetries]
    BY <1>1, <2>0 DEF Answer, TypeOK
  <2>2. lost' \in [Redirect -> {"no", "broker", "killed", "given up"}]
    BY <1>1 DEF Answer, TypeOK
  <2>3. asked' = asked \cup {r} /\ Cardinality(asked') = Cardinality(asked) + 1
    BY <1>1, FS_AddElement DEF Answer, RowInv
  <2>4. Cardinality(asked) \in Nat
    BY RowsCounted
  <2>5. 0..Cardinality(asked) \subseteq 0..Cardinality(asked')
    BY <2>3, <2>4
  <2>6. total \in 0..Cardinality(asked')
    BY <2>5 DEF TypeOK
  <2>7. rpc = "done" => chart \in [(today - Window + 1)..today -> 0..Cardinality(asked')]
    BY <2>5 DEF TypeOK
  <2>8. QED
    BY <1>1, <2>1, <2>2, <2>3, <2>6, <2>7 DEF Answer, TypeOK
<1>2. ASSUME NEW w \in Worker, Receive(w, r)
      PROVE  TypeOK'
  <2>1. message' \in [Redirect -> {NoMessage} \cup 0..MaxRetries]
    BY <1>2 DEF Receive, TypeOK
  <2>2. message[r] \in 0..MaxRetries
    BY <1>2 DEF Receive, TypeOK
  <2>3. tries' \in [Worker -> 0..MaxRetries]
    BY <1>2, <2>2 DEF Receive, TypeOK
  <2>4. pc' \in [Worker -> {"idle", "get", "insert", "commit", "announce"}]
    BY <1>2 DEF Receive, Goto, TypeOK
  <2>5. task' \in [Worker -> Redirect \cup {NoTask}]
    BY <1>2 DEF Receive, TypeOK
  <2>6. QED
    BY <1>2, <2>1, <2>3, <2>4, <2>5, ReportType DEF Receive, TypeOK
<1>3. QED
  BY <1>1, <1>2

LEMMA RestType ==
    ASSUME TypeOK, RowInv,
           \/ ClearClicks \/ RemoveLink \/ CommitDelete
           \/ StartReport \/ ReadSummary \/ ReadDaily \/ Midnight
    PROVE  TypeOK'
<1> USE DEF workerVars, deleteVars
<1>1. CASE ClearClicks \/ RemoveLink \/ CommitDelete
  BY <1>1, ReportType DEF ClearClicks, RemoveLink, CommitDelete, TypeOK
<1>2. CASE Midnight
  <2>1. day' \in 0..MaxDay
    <3>1. day \in 0..MaxDay /\ day < MaxDay /\ day' = day + 1
      BY <1>2 DEF Midnight, TypeOK
    <3>2. QED
      BY <3>1, Constants
  <2>2. QED
    BY <1>2, <2>1, ReportType DEF Midnight, TypeOK
<1>3. CASE StartReport
  BY <1>3 DEF StartReport, TypeOK
<1>4. CASE ReadSummary
  <2>1. total' \in 0..Cardinality(asked)
    BY <1>4, SomeRowsCounted DEF ReadSummary
  <2>2. clicksToday' \in 0..total'
    <3>1. {k \in clicks : k.day >= today} \in SUBSET clicks
      OBVIOUS
    <3>2. Cardinality({k \in clicks : k.day >= today}) \in 0..Cardinality(clicks)
      BY <3>1, SomeRowsCounted
    <3>3. QED
      BY <1>4, <3>2 DEF ReadSummary
  <2>3. QED
    BY <1>4, <2>1, <2>2 DEF ReadSummary, TypeOK
<1>5. CASE ReadDaily
  <2>1. today \in Int /\ StartDate(today) \in Int /\ StartDate(today) = today - Window + 1
    <3>1. today \in 0..MaxDay
      BY DEF TypeOK
    <3>2. QED
      BY <3>1, Constants DEF StartDate
  <2>2. chart' \in [StartDate(today)..today -> 0..Cardinality(asked)]
    BY <1>5, <2>1, ChartDays DEF ReadDaily
  <2>3. QED
    BY <1>5, <2>1, <2>2 DEF ReadDaily, TypeOK
<1>6. QED
  BY <1>1, <1>2, <1>3, <1>4, <1>5

-----------------------------------------------------------------------------
(* What a step does to the tokens.                                         *)

\* A step of the DELETE, of the report or of the clock that deletes nothing.
Rests == UNCHANGED <<link, clicks, asked, message, pc, task, tries, announced, lost, errors>>

\* The task of w goes on to its next step.
Advances(w) ==
    /\ pc[w] \in Busy
    /\ \E s \in Busy : Goto(w, s)
    /\ UNCHANGED <<link, clicks, asked, message, task, tries, announced, lost, errors>>

\* The task of w stores its click.
Stores(w) ==
    /\ pc[w] = "commit" /\ link = "live"
    /\ clicks' = clicks \cup {[of |-> task[w], day |-> clickedAt[w]]}
    /\ Goto(w, "announce")
    /\ UNCHANGED <<link, asked, message, task, tries, announced, lost, errors>>

\* The task of w ends; its message may be queued again.
Ends(w) ==
    /\ pc[w] # "idle"
    /\ EndTask(w)
    /\ \/ UNCHANGED message
       \/ pc[w] \in Busy /\ \E n : message' = [message EXCEPT ![task[w]] = n]
    /\ UNCHANGED <<link, clicks, asked>>

\* The link and its clicks are deleted.
Deletes ==
    /\ link' = "gone" /\ clicks' = {}
    /\ UNCHANGED <<asked, message, pc, task, tries, announced, lost, errors>>

LEMMA TaskShape ==
    ASSUME NEW w \in Worker, TaskNext(w) \/ DatabaseFails(w) \/ WorkerDies(w)
    PROVE  Advances(w) \/ Stores(w) \/ Ends(w)
<1>1. CASE GetLink(w)
  BY <1>1 DEF GetLink, Advances, Ends, Busy
<1>2. CASE InsertClick(w)
  BY <1>2 DEF InsertClick, AtInsert, Advances, Busy
<1>3. CASE CommitClick(w)
  BY <1>3 DEF CommitClick, Stores, Ends, Retry, Busy
<1>4. CASE Announce(w)
  BY <1>4 DEF Announce, DispatchFailed, Ends, Busy
<1>5. CASE DatabaseFails(w)
  BY <1>5 DEF DatabaseFails, Ends, Retry, Busy
<1>6. CASE WorkerDies(w)
  BY <1>6 DEF WorkerDies, Ends
<1>7. QED
  BY <1>1, <1>2, <1>3, <1>4, <1>5, <1>6 DEF TaskNext

LEMMA RestShape ==
    ASSUME \/ ClearClicks \/ RemoveLink \/ CommitDelete
           \/ StartReport \/ ReadSummary \/ ReadDaily \/ Midnight
           \/ UNCHANGED vars
    PROVE  Rests \/ Deletes
<1> USE DEF workerVars
<1>1. CASE ClearClicks \/ RemoveLink
  BY <1>1 DEF ClearClicks, RemoveLink, Rests
<1>2. CASE CommitDelete
  BY <1>2 DEF CommitDelete, Rests, Deletes
<1>3. CASE StartReport \/ ReadSummary \/ ReadDaily \/ Midnight
  BY <1>3 DEF StartReport, ReadSummary, ReadDaily, Midnight, Rests
<1>4. CASE UNCHANGED vars
  BY <1>4 DEF vars, Rests
<1>5. QED
  BY <1>1, <1>2, <1>3, <1>4

-----------------------------------------------------------------------------
(* One token per redirect.                                                 *)

LEMMA RestTokens ==
    ASSUME TokenInv, Rests \/ Deletes
    PROVE  TokenInv'
<1>1. CASE Rests
  BY <1>1 DEF TokenInv, Stored, Rests
<1>2. CASE Deletes
  BY <1>2 DEF TokenInv, Stored, Deletes
<1>3. QED
  BY <1>1, <1>2

LEMMA AnswerTokens ==
    ASSUME TypeOK, TokenInv, RowInv, NEW r \in Redirect, Answer(r)
    PROVE  TokenInv'
<1>1. /\ r \notin asked /\ asked' = asked \cup {r}
      /\ UNCHANGED <<link, clicks, pc, task>>
      /\ \A q \in Redirect : q # r => message'[q] = message[q]
  BY DEF Answer, workerVars, TypeOK
<1>2. ~Stored(r)
  BY <1>1 DEF RowInv, Stored
<1>3. \A w \in Worker : task[w] \in Redirect \cup {NoTask}
  BY DEF TypeOK
<1>4. \A w \in Worker : task'[w] # NoTask => task'[w] \in asked' /\ message'[task'[w]] = NoMessage
  BY <1>1, <1>3 DEF TokenInv
<1>5. \A q \in Redirect : message'[q] # NoMessage => q \in asked' /\ ~Stored(q)'
  BY <1>1, <1>2 DEF TokenInv, Stored
<1>6. QED
  BY <1>1, <1>4, <1>5 DEF TokenInv, Stored

LEMMA ReceiveTokens ==
    ASSUME TypeOK, TokenInv, NEW r \in Redirect, NEW w \in Worker, Receive(w, r)
    PROVE  TokenInv'
<1>1. /\ pc[w] = "idle" /\ message[r] # NoMessage
      /\ UNCHANGED <<link, clicks, asked>>
      /\ message' = [message EXCEPT ![r] = NoMessage]
      /\ pc' = [pc EXCEPT ![w] = "get"]
      /\ task' = [task EXCEPT ![w] = r]
  BY DEF Receive, Goto
<1>2. r \in asked /\ ~Stored(r) /\ r # NoTask
  BY <1>1, Constants DEF TokenInv
<1>3. \A v \in Worker : task[v] # r
  BY <1>1, <1>2 DEF TokenInv
<1>4. /\ pc'[w] = "get" /\ task'[w] = r /\ message'[r] = NoMessage
      /\ \A v \in Worker : v # w => pc'[v] = pc[v] /\ task'[v] = task[v]
      /\ \A q \in Redirect : q # r => message'[q] = message[q]
  BY <1>1 DEF TypeOK
<1>5. \A v \in Worker : task[v] \in Redirect \cup {NoTask}
  BY DEF TypeOK
<1>6. \A v \in Worker : task'[v] # NoTask => task'[v] \in asked' /\ message'[task'[v]] = NoMessage
  BY <1>1, <1>2, <1>4, <1>5 DEF TokenInv
<1>7. \A u, v \in Worker : task'[u] = task'[v] /\ task'[u] # NoTask => u = v
  BY <1>3, <1>4 DEF TokenInv
<1>8. \A q \in Redirect : message'[q] # NoMessage => q \in asked' /\ ~Stored(q)'
  BY <1>1, <1>4 DEF TokenInv, Stored
<1>9. QED
  BY <1>1, <1>2, <1>4, <1>6, <1>7, <1>8 DEF TokenInv, Stored

LEMMA AdvanceTokens ==
    ASSUME TypeOK, TokenInv, NEW w \in Worker, Advances(w)
    PROVE  TokenInv'
<1>1. PICK s \in Busy : pc' = [pc EXCEPT ![w] = s]
  BY DEF Advances, Goto
<1>2. pc[w] \in Busy /\ UNCHANGED <<link, clicks, asked, message, task>>
  BY DEF Advances
<1>3. pc'[w] = s /\ \A v \in Worker : v # w => pc'[v] = pc[v]
  BY <1>1 DEF TypeOK
<1>4. \A v \in Worker : /\ pc'[v] = "idle" <=> pc[v] = "idle"
                        /\ pc'[v] \in Busy <=> pc[v] \in Busy
                        /\ pc'[v] = "announce" <=> pc[v] = "announce"
  BY <1>2, <1>3 DEF Busy
<1>5. QED
  BY <1>2, <1>4 DEF TokenInv, Stored

LEMMA StoreTokens ==
    ASSUME TypeOK, TokenInv, NEW w \in Worker, Stores(w)
    PROVE  TokenInv'
<1>1. /\ pc[w] = "commit" /\ pc' = [pc EXCEPT ![w] = "announce"]
      /\ clicks' = clicks \cup {[of |-> task[w], day |-> clickedAt[w]]}
      /\ UNCHANGED <<link, asked, message, task>>
  BY DEF Stores, Goto
<1>2. pc'[w] = "announce" /\ \A v \in Worker : v # w => pc'[v] = pc[v]
  BY <1>1 DEF TypeOK
<1>3. task[w] \in Redirect /\ task[w] # NoTask
  BY <1>1, WorkingTask
<1>4. \A q : (\E k \in clicks' : k.of = q) <=> Stored(q) \/ q = task[w]
  <2> DEFINE click == [of |-> task[w], day |-> clickedAt[w]]
  <2>1. click.of = task[w] /\ clicks' = clicks \cup {click}
    BY <1>1
  <2> HIDE DEF click
  <2>2. QED
    BY <2>1 DEF Stored
<1>5. /\ message[task[w]] = NoMessage
      /\ \A v \in Worker : task[v] = task[w] => v = w
  BY <1>3 DEF TokenInv
<1>6. \A v \in Worker : pc'[v] \in Busy => ~(\E k \in clicks' : k.of = task[v])
  <2>1. ASSUME NEW v \in Worker, pc'[v] \in Busy
        PROVE  v # w /\ ~Stored(task[v]) /\ task[v] # NoTask
    BY <1>2, <2>1 DEF TokenInv, Busy
  <2>2. QED
    BY <1>4, <1>5, <2>1
<1>7. \A v \in Worker : pc'[v] = "announce" =>
          (\E k \in clicks' : k.of = task[v]) \/ link = "gone"
  BY <1>2, <1>4 DEF TokenInv
<1>8. \A r \in Redirect : message[r] # NoMessage => ~(\E k \in clicks' : k.of = r)
  BY <1>4, <1>5 DEF TokenInv
<1>9. \A v \in Worker : pc'[v] = "idle" <=> task[v] = NoTask
  BY <1>1, <1>2 DEF TokenInv
<1>10. QED
  BY <1>1, <1>6, <1>7, <1>8, <1>9 DEF TokenInv, Stored

LEMMA EndTokens ==
    ASSUME TypeOK, TokenInv, NEW w \in Worker, Ends(w)
    PROVE  TokenInv'
<1>1. /\ pc[w] # "idle"
      /\ pc' = [pc EXCEPT ![w] = "idle"] /\ task' = [task EXCEPT ![w] = NoTask]
      /\ UNCHANGED <<link, clicks, asked>>
  BY DEF Ends, EndTask
<1>2. /\ pc'[w] = "idle" /\ task'[w] = NoTask
      /\ \A v \in Worker : v # w => pc'[v] = pc[v] /\ task'[v] = task[v]
  BY <1>1 DEF TypeOK
<1>3. task[w] \in Redirect /\ task[w] # NoTask /\ task[w] \in asked
  BY <1>1, WorkingTask DEF TokenInv
<1>4. \A q \in Redirect : q # task[w] => message'[q] = message[q]
  BY <1>3 DEF Ends, TypeOK
<1>5. message'[task[w]] # NoMessage => ~Stored(task[w])
  BY <1>3 DEF Ends, TokenInv
<1>6. \A v \in Worker : task[v] \in Redirect \cup {NoTask}
  BY DEF TypeOK
<1>7. \A v \in Worker : task'[v] # NoTask => task'[v] \in asked' /\ message'[task'[v]] = NoMessage
  BY <1>1, <1>2, <1>3, <1>4, <1>6 DEF TokenInv
<1>8. \A q \in Redirect : message'[q] # NoMessage => q \in asked' /\ ~Stored(q)
  BY <1>1, <1>3, <1>4, <1>5 DEF TokenInv
<1>9. /\ \A v \in Worker : pc'[v] \in Busy => ~Stored(task'[v])
      /\ \A v \in Worker : pc'[v] = "announce" => Stored(task'[v]) \/ link' = "gone"
  BY <1>1, <1>2 DEF TokenInv, Busy
<1>10. /\ \A v \in Worker : pc'[v] = "idle" <=> task'[v] = NoTask
       /\ \A u, v \in Worker : task'[u] = task'[v] /\ task'[u] # NoTask => u = v
  BY <1>2 DEF TokenInv
<1>11. QED
  BY <1>1, <1>7, <1>8, <1>9, <1>10 DEF TokenInv, Stored

-----------------------------------------------------------------------------
(* The rows, the retries and the announcements.                            *)

LEMMA StoreRows ==
    ASSUME TypeOK, TokenInv, RowInv, NEW w \in Worker, Stores(w)
    PROVE  RowInv'
<1> DEFINE click == [of |-> task[w], day |-> clickedAt[w]]
<1>1. /\ pc[w] \in Busy /\ click.of = task[w]
      /\ clicks' = clicks \cup {click} /\ UNCHANGED asked
  BY DEF Stores, Busy
<1>2. task[w] \in asked /\ \A k \in clicks : k.of # task[w]
  BY <1>1, WorkingTask DEF TokenInv, Stored, Busy
<1> HIDE DEF click
<1>3. IsFiniteSet(clicks')
  BY <1>1, FS_AddElement DEF RowInv
<1>4. QED
  BY <1>1, <1>2, <1>3 DEF RowInv

LEMMA RowsKept ==
    ASSUME TypeOK, TokenInv, RowInv, [Next]_vars
    PROVE  RowInv'
<1>1. ASSUME NEW r \in Redirect, Answer(r)
      PROVE  RowInv'
  <2>1. asked' = asked \cup {r} /\ UNCHANGED clicks
    BY <1>1 DEF Answer
  <2>2. IsFiniteSet(asked')
    BY <2>1, FS_AddElement DEF RowInv
  <2>3. QED
    BY <2>1, <2>2 DEF RowInv
<1>2. ASSUME NEW r \in Redirect, NEW w \in Worker, Receive(w, r)
      PROVE  RowInv'
  BY <1>2 DEF Receive, RowInv
<1>3. ASSUME NEW w \in Worker, Advances(w) \/ Ends(w)
      PROVE  RowInv'
  BY <1>3 DEF Advances, Ends, RowInv
<1>4. CASE Rests
  BY <1>4 DEF Rests, RowInv
<1>5. CASE Deletes
  BY <1>5, FS_EmptySet DEF Deletes, RowInv
<1>6. QED
  BY <1>1, <1>2, <1>3, <1>4, <1>5, StoreRows, TaskShape, RestShape DEF Next

\* A message that is queued again is one error older, unless the link is gone.
LEMMA RetryCause ==
    ASSUME TypeOK, TokenInv, RetryInv, NEW w \in Worker,
           Retry(w), pc[w] # "idle", link = "live",
           errors' = errors + 1
    PROVE  /\ \A r \in Redirect : message'[r] <= errors'
           /\ \A v \in Worker : tries'[v] <= errors'
           /\ \A r \in Redirect :
                 lost'[r] = "given up" => lost[r] = "given up" \/ errors' > MaxRetries
<1>1. task[w] \in Redirect
  BY WorkingTask
<1>2. /\ errors \in Nat /\ \A v \in Worker : tries[v] \in Nat
      /\ \A r \in Redirect : message[r] \in Int
  <2>1. /\ errors \in 0..MaxErrors /\ \A v \in Worker : tries[v] \in 0..MaxRetries
        /\ \A r \in Redirect : message[r] \in {NoMessage} \cup 0..MaxRetries
    BY DEF TypeOK
  <2>2. QED
    BY <2>1, Constants
<1>3. /\ \A r \in Redirect : message[r] <= errors
      /\ \A v \in Worker : tries[v] <= errors
  BY DEF RetryInv
<1>4. \A r \in Redirect : message'[r] = message[r] \/ message'[r] = tries[w] + 1
  BY <1>1 DEF Retry, TypeOK
<1>5. \A v \in Worker : tries'[v] = tries[v] \/ tries'[v] = 0
  BY DEF Retry, EndTask, TypeOK
<1>6. \A r \in Redirect : message'[r] <= errors'
  BY <1>2, <1>3, <1>4
<1>7. \A v \in Worker : tries'[v] <= errors'
  BY <1>2, <1>3, <1>5
<1>8. ~RetriesLeft(w) => errors' > MaxRetries
  BY <1>2, <1>3, Constants DEF RetriesLeft
<1>9. \A r \in Redirect :
          lost'[r] = "given up" => lost[r] = "given up" \/ ~RetriesLeft(w)
  BY <1>1 DEF Retry, TypeOK
<1>10. QED
  BY <1>6, <1>7, <1>8, <1>9

LEMMA RetriesKept ==
    ASSUME TypeOK, TokenInv, RetryInv, NotGivenUpEarly, [Next]_vars
    PROVE  RetryInv' /\ NotGivenUpEarly'
<1>0. errors \in Nat /\ MaxRetries \in Nat
  <2>1. errors \in 0..MaxErrors
    BY DEF TypeOK
  <2>2. QED
    BY <2>1, Constants
<1>1. ASSUME NEW r \in Redirect, Answer(r)
      PROVE  RetryInv' /\ NotGivenUpEarly'
  <2>1. /\ UNCHANGED <<link, tries, errors>>
        /\ \A q \in Redirect : message'[q] = message[q] \/ message'[q] = 0
        /\ \A q \in Redirect : lost'[q] = "given up" => lost[q] = "given up"
    BY <1>1 DEF Answer, workerVars, TypeOK
  <2>2. link = "live" => \A q \in Redirect : message'[q] <= errors
    <3>1. 0 <= errors
      BY <1>0
    <3>2. QED
      BY <2>1, <3>1 DEF RetryInv
  <2>3. RetryInv'
    BY <2>1, <2>2 DEF RetryInv
  <2>4. QED
    BY <2>1, <2>3 DEF NotGivenUpEarly
<1>2. ASSUME NEW r \in Redirect, NEW w \in Worker, Receive(w, r)
      PROVE  RetryInv' /\ NotGivenUpEarly'
  <2>1. /\ UNCHANGED <<link, lost, errors>>
        /\ \A q \in Redirect : message'[q] = message[q] \/ message'[q] = -1
        /\ \A v \in Worker : tries'[v] = tries[v] \/ tries'[v] = message[r]
    BY <1>2, Constants DEF Receive, TypeOK
  <2>2. RetryInv'
    BY <1>0, <2>1 DEF RetryInv
  <2>3. QED
    BY <2>1, <2>2 DEF NotGivenUpEarly
<1>3. ASSUME NEW w \in Worker, Advances(w) \/ Stores(w)
      PROVE  RetryInv' /\ NotGivenUpEarly'
  BY <1>3 DEF Advances, Stores, RetryInv, NotGivenUpEarly
<1>4. ASSUME NEW w \in Worker, DatabaseFails(w)
      PROVE  RetryInv' /\ NotGivenUpEarly'
  <2>1. /\ Retry(w) /\ pc[w] # "idle"
        /\ errors' = errors + 1 /\ UNCHANGED link
    BY <1>4 DEF DatabaseFails
  <2>2. CASE link = "live"
    <3>1. RetryInv'
      BY <2>1, <2>2, RetryCause DEF RetryInv
    <3>0. errors > MaxRetries => errors' > MaxRetries
      BY <1>0, <2>1
    <3>2. \A r \in Redirect : lost[r] = "given up" => errors' > MaxRetries
      BY <2>2, <3>0 DEF NotGivenUpEarly
    <3>3. \A r \in Redirect : lost'[r] = "given up" => errors' > MaxRetries
      BY <2>1, <2>2, <3>2, RetryCause
    <3>4. QED
      BY <3>1, <3>3 DEF NotGivenUpEarly
  <2>3. CASE link # "live"
    BY <2>1, <2>3 DEF RetryInv, NotGivenUpEarly, TypeOK
  <2>4. QED
    BY <2>2, <2>3
<1>5. ASSUME NEW w \in Worker, CommitClick(w), link # "live"
      PROVE  RetryInv' /\ NotGivenUpEarly'
  BY <1>5 DEF CommitClick, RetryInv, NotGivenUpEarly, TypeOK
<1>6. ASSUME NEW w \in Worker,
             \/ GetLink(w) /\ link # "live"
             \/ Announce(w) \/ WorkerDies(w)
      PROVE  RetryInv' /\ NotGivenUpEarly'
  <2>1. EndTask(w) /\ UNCHANGED <<link, message, errors>>
    BY <1>6 DEF GetLink, Announce, DispatchFailed, WorkerDies
  <2>2. \A q \in Redirect : lost'[q] = "given up" => lost[q] = "given up"
    BY <1>6 DEF GetLink, Announce, DispatchFailed, WorkerDies, TypeOK
  <2>3. \A v \in Worker : tries'[v] = tries[v] \/ tries'[v] = 0
    BY <2>1 DEF EndTask, TypeOK
  <2>4. RetryInv'
    BY <1>0, <2>1, <2>3 DEF RetryInv
  <2>5. QED
    BY <2>1, <2>2, <2>4 DEF NotGivenUpEarly
<1>7. ASSUME NEW w \in Worker, TaskNext(w) \/ WorkerDies(w)
      PROVE  RetryInv' /\ NotGivenUpEarly'
  <2>1. CASE GetLink(w) /\ link = "live"
    BY <1>3, <2>1 DEF GetLink, Advances, Busy
  <2>2. CASE InsertClick(w)
    BY <1>3, <2>2 DEF InsertClick, AtInsert, Advances, Busy
  <2>3. CASE CommitClick(w) /\ link = "live"
    BY <1>3, <2>3 DEF CommitClick, Stores
  <2>4. QED
    BY <1>5, <1>6, <1>7, <2>1, <2>2, <2>3 DEF TaskNext
<1>8. CASE Rests \/ Deletes
  BY <1>8 DEF Rests, Deletes, RetryInv, NotGivenUpEarly
<1>9. QED
  BY <1>1, <1>2, <1>4, <1>7, <1>8, RestShape DEF Next

LEMMA AnnouncementsKept ==
    ASSUME TypeOK, TokenInv, AnnouncedIsStored, [Next]_vars
    PROVE  AnnouncedIsStored'
<1>1. ASSUME NEW r \in Redirect, Answer(r) \/ \E w \in Worker : Receive(w, r)
      PROVE  AnnouncedIsStored'
  BY <1>1 DEF Answer, Receive, AnnouncedIsStored, Stored
<1>2. ASSUME NEW w \in Worker, Announce(w)
      PROVE  AnnouncedIsStored'
  <2>1. Stored(task[w]) \/ link = "gone"
    BY <1>2 DEF Announce, TokenInv
  <2>2. /\ announced' = announced \/ announced' = announced \cup {task[w]}
        /\ UNCHANGED <<link, clicks>>
    BY <1>2 DEF Announce
  <2>3. QED
    BY <2>1, <2>2 DEF AnnouncedIsStored, Stored
<1>3. ASSUME NEW w \in Worker, Stores(w)
      PROVE  AnnouncedIsStored'
  BY <1>3 DEF Stores, AnnouncedIsStored, Stored
<1>4. ASSUME NEW w \in Worker,
             GetLink(w) \/ InsertClick(w) \/ DatabaseFails(w) \/ WorkerDies(w)
      PROVE  AnnouncedIsStored'
  BY <1>4 DEF GetLink, InsertClick, AtInsert, DatabaseFails, WorkerDies,
              AnnouncedIsStored, Stored
<1>5. ASSUME NEW w \in Worker, CommitClick(w)
      PROVE  AnnouncedIsStored'
  <2>1. CASE link = "live"
    BY <1>3, <1>5, <2>1 DEF CommitClick, Stores
  <2>2. CASE link # "live"
    BY <1>5, <2>2 DEF CommitClick, AnnouncedIsStored, Stored
  <2>3. QED
    BY <2>1, <2>2
<1>6. CASE Rests \/ Deletes
  BY <1>6 DEF Rests, Deletes, AnnouncedIsStored, Stored
<1>7. QED
  BY <1>1, <1>2, <1>4, <1>5, <1>6, RestShape DEF Next, TaskNext

-----------------------------------------------------------------------------
(* The report.                                                             *)

\* The clicks since a day are those of the day and the later ones.
LEMMA SinceSplit ==
    ASSUME TypeOK, RowInv
    PROVE  Cardinality({k \in clicks : k.day >= today}) = CountOf(clicks, today) + Newer
<1> DEFINE S == {k \in clicks : k.day = today}
           T == {k \in clicks : k.day > today}
<1>1. \A k \in clicks : k.day \in 0..MaxDay
  BY DEF TypeOK, Click
<1>2. today \in 0..MaxDay /\ MaxDay \in Nat
  BY Constants DEF TypeOK
<1>3. {k \in clicks : k.day >= today} = S \cup T
  BY <1>1, <1>2
<1>4. S \cap T = {}
  BY <1>1, <1>2
<1>5. /\ S \in SUBSET clicks /\ T \in SUBSET clicks
      /\ CountOf(clicks, today) = Cardinality(S) /\ Newer = Cardinality(T)
  BY DEF CountOf, Newer
<1> HIDE DEF S, T
<1>6. IsFiniteSet(S) /\ IsFiniteSet(T)
  BY <1>5, SomeRowsCounted
<1>7. Cardinality(S \cup T) = Cardinality(S) + Cardinality(T) - Cardinality(S \cap T)
  BY <1>6, FS_Union
<1>8. Cardinality(S \cap T) = 0
  BY <1>4, FS_EmptySet
<1>9. Cardinality(S) \in Nat /\ Cardinality(T) \in Nat
  BY <1>6, FS_CardinalityType
<1>10. Cardinality(S \cup T) = Cardinality(S) + Cardinality(T)
  BY <1>7, <1>8, <1>9
<1>11. QED
  BY <1>3, <1>5, <1>10

\* A step that keeps the report and deletes no row of a live link.
LEMMA ReportStands ==
    ASSUME TypeOK, RowInv, RowInv', ReportInv, TodayConsistent,
           UNCHANGED reportVars,
           link' = "live" => link = "live" /\ clicks \subseteq clicks'
    PROVE  ReportInv' /\ TodayConsistent'
<1>0. UNCHANGED <<rpc, today, clicksToday, chart>>
  BY DEF reportVars
<1>1. CASE link' = "live"
  <2> DEFINE Since(S) == {k \in S : k.day >= today}
             After(S) == {k \in S : k.day > today}
  <2>1. link = "live" /\ clicks \subseteq clicks'
    BY <1>1
  <2>2. /\ Since(clicks) \subseteq Since(clicks')
        /\ After(clicks) \subseteq After(clicks')
        /\ Since(clicks') \subseteq clicks' /\ After(clicks') \subseteq clicks'
    BY <2>1
  <2>3. /\ Cardinality({k \in clicks : k.day >= today}) = Cardinality(Since(clicks))
        /\ Cardinality({k \in clicks' : k.day >= today'}) = Cardinality(Since(clicks'))
        /\ Newer = Cardinality(After(clicks)) /\ Newer' = Cardinality(After(clicks'))
    BY <1>0 DEF Newer
  <2> HIDE DEF Since, After
  <2>4. IsFiniteSet(clicks')
    BY DEF RowInv
  <2>5. IsFiniteSet(Since(clicks')) /\ IsFiniteSet(After(clicks'))
    BY <2>2, <2>4, FS_Subset
  <2>6. /\ Cardinality(Since(clicks)) <= Cardinality(Since(clicks'))
        /\ Cardinality(After(clicks)) <= Cardinality(After(clicks'))
    BY <2>2, <2>5, FS_Subset
  <2>7. /\ Cardinality(Since(clicks)) \in Nat /\ Cardinality(Since(clicks')) \in Nat
        /\ Cardinality(After(clicks)) \in Nat /\ Cardinality(After(clicks')) \in Nat
    BY <2>2, <2>5, FS_Subset, FS_CardinalityType
  <2>8. clicksToday \in Int
    <3>1. total \in 0..Cardinality(asked) /\ clicksToday \in 0..total
      BY DEF TypeOK
    <3>2. QED
      BY <3>1, RowsCounted
  <2>9. ReportInv'
    <3>1. rpc = "daily" => clicksToday <= Cardinality(Since(clicks))
      BY <2>1, <2>3 DEF ReportInv
    <3>2. rpc = "daily" => clicksToday <= Cardinality(Since(clicks'))
      BY <2>6, <2>7, <2>8, <3>1
    <3>3. QED
      BY <1>0, <2>3, <3>2 DEF ReportInv
  <2>10. TodayConsistent'
    <3>1. SUFFICES ASSUME rpc = "done"
                   PROVE  today \in DOMAIN chart /\ clicksToday <= chart[today] + Newer'
      BY <1>0 DEF TodayConsistent
    <3>2. today \in DOMAIN chart /\ clicksToday <= chart[today] + Newer
      BY <2>1, <3>1 DEF TodayConsistent
    <3>3. chart \in [(today - Window + 1)..today -> 0..Cardinality(asked)]
      BY <3>1 DEF TypeOK
    <3>4. chart[today] \in 0..Cardinality(asked)
      BY <3>2, <3>3
    <3>5. chart[today] \in Int
      BY <3>4, RowsCounted
    <3>6. clicksToday <= chart[today] + Newer'
      BY <2>3, <2>6, <2>7, <2>8, <3>2, <3>5
    <3>7. QED
      BY <3>2, <3>6
  <2>11. QED
    BY <2>9, <2>10
<1>2. CASE link' # "live"
  BY <1>2 DEF ReportInv, TodayConsistent
<1>3. QED
  BY <1>1, <1>2

\* The third query sees what the summary counted, unless the link is gone.
LEMMA DailyRead ==
    ASSUME TypeOK, RowInv, ReportInv, ReadDaily
    PROVE  ReportInv' /\ TodayConsistent'
<1>1. /\ rpc = "daily" /\ rpc' = "done"
      /\ UNCHANGED <<link, clicks, today, clicksToday>>
      /\ chart' = build_daily_click_counts(StartDate(today), today,
                      click_event_get_daily_counts(StartDate(today)))
  BY DEF ReadDaily
<1>2. today \in Int /\ StartDate(today) \in Int /\ today \in StartDate(today)..today
  <2>1. today \in 0..MaxDay
    BY DEF TypeOK
  <2>2. QED
    BY <2>1, Constants DEF StartDate
<1>3. today \in DOMAIN chart' /\ chart'[today] = CountOf(clicks, today)
  BY <1>1, <1>2, ChartDays
<1>4. link = "live" => clicksToday <= CountOf(clicks, today) + Newer
  BY <1>1, SinceSplit DEF ReportInv
<1>5. Newer' = Newer
  BY <1>1 DEF Newer
<1>6. TodayConsistent'
  BY <1>1, <1>3, <1>4, <1>5 DEF TodayConsistent
<1>7. QED
  BY <1>1, <1>6 DEF ReportInv

LEMMA ReportKept ==
    ASSUME TypeOK, RowInv, RowInv', ReportInv, TodayConsistent, [Next]_vars
    PROVE  ReportInv' /\ TodayConsistent'
<1>1. ASSUME NEW r \in Redirect, Answer(r) \/ \E w \in Worker : Receive(w, r)
      PROVE  ReportInv' /\ TodayConsistent'
  BY <1>1, ReportStands DEF Answer, Receive
<1>2. ASSUME NEW w \in Worker, TaskNext(w) \/ DatabaseFails(w) \/ WorkerDies(w)
      PROVE  ReportInv' /\ TodayConsistent'
  <2>1. UNCHANGED <<reportVars, link>>
    BY <1>2 DEF TaskNext, GetLink, InsertClick, CommitClick, Announce, DatabaseFails,
                WorkerDies
  <2>2. clicks \subseteq clicks'
    BY <1>2, TaskShape DEF Advances, Stores, Ends
  <2>3. QED
    BY <2>1, <2>2, ReportStands
<1>3. CASE ClearClicks \/ RemoveLink \/ CommitDelete \/ Midnight \/ UNCHANGED vars
  BY <1>3, ReportStands DEF ClearClicks, RemoveLink, CommitDelete, Midnight, vars
<1>4. CASE StartReport
  BY <1>4 DEF StartReport, ReportInv, TodayConsistent
<1>5. CASE ReadSummary
  <2>1. /\ rpc' = "daily" /\ UNCHANGED <<clicks, today>>
        /\ clicksToday' = Cardinality({k \in clicks : k.day >= today})
    BY <1>5 DEF ReadSummary
  <2>2. Cardinality({k \in clicks : k.day >= today}) \in Nat
    BY SomeRowsCounted, FS_CardinalityType
  <2>3. QED
    BY <2>1, <2>2 DEF ReportInv, TodayConsistent
<1>6. CASE ReadDaily
  BY <1>6, DailyRead
<1>7. QED
  BY <1>1, <1>2, <1>3, <1>4, <1>5, <1>6 DEF Next

\* Only finitely many clicks are in a chart.
LEMMA ChartedFinite ==
    ASSUME NEW from \in Int, NEW to \in Int, NEW n \in Nat,
           NEW days \in [from..to -> 0..n]
    PROVE  /\ Charted(days) \subseteq (from..to) \X (1..n)
           /\ IsFiniteSet(Charted(days))
           /\ Cardinality(Charted(days)) \in Nat
<1>1. Charted(days) \subseteq (from..to) \X (1..n)
  <2>1. SUFFICES ASSUME NEW d \in from..to, NEW p \in {d} \X (1..days[d])
                 PROVE  p \in (from..to) \X (1..n)
    BY DEF Charted
  <2>2. days[d] \in 0..n
    OBVIOUS
  <2>3. QED
    BY <2>1, <2>2
<1>2. IsFiniteSet((from..to) \X (1..n))
  <2>1. IsFiniteSet(from..to) /\ IsFiniteSet(1..n)
    BY FS_Interval
  <2>2. QED
    BY <2>1, FS_Product
<1>3. IsFiniteSet(Charted(days))
  BY <1>1, <1>2, FS_Subset
<1>4. QED
  BY <1>1, <1>3, FS_CardinalityType

\* The rows that are counted for a day can be numbered.
LEMMA Numbered ==
    ASSUME RowInv, NEW d
    PROVE  Injection({k \in clicks : k.day = d}, 1..CountOf(clicks, d)) # {}
<1> DEFINE S == {k \in clicks : k.day = d}
<1>1. S \in SUBSET clicks /\ CountOf(clicks, d) = Cardinality(S)
  BY DEF CountOf
<1> HIDE DEF S
<1>2. ExistsBijection(1..Cardinality(S), S)
  BY <1>1, SomeRowsCounted, FS_CardinalityType
<1>3. ExistsBijection(S, 1..Cardinality(S))
  BY <1>2, Fun_ExistsBijSymmetric
<1>4. Injection(S, 1..Cardinality(S)) # {}
  BY <1>3 DEF ExistsBijection, Bijection
<1>5. QED
  BY <1>1, <1>4 DEF S

\* A chart that counts the rows of each of its days shows all rows of its days:
\* the number of a row within its day is an injection.
LEMMA ChartShows ==
    ASSUME TypeOK, RowInv, NEW from \in Int, NEW to \in Int,
           NEW days \in [from..to -> 0..Cardinality(asked)],
           \A d \in from..to : days[d] = CountOf(clicks, d)
    PROVE  Cardinality({k \in clicks : k.day \in from..to}) <= Cardinality(Charted(days))
<1> DEFINE S    == {k \in clicks : k.day \in from..to}
           N(d) == Injection({k \in clicks : k.day = d}, 1..CountOf(clicks, d))
           g    == [d \in from..to |-> CHOOSE i : i \in N(d)]
           f    == [k \in S |-> <<k.day, g[k.day][k]>>]
<1>1. \A d \in from..to : g[d] \in N(d)
  BY Numbered
<1>2. ASSUME NEW k \in S
      PROVE  f[k] \in Charted(days)
  <2>1. k.day \in from..to /\ g[k.day] \in N(k.day)
    BY <1>1
  <2>2. g[k.day][k] \in 1..days[k.day]
    <3>1. g[k.day] \in [{j \in clicks : j.day = k.day} -> 1..CountOf(clicks, k.day)]
      BY <2>1 DEF Injection
    <3>2. k \in {j \in clicks : j.day = k.day}
      OBVIOUS
    <3>3. g[k.day][k] \in 1..CountOf(clicks, k.day)
      BY <3>1, <3>2
    <3>4. QED
      BY <2>1, <3>3
  <2> HIDE DEF g
  <2>3. f[k] = <<k.day, g[k.day][k]>>
    OBVIOUS
  <2> HIDE DEF f
  <2>4. QED
    BY <2>1, <2>2, <2>3 DEF Charted
<1>3. ASSUME NEW j \in S, NEW k \in S, f[j] = f[k]
      PROVE  j = k
  <2> DEFINE D == {i \in clicks : i.day = k.day}
  <2>1. <<j.day, g[j.day][j]>> = <<k.day, g[k.day][k]>>
    <3> HIDE DEF g
    <3>1. QED
      BY <1>3
  <2>2. g[k.day] \in N(k.day)
    BY <1>1
  <2> HIDE DEF f, g
  <2>3. j.day = k.day /\ g[k.day][j] = g[k.day][k]
    BY <2>1
  <2>4. j \in D /\ k \in D
    BY <2>3
  <2>5. \A a, b \in D : g[k.day][a] = g[k.day][b] => a = b
    BY <2>2 DEF Injection, IsInjective
  <2>6. QED
    BY <2>3, <2>4, <2>5
<1>4. f \in Injection(S, Charted(days))
  <2>1. f = [k \in S |-> f[k]]
    <3> HIDE DEF g
    <3>1. QED
      OBVIOUS
  <2> HIDE DEF f
  <2>2. f \in [S -> Charted(days)]
    BY <1>2, <2>1
  <2>3. QED
    BY <1>3, <2>2 DEF Injection, IsInjective
<1> HIDE DEF f
<1>5. Cardinality(asked) \in Nat
  BY RowsCounted
<1>6. IsFiniteSet(Charted(days))
  BY <1>5, ChartedFinite
<1>7. QED
  BY <1>4, <1>6, FS_Injection

\* Each row is dated before the chart, in it, or after today.
LEMMA WindowSplit ==
    ASSUME TypeOK, RowInv
    PROVE  LET shown == Cardinality({k \in clicks : k.day \in StartDate(today)..today})
           IN  /\ Older \in Nat /\ shown \in Nat /\ Newer \in Nat
               /\ Cardinality(clicks) <= Older + shown + Newer
<1> DEFINE A == {k \in clicks : k.day <= today - Window}
           B == {k \in clicks : k.day \in StartDate(today)..today}
           C == {k \in clicks : k.day > today}
<1>1. \A k \in clicks : k.day \in 0..MaxDay
  BY DEF TypeOK, Click
<1>2. today \in 0..MaxDay /\ MaxDay \in Nat /\ Window \in Nat /\ Window >= 1
  BY Constants DEF TypeOK
<1>3. clicks = (A \cup B) \cup C
  <2>1. SUFFICES ASSUME NEW k \in clicks
                 PROVE  k.day <= today - Window \/ k.day \in StartDate(today)..today
                        \/ k.day > today
    OBVIOUS
  <2>2. k.day \in Int /\ today \in Int /\ Window \in Int
    BY <1>1, <1>2
  <2>3. QED
    BY <2>2 DEF StartDate
<1>4. /\ A \in SUBSET clicks /\ B \in SUBSET clicks /\ C \in SUBSET clicks
      /\ Older = Cardinality(A) /\ Newer = Cardinality(C)
  BY DEF Older, Newer
<1> HIDE DEF A, B, C
<1>5. /\ IsFiniteSet(A) /\ IsFiniteSet(B) /\ IsFiniteSet(C) /\ IsFiniteSet(A \cup B)
      /\ IsFiniteSet(A \cap B) /\ IsFiniteSet((A \cup B) \cap C)
  BY <1>4, SomeRowsCounted
<1>6. /\ Cardinality(A \cup B) = Cardinality(A) + Cardinality(B) - Cardinality(A \cap B)
      /\ Cardinality((A \cup B) \cup C)
           = Cardinality(A \cup B) + Cardinality(C) - Cardinality((A \cup B) \cap C)
  BY <1>5, FS_Union
<1>7. /\ Cardinality(A) \in Nat /\ Cardinality(B) \in Nat /\ Cardinality(C) \in Nat
      /\ Cardinality(A \cup B) \in Nat
      /\ Cardinality(A \cap B) \in Nat /\ Cardinality((A \cup B) \cap C) \in Nat
  BY <1>5, FS_CardinalityType
<1>8. Cardinality(clicks) <= Cardinality(A) + Cardinality(B) + Cardinality(C)
  BY <1>3, <1>6, <1>7
<1>9. QED
  BY <1>4, <1>7, <1>8 DEF B

LEMMA ChartTyped ==
    ASSUME TypeOK, RowInv, rpc = "done"
    PROVE  Cardinality(Charted(chart)) \in Nat
<1>1. chart \in [(today - Window + 1)..today -> 0..Cardinality(asked)]
  BY DEF TypeOK
<1>2. today \in Int /\ today - Window + 1 \in Int
  <2>1. today \in 0..MaxDay
    BY DEF TypeOK
  <2>2. QED
    BY <2>1, Constants
<1>3. QED
  BY <1>1, <1>2, RowsCounted, ChartedFinite

\* A step that keeps the report and deletes no row of a live link.
LEMMA WindowStands ==
    ASSUME TypeOK, TypeOK', RowInv, RowInv', TotalInv, WindowConsistent,
           UNCHANGED reportVars,
           link' = "live" => link = "live" /\ clicks \subseteq clicks'
    PROVE  TotalInv' /\ WindowConsistent'
<1>0. UNCHANGED <<rpc, today, total, chart>> /\ Charted(chart)' = Charted(chart)
  BY DEF reportVars
<1>1. CASE link' = "live"
  <2> DEFINE Before(S) == {k \in S : k.day <= today - Window}
             After(S)  == {k \in S : k.day > today}
  <2>1. link = "live" /\ clicks \subseteq clicks'
    BY <1>1
  <2>2. /\ Before(clicks) \subseteq Before(clicks')
        /\ After(clicks) \subseteq After(clicks')
        /\ Before(clicks') \subseteq clicks' /\ After(clicks') \subseteq clicks'
    BY <2>1
  <2>3. /\ Older = Cardinality(Before(clicks)) /\ Older' = Cardinality(Before(clicks'))
        /\ Newer = Cardinality(After(clicks)) /\ Newer' = Cardinality(After(clicks'))
    BY <1>0 DEF Older, Newer
  <2> HIDE DEF Before, After
  <2>4. IsFiniteSet(clicks')
    BY DEF RowInv
  <2>5. IsFiniteSet(Before(clicks')) /\ IsFiniteSet(After(clicks'))
    BY <2>2, <2>4, FS_Subset
  <2>6. /\ Older <= Older' /\ Newer <= Newer'
        /\ Cardinality(clicks) <= Cardinality(clicks')
    BY <2>1, <2>2, <2>3, <2>4, <2>5, FS_Subset
  <2>7. /\ Older \in Nat /\ Older' \in Nat /\ Newer \in Nat /\ Newer' \in Nat
        /\ Cardinality(clicks) \in Nat /\ Cardinality(clicks') \in Nat
    BY <2>1, <2>2, <2>3, <2>4, <2>5, FS_Subset, FS_CardinalityType
  <2>8. total \in Int
    <3>1. total \in 0..Cardinality(asked)
      BY DEF TypeOK
    <3>2. QED
      BY <3>1, RowsCounted
  <2>9. TotalInv'
    <3>1. rpc = "daily" => total <= Cardinality(clicks)
      BY <2>1 DEF TotalInv
    <3>2. rpc = "daily" => total <= Cardinality(clicks')
      BY <2>6, <2>7, <2>8, <3>1
    <3>3. QED
      BY <1>0, <3>2 DEF TotalInv
  <2>10. WindowConsistent'
    <3>1. SUFFICES ASSUME rpc = "done"
                   PROVE  total <= Older' + Cardinality(Charted(chart)) + Newer'
      BY <1>0 DEF WindowConsistent
    <3>2. total <= Older + Cardinality(Charted(chart)) + Newer
      BY <2>1, <3>1 DEF WindowConsistent
    <3>3. Cardinality(Charted(chart)) \in Nat
      BY <3>1, ChartTyped
    <3>4. QED
      BY <2>6, <2>7, <2>8, <3>2, <3>3
  <2>11. QED
    BY <2>9, <2>10
<1>2. CASE link' # "live"
  BY <1>2 DEF TotalInv, WindowConsistent
<1>3. QED
  BY <1>1, <1>2

\* The third query sees the rows the summary counted, unless the link is gone.
LEMMA DailyCharts ==
    ASSUME TypeOK, TypeOK', RowInv, RowInv', TotalInv, ReadDaily
    PROVE  TotalInv' /\ WindowConsistent'
<1>1. /\ rpc = "daily" /\ rpc' = "done"
      /\ UNCHANGED <<link, clicks, today, total, asked>>
      /\ chart' = build_daily_click_counts(StartDate(today), today,
                      click_event_get_daily_counts(StartDate(today)))
  BY DEF ReadDaily
<1> DEFINE shown == Cardinality({k \in clicks : k.day \in StartDate(today)..today})
<1>2. today \in Int /\ StartDate(today) \in Int
  <2>1. today \in 0..MaxDay
    BY DEF TypeOK
  <2>2. QED
    BY <2>1, Constants DEF StartDate
<1>3. /\ chart' \in [StartDate(today)..today -> 0..Cardinality(asked)]
      /\ \A d \in StartDate(today)..today : chart'[d] = CountOf(clicks, d)
  BY <1>1, <1>2, ChartDays
<1>4. shown <= Cardinality(Charted(chart')) /\ Cardinality(Charted(chart')) \in Nat
  BY <1>1, <1>2, <1>3, RowsCounted, ChartShows, ChartedFinite
<1>5. Older' = Older /\ Newer' = Newer
  BY <1>1 DEF Older, Newer
<1>6. /\ Older \in Nat /\ shown \in Nat /\ Newer \in Nat
      /\ Cardinality(clicks) <= Older + shown + Newer
  BY WindowSplit
<1>7. link = "live" => total <= Cardinality(clicks)
  BY <1>1 DEF TotalInv
<1>8. total \in Int /\ Cardinality(clicks) \in Int
  <2>1. total \in 0..Cardinality(asked)
    BY DEF TypeOK
  <2>2. QED
    BY <2>1, RowsCounted
<1> HIDE DEF shown
<1>9. link = "live" => total <= Older + Cardinality(Charted(chart')) + Newer
  BY <1>4, <1>6, <1>7, <1>8
<1>10. QED
  BY <1>1, <1>5, <1>9 DEF TotalInv, WindowConsistent

LEMMA WindowKept ==
    ASSUME TypeOK, TypeOK', RowInv, RowInv', TotalInv, WindowConsistent, [Next]_vars
    PROVE  TotalInv' /\ WindowConsistent'
<1>1. ASSUME NEW r \in Redirect, Answer(r) \/ \E w \in Worker : Receive(w, r)
      PROVE  TotalInv' /\ WindowConsistent'
  BY <1>1, WindowStands DEF Answer, Receive
<1>2. ASSUME NEW w \in Worker, TaskNext(w) \/ DatabaseFails(w) \/ WorkerDies(w)
      PROVE  TotalInv' /\ WindowConsistent'
  <2>1. UNCHANGED <<reportVars, link>>
    BY <1>2 DEF TaskNext, GetLink, InsertClick, CommitClick, Announce, DatabaseFails,
                WorkerDies
  <2>2. clicks \subseteq clicks'
    BY <1>2, TaskShape DEF Advances, Stores, Ends
  <2>3. QED
    BY <2>1, <2>2, WindowStands
<1>3. CASE ClearClicks \/ RemoveLink \/ CommitDelete \/ Midnight \/ UNCHANGED vars
  BY <1>3, WindowStands DEF ClearClicks, RemoveLink, CommitDelete, Midnight, vars
<1>4. CASE StartReport
  BY <1>4 DEF StartReport, TotalInv, WindowConsistent
<1>5. CASE ReadSummary
  BY <1>5, RowsCounted DEF ReadSummary, TotalInv, WindowConsistent
<1>6. CASE ReadDaily
  BY <1>6, DailyCharts
<1>7. QED
  BY <1>1, <1>2, <1>3, <1>4, <1>5, <1>6 DEF Next

-----------------------------------------------------------------------------
(* The inductive invariant.                                                *)

LEMMA InitType ==
    ASSUME Init
    PROVE  TypeOK
<1>1. 0 \in 0..MaxRetries /\ 0 \in 0..MaxDay /\ 0 \in 0..MaxErrors
  BY Constants
<1>2. Cardinality(asked) = 0 /\ 0 \in 0..0
  BY FS_EmptySet DEF Init
<1>3. QED
  BY <1>1, <1>2 DEF Init, TypeOK

LEMMA InitIInv ==
    ASSUME Init
    PROVE  IInv
<1>1. TokenInv
  BY DEF Init, TokenInv, Stored, Busy
<1>2. RowInv
  BY FS_EmptySet DEF Init, RowInv
<1>3. RetryInv
  <2>1. \A r \in Redirect : message[r] = -1
    BY Constants DEF Init
  <2>2. \A w \in Worker : tries[w] = 0
    BY DEF Init
  <2>3. errors = 0
    BY DEF Init
  <2>4. QED
    BY <2>1, <2>2, <2>3 DEF RetryInv
<1>4. NotGivenUpEarly /\ AnnouncedIsStored /\ ReportInv /\ TodayConsistent
  BY DEF Init, NotGivenUpEarly, AnnouncedIsStored, ReportInv, TodayConsistent
<1>5. TotalInv /\ WindowConsistent
  BY DEF Init, TotalInv, WindowConsistent
<1>6. QED
  BY <1>1, <1>2, <1>3, <1>4, <1>5, InitType DEF IInv

LEMMA NextIInv ==
    ASSUME IInv, [Next]_vars
    PROVE  IInv'
<1> USE DEF IInv
<1>1. TypeOK'
  <2>1. CASE UNCHANGED vars
    BY <2>1 DEF vars, workerVars, deleteVars, reportVars, TypeOK
  <2>2. CASE Next
    BY <2>2, QueueType, TaskType, RestType DEF Next
  <2>3. QED
    BY <2>1, <2>2
<1>2. TokenInv'
  BY AnswerTokens, ReceiveTokens, TaskShape, AdvanceTokens, StoreTokens, EndTokens,
     RestShape, RestTokens DEF Next
<1>3. RowInv'
  BY RowsKept
<1>4. RetryInv' /\ NotGivenUpEarly'
  BY RetriesKept
<1>5. AnnouncedIsStored'
  BY AnnouncementsKept
<1>6. ReportInv' /\ TodayConsistent'
  BY <1>3, ReportKept
<1>7. TotalInv' /\ WindowConsistent'
  BY <1>1, <1>3, WindowKept
<1>8. QED
  BY <1>1, <1>2, <1>3, <1>4, <1>5, <1>6, <1>7

\* Every reachable state satisfies the inductive invariant; the theorems below
\* follow from it.
THEOREM IInvHolds == Spec => []IInv
<1>1. Init => IInv
  BY InitIInv
<1>2. IInv /\ [Next]_vars => IInv'
  BY NextIInv
<1>3. QED
  BY <1>1, <1>2, PTL DEF Spec

-----------------------------------------------------------------------------
(* The theorems.                                                           *)

\* Every variable stays within its type: no click is dated after the last day,
\* no message or task is retried more than max_retries times, and the report
\* never counts more clicks than redirects were answered.
THEOREM TypeCorrect == Spec => []TypeOK
<1>1. IInv => TypeOK
  BY DEF IInv
<1>2. QED
  BY <1>1, IInvHolds, PTL

\* A set of tokens that are all equal counts one at most.
LEMMA OneAtMost ==
    ASSUME NEW S, \A a, b \in S : a = b
    PROVE  Cardinality(S) = IF S = {} THEN 0 ELSE 1
<1>1. CASE S = {}
  BY <1>1, FS_EmptySet
<1>2. CASE S # {}
  <2>1. PICK a : S = {a}
    BY <1>2
  <2>2. QED
    BY <1>2, <2>1, FS_Singleton
<1>3. QED
  BY <1>1, <1>2

\* A statement or a COMMIT that fails is retried, and still a redirect has in
\* every state one stored click, one queued message or one task that may yet store
\* it, and never two of them (click_event_create_task, autoretry_for
\* DatabaseError). A COMMIT that succeeds unknown to the task is not modelled.
THEOREM CountedOnceHolds == Spec => []CountedOnce
<1>1. IInv => CountedOnce
  <2>1. SUFFICES ASSUME IInv, NEW r \in Redirect
                 PROVE  Cardinality({k \in clicks : k.of = r})
                        + (IF message[r] # NoMessage THEN 1 ELSE 0)
                        + Cardinality({w \in Worker : task[w] = r /\ pc[w] # "announce"}) <= 1
    BY DEF CountedOnce
  <2> DEFINE rows  == {k \in clicks : k.of = r}
             tasks == {w \in Worker : task[w] = r /\ pc[w] # "announce"}
  <2>2. r # NoTask
    BY Constants
  <2>3. Cardinality(rows) = IF rows = {} THEN 0 ELSE 1
    BY <2>1, OneAtMost DEF IInv, RowInv
  <2>4. Cardinality(tasks) = IF tasks = {} THEN 0 ELSE 1
    BY <2>1, <2>2, OneAtMost DEF IInv, TokenInv
  <2>5. tasks # {} => rows = {} /\ message[r] = NoMessage
    <3>1. SUFFICES ASSUME NEW w \in Worker, task[w] = r, pc[w] # "announce"
                   PROVE  rows = {} /\ message[r] = NoMessage
      OBVIOUS
    <3>2. pc[w] \in Busy
      BY <2>1, <2>2, <3>1 DEF IInv, TypeOK, TokenInv, Busy
    <3>3. ~Stored(r) /\ message[r] = NoMessage
      BY <2>1, <2>2, <3>1, <3>2 DEF IInv, TokenInv
    <3>4. QED
      BY <3>3 DEF Stored
  <2>6. message[r] # NoMessage => rows = {}
    BY <2>1 DEF IInv, TokenInv, Stored
  <2> HIDE DEF rows, tasks
  <2>7. Cardinality(rows) + (IF message[r] # NoMessage THEN 1 ELSE 0) + Cardinality(tasks) <= 1
    BY <2>3, <2>4, <2>5, <2>6
  <2>8. QED
    BY <2>7 DEF rows, tasks
<1>2. QED
  BY <1>1, IInvHolds, PTL

\* The webhooks are told of no click that could still be rolled back: an
\* announced click is stored, unless its link was deleted since
\* (_handle_short_link_clicked runs in transaction.on_commit).
THEOREM AnnouncedIsStoredHolds == Spec => []AnnouncedIsStored
<1>1. IInv => AnnouncedIsStored
  BY DEF IInv
<1>2. QED
  BY <1>1, IInvHolds, PTL

\* A task gives up its click only when the database failed more than
\* max_retries times, or because the link is gone.
THEOREM NotGivenUpEarlyHolds == Spec => []NotGivenUpEarly
<1>1. IInv => NotGivenUpEarly
  BY DEF IInv
<1>2. QED
  BY <1>1, IInvHolds, PTL

\* The queries of a report share no transaction, and yet its parts agree. The
\* summary counts no more clicks of today than the chart, read later, shows for
\* today, and no more clicks at all than the chart shows in all its days, but for
\* clicks that are dated outside the chart: no click, failure or midnight between
\* the queries makes them disagree otherwise (ShortLinkAnalyticsAPIView.get).
THEOREM ReportConsistentHolds == Spec => []ReportConsistent
<1>1. IInv => ReportConsistent
  BY DEF IInv, ReportConsistent
<1>2. QED
  BY <1>1, IInvHolds, PTL
=============================================================================
