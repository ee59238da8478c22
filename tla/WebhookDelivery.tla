--------------------------- MODULE WebhookDelivery ---------------------------
(***************************************************************************)
(* The webhook pipeline of apps/webhooks: an event is fanned out to one    *)
(* WebhookDelivery row per subscribed endpoint, each row is published as a *)
(* Celery message, and workers send it, record the outcome and publish a   *)
(* delayed message for the next attempt.                                   *)
(*                                                                         *)
(* One database statement or one external call is one step: the service    *)
(* reads the row once and works on that in-memory copy (variable copy)     *)
(* until its last save, so everything in between may interleave.           *)
(***************************************************************************)
EXTENDS Naturals

CONSTANTS
    Event,            \* calls of webhook_event_dispatch, each made once
    Endpoint,         \* webhook endpoints of the owner
    Worker,           \* Celery worker processes
    MaxAttempts,      \* WEBHOOK_MAX_DELIVERY_ATTEMPTS
    RetryDelayed,     \* attempt counts with an entry in WEBHOOK_RETRY_DELAYS
    Faults,           \* the faults of the environment this instance allows
    MaxRedeliveries   \* bound on the messages the broker hands out twice

FaultKind == {"crash",   \* a worker or a dispatching process is killed
              "broker",  \* publishing a message raises
              "raise"}   \* signing or sending raises something else than HTTPError

ASSUME AttemptsAssumption ==
    /\ MaxAttempts \in Nat \ {0}
    /\ RetryDelayed \subseteq Nat
ASSUME FaultsAssumption ==
    /\ Faults \subseteq FaultKind
    /\ MaxRedeliveries \in Nat

VARIABLES
    endpoint,      \* [Endpoint -> state of its row]
    dispatch,      \* [Event -> progress of webhook_event_dispatch]
    todo,          \* [Event -> endpoints listed, then deliveries still to publish]
    rows,          \* [Delivery -> Row]: the WebhookDelivery table
    queue,         \* [Delivery -> number of messages the broker holds]
    pc, task,      \* [Worker -> next step / delivery] of webhook_delivery_send_task
    copy,          \* [Worker -> Row]: the delivery object in memory
    posts,         \* [Delivery -> HTTP requests issued], an observation
    lost,          \* deliveries whose message or task a fault destroyed, an observation
    redeliveries   \* messages duplicated so far

dispatchVars == <<dispatch, todo>>
workerVars   == <<pc, task, copy>>
vars == <<endpoint, dispatch, todo, rows, queue, pc, task, copy,
          posts, lost, redeliveries>>

-----------------------------------------------------------------------------
(* The data.                                                               *)

\* One delivery per event and endpoint: bulk_create makes one row for each.
Delivery == Event \X Endpoint
NoTask   == <<>>

\* "subscribed" and "unsubscribed" endpoints are active; only the first list this event's type.
LiveEndpoint  == {"subscribed", "unsubscribed", "inactive"}
EndpointState == LiveEndpoint \cup {"deleted"}

DispatchStep == {"idle", "listed", "publish", "done"}
TaskStep     == {"idle", "get", "deactivated", "claim", "post", "save", "schedule"}

\* Nullable columns the pipeline only tests for null are BOOLEAN: set or null.
Status == {"absent", "pending", "processing", "succeeded", "failed"}
Row == [status: Status, attempt_count: Nat,
        next_attempt_at: BOOLEAN, delivered_at: BOOLEAN]

AbsentRow == [status |-> "absent", attempt_count |-> 0,
              next_attempt_at |-> FALSE, delivered_at |-> FALSE]
NewRow == [AbsentRow EXCEPT !.status = "pending"]

Exists(d)   == rows[d].status # "absent"
IsActive(e) == endpoint[e] \in {"subscribed", "unsubscribed"}

\* A request ends with a status code of one of these classes, or with an
\* httpx.HTTPError ("none": no response_status).
Outcome == {"2xx", "retryable", "permanent", "none"}

webhook_delivery_should_retry(response, attempt_count) ==
    /\ attempt_count < MaxAttempts
    /\ response \in {"none", "retryable"}

\* Mutant: the number of attempts is not looked at.
RetryAtAnyAttempt(response, attempt_count) == response \in {"none", "retryable"}

\* WEBHOOK_RETRY_DELAYS.get may be None: then there is no next attempt either.
RetryAt(response, attempt_count) ==
    /\ webhook_delivery_should_retry(response, attempt_count)
    /\ attempt_count \in RetryDelayed

\* Mutant: next_attempt_at is not cleared.
GivenUpKeepingRetry(row) == [row EXCEPT !.status = "failed"]

\* The object before the save of an inactive endpoint, and before an attempt.
GivenUp(row) == [row EXCEPT !.status = "failed", !.next_attempt_at = FALSE]
Claimed(row) == [row EXCEPT !.status = "processing", !.attempt_count = @ + 1,
                            !.next_attempt_at = FALSE]

\* Mutant: the wrong variable ends up in status.
ResponseAsStatus(row, response) ==
    [row EXCEPT !.status = response, !.next_attempt_at = RetryAt(response, row.attempt_count)]

\* The object after the response or the exception. The HTTPError branch does
\* not touch delivered_at, the branch of a failing response clears it.
AfterResponse(row, response) ==
    IF response = "2xx"
    THEN [row EXCEPT !.status = "succeeded", !.delivered_at = TRUE,
                     !.next_attempt_at = FALSE]
    ELSE [row EXCEPT !.status = "failed",
                     !.delivered_at = IF response = "none" THEN @ ELSE FALSE,
                     !.next_attempt_at = RetryAt(response, row.attempt_count)]

\* Mutants: a column is missing in update_fields.
StatusNotSaved(row, object) == [row EXCEPT !.next_attempt_at = object.next_attempt_at]
RetryNotSaved(row, object)  == [row EXCEPT !.status = object.status]

\* delivery.save(update_fields=...): which columns of the object each save writes.
StatusSaved(row, object) ==
    [row EXCEPT !.status = object.status, !.next_attempt_at = object.next_attempt_at]
AttemptNotSaved(row, object)  == StatusSaved(row, object)   \* mutants of the two below
DeliveredNotSaved(row, object) == StatusSaved(row, object)
OutcomeWithoutRetry(row, object) ==
    [row EXCEPT !.status = object.status, !.delivered_at = object.delivered_at]

AttemptSaved(row, object) ==
    [StatusSaved(row, object) EXCEPT !.attempt_count = object.attempt_count]
OutcomeSaved(row, object) ==
    [StatusSaved(row, object) EXCEPT !.delivered_at = object.delivered_at]

-----------------------------------------------------------------------------
Init ==
    /\ endpoint \in [Endpoint -> LiveEndpoint]
    /\ dispatch = [v \in Event |-> "idle"]
    /\ todo = [v \in Event |-> {}]
    /\ rows = [d \in Delivery |-> AbsentRow]
    /\ queue = [d \in Delivery |-> 0]
    /\ pc = [w \in Worker |-> "idle"]
    /\ task = [w \in Worker |-> NoTask]
    /\ copy = [w \in Worker |-> AbsentRow]
    /\ posts = [d \in Delivery |-> 0]
    /\ lost = {}
    /\ redeliveries = 0

-----------------------------------------------------------------------------
(* webhook_event_dispatch, in the process that committed the change.       *)

\* webhook_deliveries_create_for_event reads the endpoints of the event ...
ListEndpoints(v) ==
    /\ dispatch[v] = "idle"
    /\ LET listening == {e \in Endpoint : endpoint[e] = "subscribed"}
       IN /\ todo' = [todo EXCEPT ![v] = listening]
          /\ dispatch' = [dispatch EXCEPT ![v] = IF listening = {} THEN "done" ELSE "listed"]
    /\ UNCHANGED <<endpoint, rows, queue, workerVars, posts, lost, redeliveries>>

\* ... and inserts one row for each: all of them, or none when an endpoint is
\* gone by then (the foreign key fails and the handler swallows the exception).
CreateDeliveries(v) ==
    /\ dispatch[v] = "listed"
    /\ IF \E e \in todo[v] : endpoint[e] = "deleted"
       THEN /\ dispatch' = [dispatch EXCEPT ![v] = "done"]
            /\ todo' = [todo EXCEPT ![v] = {}]
            /\ UNCHANGED rows
       ELSE /\ dispatch' = [dispatch EXCEPT ![v] = "publish"]
            /\ rows' = [d \in Delivery |->
                          IF d[1] = v /\ d[2] \in todo[v] THEN NewRow ELSE rows[d]]
            /\ UNCHANGED todo
    /\ UNCHANGED <<endpoint, queue, workerVars, posts, lost, redeliveries>>

\* webhook_deliveries_dispatch: one .delay for each delivery of the list.
Publish(v, e) ==
    /\ dispatch[v] = "publish"
    /\ e \in todo[v]
    /\ todo' = [todo EXCEPT ![v] = @ \ {e}]
    /\ dispatch' = [dispatch EXCEPT ![v] = IF todo[v] = {e} THEN "done" ELSE @]
    /\ queue' = [queue EXCEPT ![<<v, e>>] = @ + 1]
    /\ UNCHANGED <<endpoint, rows, workerVars, posts, lost, redeliveries>>

\* The process dies, or .delay raises and the rest of the list is abandoned.
\* Before the insert commits nothing is left behind; after it the rows stay.
DispatchFails(v) ==
    /\ \/ "crash" \in Faults /\ dispatch[v] \in {"listed", "publish"}
       \/ "broker" \in Faults /\ dispatch[v] = "publish"
    /\ dispatch' = [dispatch EXCEPT ![v] = "done"]
    /\ todo' = [todo EXCEPT ![v] = {}]
    /\ lost' = IF dispatch[v] = "publish" THEN lost \cup ({v} \X todo[v]) ELSE lost
    /\ UNCHANGED <<endpoint, rows, queue, workerVars, posts, redeliveries>>

-----------------------------------------------------------------------------
(* webhook_delivery_send_task and webhook_delivery_send, in a worker.      *)

EndTask(w) ==
    /\ pc' = [pc EXCEPT ![w] = "idle"]
    /\ task' = [task EXCEPT ![w] = NoTask]
    /\ copy' = [copy EXCEPT ![w] = AbsentRow]

\* The message is acknowledged when the task starts (Celery's default).
Receive(w, d) ==
    /\ pc[w] = "idle"
    /\ queue[d] > 0
    /\ queue' = [queue EXCEPT ![d] = @ - 1]
    /\ pc' = [pc EXCEPT ![w] = "get"]
    /\ task' = [task EXCEPT ![w] = d]
    /\ UNCHANGED <<endpoint, dispatchVars, rows, copy, posts, lost, redeliveries>>

\* The early returns. The mutant also returns when no attempt is left.
DoneOrSpent(d) ==
    \/ ~Exists(d)
    \/ rows[d].status = "succeeded"
    \/ rows[d].attempt_count >= MaxAttempts
NothingToSend(d) == ~Exists(d) \/ rows[d].status = "succeeded"

\* webhook_delivery_get reads the row and its endpoint in one statement; the
\* object then follows one of the early returns or the sending path.
GetDelivery(w) ==
    LET d == task[w] IN
    /\ pc[w] = "get"
    /\ \/ /\ NothingToSend(d)
          /\ EndTask(w)
       \/ /\ ~NothingToSend(d) /\ ~IsActive(d[2])
          /\ copy' = [copy EXCEPT ![w] = GivenUp(rows[d])]
          /\ pc' = [pc EXCEPT ![w] = "deactivated"]
          /\ UNCHANGED task
       \/ /\ ~NothingToSend(d) /\ IsActive(d[2])
          /\ copy' = [copy EXCEPT ![w] = Claimed(rows[d])]
          /\ pc' = [pc EXCEPT ![w] = "claim"]
          /\ UNCHANGED task
    /\ UNCHANGED <<endpoint, dispatchVars, rows, queue, posts, lost, redeliveries>>

\* delivery.save(update_fields) of a row that is gone raises DatabaseError:
\* each save either writes its columns or ends the task.
SaveInactive(w) ==
    LET d == task[w] IN
    /\ pc[w] = "deactivated"
    /\ EndTask(w)
    /\ rows' = IF Exists(d)
               THEN [rows EXCEPT ![d] = StatusSaved(@, copy[w])]
               ELSE rows
    /\ UNCHANGED <<endpoint, dispatchVars, queue, posts, lost, redeliveries>>

SaveProcessing(w) ==
    LET d == task[w] IN
    /\ pc[w] = "claim"
    /\ IF Exists(d)
       THEN /\ rows' = [rows EXCEPT ![d] = AttemptSaved(@, copy[w])]
            /\ pc' = [pc EXCEPT ![w] = "post"]
            /\ UNCHANGED <<task, copy>>
       ELSE EndTask(w) /\ UNCHANGED rows
    /\ UNCHANGED <<endpoint, dispatchVars, queue, posts, lost, redeliveries>>

\* httpx.post; the branches after it only change the object.
Post(w, response) ==
    /\ pc[w] = "post"
    /\ posts' = [posts EXCEPT ![task[w]] = @ + 1]
    /\ copy' = [copy EXCEPT ![w] = AfterResponse(@, response)]
    /\ pc' = [pc EXCEPT ![w] = "save"]
    /\ UNCHANGED <<endpoint, dispatchVars, rows, queue, task, lost, redeliveries>>

\* The last save writes everything but attempt_count; the task goes on only
\* for a failed delivery that has a next attempt.
SaveOutcome(w) ==
    LET d == task[w] IN
    /\ pc[w] = "save"
    /\ IF Exists(d)
       THEN rows' = [rows EXCEPT ![d] = OutcomeSaved(@, copy[w])]
       ELSE UNCHANGED rows
    /\ IF Exists(d) /\ copy[w].status = "failed" /\ copy[w].next_attempt_at
       THEN pc' = [pc EXCEPT ![w] = "schedule"] /\ UNCHANGED <<task, copy>>
       ELSE EndTask(w)
    /\ UNCHANGED <<endpoint, dispatchVars, queue, posts, lost, redeliveries>>

\* apply_async with the countdown to next_attempt_at.
ScheduleRetry(w) ==
    /\ pc[w] = "schedule"
    /\ queue' = [queue EXCEPT ![task[w]] = @ + 1]
    /\ EndTask(w)
    /\ UNCHANGED <<endpoint, dispatchVars, rows, posts, lost, redeliveries>>

\* The worker is killed after the acknowledgement, apply_async raises, or
\* signing raises (a secret that no longer decrypts): nothing catches it.
TaskDies(w) ==
    /\ \/ "crash" \in Faults /\ pc[w] # "idle"
       \/ "broker" \in Faults /\ pc[w] = "schedule"
       \/ "raise" \in Faults /\ pc[w] = "post"
    /\ lost' = lost \cup {task[w]}
    /\ EndTask(w)
    /\ UNCHANGED <<endpoint, dispatchVars, rows, queue, posts, redeliveries>>

-----------------------------------------------------------------------------
(* The owner, the administrator and the broker.                            *)

\* webhook_endpoint_update: any change of is_active and events.
EndpointUpdate(e) ==
    /\ endpoint[e] # "deleted"
    /\ \E s \in LiveEndpoint \ {endpoint[e]} : endpoint' = [endpoint EXCEPT ![e] = s]
    /\ UNCHANGED <<dispatchVars, rows, queue, workerVars, posts, lost, redeliveries>>

\* Deleting the endpoint (in the admin) cascades to its deliveries.
EndpointDelete(e) ==
    /\ endpoint[e] # "deleted"
    /\ endpoint' = [endpoint EXCEPT ![e] = "deleted"]
    /\ rows' = [d \in Delivery |-> IF d[2] = e THEN AbsentRow ELSE rows[d]]
    /\ UNCHANGED <<dispatchVars, queue, workerVars, posts, lost, redeliveries>>

\* The administrator deletes a delivery; its other columns are read-only there.
DeliveryDelete(d) ==
    /\ Exists(d)
    /\ rows' = [rows EXCEPT ![d] = AbsentRow]
    /\ UNCHANGED <<endpoint, dispatchVars, queue, workerVars, posts, lost, redeliveries>>

\* A message no task has started, and so acknowledged, is handed out once more:
\* its worker lost the connection to Redis, or sat on it (prefetched behind slow
\* tasks) for the visibility timeout. The first copy may still be executed.
Redeliver(d) ==
    /\ redeliveries < MaxRedeliveries
    /\ queue[d] > 0
    /\ queue' = [queue EXCEPT ![d] = @ + 1]
    /\ redeliveries' = redeliveries + 1
    /\ UNCHANGED <<endpoint, dispatchVars, rows, workerVars, posts, lost>>

-----------------------------------------------------------------------------
DispatchNext(v) ==
    \/ ListEndpoints(v)
    \/ CreateDeliveries(v)
    \/ \E e \in Endpoint : Publish(v, e)

TaskNext(w) ==
    \/ GetDelivery(w)
    \/ SaveInactive(w)
    \/ SaveProcessing(w)
    \/ \E response \in Outcome : Post(w, response)
    \/ SaveOutcome(w)
    \/ ScheduleRetry(w)

Next ==
    \/ \E v \in Event : DispatchNext(v) \/ DispatchFails(v)
    \/ \E w \in Worker : TaskNext(w) \/ TaskDies(w)
    \/ \E w \in Worker, d \in Delivery : Receive(w, d)
    \/ \E e \in Endpoint : EndpointUpdate(e) \/ EndpointDelete(e)
    \/ \E d \in Delivery : DeliveryDelete(d) \/ Redeliver(d)

Spec == Init /\ [][Next]_vars

\* The dispatching process and the workers keep running, a request ends (the
\* client has a timeout) and some worker takes each message. The faults, the
\* owner and the administrator owe nothing.
Fairness ==
    /\ \A v \in Event : WF_vars(DispatchNext(v))
    /\ \A w \in Worker : WF_vars(TaskNext(w))
    /\ \A d \in Delivery : WF_vars(\E w \in Worker : Receive(w, d))

FairSpec == Spec /\ Fairness

-----------------------------------------------------------------------------
(* Properties.                                                             *)

TypeOK ==
    /\ endpoint \in [Endpoint -> EndpointState]
    /\ dispatch \in [Event -> DispatchStep]
    /\ todo \in [Event -> SUBSET Endpoint]
    /\ rows \in [Delivery -> Row]
    /\ queue \in [Delivery -> Nat]
    /\ pc \in [Worker -> TaskStep]
    /\ task \in [Worker -> Delivery \cup {NoTask}]
    /\ \A w \in Worker : pc[w] # "idle" => task[w] \in Delivery
    /\ copy \in [Worker -> Row]
    /\ posts \in [Delivery -> Nat]
    /\ lost \subseteq Delivery
    /\ redeliveries \in Nat

\* The task that holds a delivery, its message and its place in a dispatch
\* list are the ways it can still be sent.
HeldBy(w, d)   == pc[w] # "idle" /\ task[w] = d
Unpublished(d) == dispatch[d[1]] = "publish" /\ d[2] \in todo[d[1]]

\* Nothing is left to do for the delivery: it was sent, gave up, or is gone.
Settled(d) ==
    \/ ~Exists(d)
    \/ rows[d].status = "succeeded"
    \/ rows[d].status = "failed" /\ ~rows[d].next_attempt_at

\* At most one task or message ever exists for a delivery, and none once it is
\* settled: no attempt runs beside another (webhook_delivery_send takes no lock).
SingleToken ==
    \A d \in Delivery :
        /\ queue[d] <= 1
        /\ queue[d] = 1 => \A w \in Worker : ~HeldBy(w, d)
        /\ \A w1, w2 \in Worker : HeldBy(w1, d) /\ HeldBy(w2, d) => w1 = w2
        /\ Unpublished(d) => queue[d] = 0 /\ \A w \in Worker : ~HeldBy(w, d)
        /\ Exists(d) /\ Settled(d) => queue[d] = 0 /\ \A w \in Worker : ~HeldBy(w, d)

\* An endpoint gets at most WEBHOOK_MAX_DELIVERY_ATTEMPTS requests for an
\* event, and a row that exists never counts fewer attempts than were made.
AttemptsBounded ==
    \A d \in Delivery :
        /\ posts[d] <= MaxAttempts
        /\ rows[d].attempt_count <= MaxAttempts
        /\ Exists(d) => posts[d] <= rows[d].attempt_count

\* delivered_at is set exactly on the deliveries that succeeded, whatever
\* order the three partial saves of attempts and retries come in.
DeliveredIffSucceeded ==
    \A d \in Delivery : rows[d].delivered_at <=> rows[d].status = "succeeded"

\* A delivery that still has something to do has a message, a task or a place
\* in a dispatch list, unless a fault destroyed it; and one that a fault
\* destroyed shows in the table as unfinished, so that a query can find it.
NothingForgotten ==
    \A d \in Delivery :
        /\ ~Settled(d) =>
              \/ d \in lost
              \/ queue[d] > 0
              \/ Unpublished(d)
              \/ \E w \in Worker : HeldBy(w, d)
        /\ d \in lost => ~Exists(d) \/ ~Settled(d)

\* Once a delivery is settled its row only ever goes away, and no request is
\* issued for it any more: no late task, retry or save revives it.
SettledIsFinal ==
    [][\A d \in Delivery : Exists(d) /\ Settled(d) =>
          /\ rows'[d] \in {rows[d], AbsentRow}
          /\ posts'[d] = posts[d]]_vars

\* A delivery that succeeded is not sent again
\* (test_webhook_delivery_send_does_not_resend_succeeded_delivery), nor does
\* its row go back to a status from which a task would send it.
SucceededIsNotResent ==
    [][\A d \in Delivery : rows[d].status = "succeeded" =>
          /\ rows'[d].status \in {"succeeded", "absent"}
          /\ posts'[d] = posts[d]]_vars

\* Even when the broker hands a message out twice and two tasks overwrite each
\* other's saves, the row never promises what nobody will do: PROCESSING has a
\* task that sends or will save the outcome, and a pending delivery, or a next
\* attempt, has a message or a task that will look at the row again. Only a
\* fault strands it.
Due(d) ==
    \/ rows[d].status = "pending"
    \/ rows[d].status = "failed" /\ rows[d].next_attempt_at
Busy(d, steps) == \E w \in Worker : task[w] = d /\ pc[w] \in steps

NeverStranded ==
    \A d \in Delivery \ lost :
        /\ rows[d].status = "processing" => Busy(d, {"post", "save"})
        /\ Due(d) =>
              \/ queue[d] > 0
              \/ Unpublished(d)
              \/ Busy(d, {"get", "deactivated", "claim", "schedule"})

\* Every delivery that is created ends up sent, given up or deleted, unless a
\* fault destroyed its message or its task: nothing else can strand it.
EventuallySettled ==
    \A d \in Delivery : Exists(d) ~> (Settled(d) \/ d \in lost)

-----------------------------------------------------------------------------
(* The refinement of DeliveryLifecycle.                                    *)

\* A delivery without a row is still to come, or was refused or deleted.
PhaseOf(d) ==
    IF endpoint[d[2]] = "deleted" THEN "gone"
    ELSE CASE rows[d].status = "absent" ->
                 IF dispatch[d[1]] \in {"idle", "listed"} THEN "none" ELSE "gone"
           [] rows[d].status = "pending"    -> "pending"
           [] rows[d].status = "processing" -> "attempting"
           [] rows[d].status = "succeeded"  -> "succeeded"
           [] rows[d].status = "failed"     ->
                 IF rows[d].next_attempt_at THEN "waiting" ELSE "failed"

Lifecycle == INSTANCE DeliveryLifecycle
                 WITH phase <- [d \in Delivery |-> PhaseOf(d)],
                      requests <- posts

\* While the broker hands out each message once, the interleaved tasks of the
\* pipeline take every delivery through the lifecycle of DeliveryLifecycle.
ImplementsLifecycle == Lifecycle!Spec

=============================================================================
