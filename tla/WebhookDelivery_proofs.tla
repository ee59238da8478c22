----------------------- MODULE WebhookDelivery_proofs -----------------------
(***************************************************************************)
(* Proofs about WebhookDelivery for every set of events, endpoints and     *)
(* workers, every attempt limit and every combination of faults.  Type     *)
(* correctness and NeverStranded hold for any broker; the others assume    *)
(* that it hands out each message once (MaxRedeliveries = 0).              *)
(***************************************************************************)
EXTENDS WebhookDelivery, TLAPS

\* A delivery that an attempt may start for: never attempted or due for a
\* retry, with an attempt left.
Ready(d) ==
    /\ \/ rows[d].status = "pending"
       \/ rows[d].status = "failed" /\ rows[d].next_attempt_at
    /\ rows[d].attempt_count < MaxAttempts

\* What a task knows of the row it works on: its copy has not become stale,
\* because nobody but a deletion writes the row while the task holds it.
TaskInv(w) ==
    LET d == task[w] IN
    /\ pc[w] \in {"get", "deactivated", "claim"} /\ Exists(d) => Ready(d)
    /\ pc[w] = "deactivated" => copy[w].status = "failed" /\ ~copy[w].next_attempt_at
    /\ pc[w] = "claim" =>
          /\ copy[w].status = "processing"
          /\ ~copy[w].next_attempt_at
          /\ ~copy[w].delivered_at
          /\ Exists(d) => copy[w].attempt_count = rows[d].attempt_count + 1
    /\ pc[w] = "post" =>
          /\ posts[d] < copy[w].attempt_count
          /\ copy[w].status = "processing"
          /\ ~copy[w].delivered_at
    /\ pc[w] = "save" =>
          /\ posts[d] <= copy[w].attempt_count
          /\ copy[w].status \in {"succeeded", "failed"}
          /\ copy[w].delivered_at <=> copy[w].status = "succeeded"
          /\ copy[w].next_attempt_at =>
                copy[w].status = "failed" /\ copy[w].attempt_count < MaxAttempts
    /\ pc[w] \in {"post", "save"} =>
          /\ copy[w].attempt_count <= MaxAttempts
          /\ Exists(d) => /\ rows[d].status = "processing"
                          /\ rows[d].attempt_count = copy[w].attempt_count
    /\ pc[w] = "schedule" /\ Exists(d) => Ready(d) /\ rows[d].status = "failed"

\* Who can still send the delivery, and that it is at most one.
TokenInv(d) ==
    /\ queue[d] <= 1
    /\ queue[d] = 1 => \A w \in Worker : ~HeldBy(w, d)
    /\ \A w1, w2 \in Worker : HeldBy(w1, d) /\ HeldBy(w2, d) => w1 = w2
    /\ Unpublished(d) => queue[d] = 0 /\ \A w \in Worker : ~HeldBy(w, d)
    /\ Exists(d) /\ (queue[d] = 1 \/ Unpublished(d)) => Ready(d)
    /\ dispatch[d[1]] \in {"idle", "listed"} =>
          /\ ~Exists(d)
          /\ posts[d] = 0
          /\ queue[d] = 0
          /\ d \notin lost
          /\ \A w \in Worker : ~HeldBy(w, d)
    /\ d \in lost => /\ queue[d] = 0
                     /\ ~Unpublished(d)
                     /\ \A w \in Worker : ~HeldBy(w, d)

\* The columns of a row that exists agree with each other and with the
\* requests that were issued.
RowInv(d) ==
    /\ posts[d] <= MaxAttempts
    /\ rows[d].attempt_count <= MaxAttempts
    /\ Exists(d) => posts[d] <= rows[d].attempt_count
    /\ rows[d].delivered_at <=> rows[d].status = "succeeded"
    /\ ~Exists(d) => rows[d].attempt_count = 0 /\ ~rows[d].next_attempt_at
    /\ rows[d].next_attempt_at => rows[d].status = "failed"
    /\ ~Settled(d) =>
          \/ d \in lost
          \/ queue[d] = 1
          \/ Unpublished(d)
          \/ \E w \in Worker : HeldBy(w, d)
    /\ Exists(d) /\ Settled(d) =>
          /\ queue[d] = 0
          /\ ~Unpublished(d)
          /\ d \notin lost
          /\ \A w \in Worker : ~HeldBy(w, d)

IInv ==
    /\ TypeOK
    /\ redeliveries = 0
    /\ \A w \in Worker : TaskInv(w)
    /\ \A d \in Delivery : TokenInv(d) /\ RowInv(d)

-----------------------------------------------------------------------------
(* Type correctness.                                                       *)

\* The rows the code writes as a whole have the columns' types.
LEMMA RowTypes == AbsentRow \in Row /\ NewRow \in Row
  BY DEF AbsentRow, NewRow, Row, Status

LEMMA InitType == Init => TypeOK
  BY DEF Init, TypeOK, LiveEndpoint, EndpointState, DispatchStep, TaskStep,
         AbsentRow, Row, Status

\* So have the objects that each branch of webhook_delivery_send prepares.
LEMMA RowUpdateTypes ==
    ASSUME NEW r \in Row
    PROVE  /\ GivenUp(r) \in Row
           /\ Claimed(r) \in Row
           /\ \A response \in Outcome : AfterResponse(r, response) \in Row
<1>1. GivenUp(r) \in Row
  BY DEF GivenUp, Row, Status
<1>2. Claimed(r) \in Row
  <2>1. r.attempt_count + 1 \in Nat
    BY DEF Row
  <2>2. QED
    BY <2>1 DEF Claimed, Row, Status
<1>3. ASSUME NEW response \in Outcome
      PROVE  AfterResponse(r, response) \in Row
  <2>1. RetryAt(response, r.attempt_count) \in BOOLEAN
    BY DEF RetryAt, webhook_delivery_should_retry
  <2>2. QED
    BY <2>1 DEF AfterResponse, Row, Status
<1>4. QED
  BY <1>1, <1>2, <1>3

LEMMA ObjectColumns ==
    ASSUME NEW r \in Row
    PROVE  /\ GivenUp(r).status = "failed"
           /\ GivenUp(r).next_attempt_at = FALSE
           /\ GivenUp(r).delivered_at = r.delivered_at
           /\ Claimed(r).status = "processing"
           /\ Claimed(r).attempt_count = r.attempt_count + 1
           /\ Claimed(r).next_attempt_at = FALSE
           /\ Claimed(r).delivered_at = r.delivered_at
  BY DEF GivenUp, Claimed, Row

\* So does a row after a save of some columns of an object; what it then holds.
LEMMA SaveTypes ==
    ASSUME NEW r \in Row, NEW object \in Row
    PROVE  /\ StatusSaved(r, object) \in Row
           /\ AttemptSaved(r, object) \in Row
           /\ OutcomeSaved(r, object) \in Row
<1>1. StatusSaved(r, object) \in Row
  BY DEF StatusSaved, Row
<1>2. QED
  BY <1>1 DEF AttemptSaved, OutcomeSaved, Row

LEMMA SaveColumns ==
    ASSUME NEW r \in Row, NEW object \in Row
    PROVE  /\ LET s == StatusSaved(r, object)
              IN  /\ s.status = object.status
                  /\ s.next_attempt_at = object.next_attempt_at
                  /\ s.delivered_at = r.delivered_at
                  /\ s.attempt_count = r.attempt_count
           /\ LET s == AttemptSaved(r, object)
              IN  /\ s.status = object.status
                  /\ s.next_attempt_at = object.next_attempt_at
                  /\ s.delivered_at = r.delivered_at
                  /\ s.attempt_count = object.attempt_count
           /\ LET s == OutcomeSaved(r, object)
              IN  /\ s.status = object.status
                  /\ s.next_attempt_at = object.next_attempt_at
                  /\ s.delivered_at = object.delivered_at
                  /\ s.attempt_count = r.attempt_count
<1>1. LET s == StatusSaved(r, object)
      IN  /\ s.status = object.status
          /\ s.next_attempt_at = object.next_attempt_at
          /\ s.delivered_at = r.delivered_at
          /\ s.attempt_count = r.attempt_count
  BY DEF StatusSaved, Row
<1>2. StatusSaved(r, object) \in Row
  BY SaveTypes
<1>3. QED
  BY <1>1, <1>2 DEF AttemptSaved, OutcomeSaved, Row

\* Ending a task leaves the variables of the workers well typed.
LEMMA EndTaskType ==
    ASSUME TypeOK, NEW w \in Worker, EndTask(w)
    PROVE  /\ pc' \in [Worker -> TaskStep]
           /\ task' \in [Worker -> Delivery \cup {NoTask}]
           /\ copy' \in [Worker -> Row]
           /\ \A u \in Worker : pc'[u] # "idle" => task'[u] \in Delivery
  BY RowTypes DEF TypeOK, EndTask, TaskStep

LEMMA NextType == TypeOK /\ [Next]_vars => TypeOK'
<1> SUFFICES ASSUME TypeOK, [Next]_vars
             PROVE  TypeOK'
  OBVIOUS
<1> USE DEF TypeOK, dispatchVars, workerVars
<1>1. ASSUME NEW v \in Event, ListEndpoints(v)
      PROVE  TypeOK'
  BY <1>1 DEF ListEndpoints, DispatchStep
<1>2. ASSUME NEW v \in Event, CreateDeliveries(v)
      PROVE  TypeOK'
  BY <1>2, RowTypes DEF CreateDeliveries, DispatchStep
<1>3. ASSUME NEW v \in Event, NEW e \in Endpoint, Publish(v, e)
      PROVE  TypeOK'
  BY <1>3 DEF Publish, DispatchStep, Delivery
<1>4. ASSUME NEW v \in Event, DispatchFails(v)
      PROVE  TypeOK'
  BY <1>4 DEF DispatchFails, DispatchStep, Delivery
<1>5. ASSUME NEW w \in Worker, NEW d \in Delivery, Receive(w, d)
      PROVE  TypeOK'
  BY <1>5 DEF Receive, TaskStep
<1>6. ASSUME NEW w \in Worker, GetDelivery(w)
      PROVE  TypeOK'
  <2>1. task[w] \in Delivery /\ rows[task[w]] \in Row
    BY <1>6 DEF GetDelivery
  <2>2. CASE EndTask(w)
    BY <1>6, <2>2, EndTaskType DEF GetDelivery
  <2>3. CASE ~EndTask(w)
    <3>1. pc' \in [Worker -> TaskStep] /\ task' = task
      BY <1>6, <2>3 DEF GetDelivery, TaskStep
    <3>2. copy' \in [Worker -> Row]
      <4>1. copy'[w] \in Row /\ copy' = [copy EXCEPT ![w] = copy'[w]]
        BY <1>6, <2>1, <2>3, RowUpdateTypes DEF GetDelivery
      <4>2. QED
        BY <4>1
    <3>3. \A u \in Worker : pc'[u] # "idle" => task'[u] \in Delivery
      BY <1>6, <2>1, <2>3 DEF GetDelivery
    <3>4. QED
      BY <1>6, <3>1, <3>2, <3>3 DEF GetDelivery
  <2>4. QED
    BY <2>2, <2>3
<1>7. ASSUME NEW w \in Worker, SaveInactive(w)
      PROVE  TypeOK'
  <2>1. task[w] \in Delivery /\ copy[w] \in Row
    BY <1>7 DEF SaveInactive
  <2>2. rows' \in [Delivery -> Row]
    BY <1>7, <2>1, SaveTypes DEF SaveInactive
  <2>3. QED
    BY <1>7, <2>2, EndTaskType DEF SaveInactive
<1>8. ASSUME NEW w \in Worker, SaveProcessing(w)
      PROVE  TypeOK'
  <2>1. task[w] \in Delivery /\ copy[w] \in Row
    BY <1>8 DEF SaveProcessing
  <2>2. rows' \in [Delivery -> Row]
    BY <1>8, <2>1, SaveTypes DEF SaveProcessing
  <2>3. CASE EndTask(w)
    BY <1>8, <2>2, <2>3, EndTaskType DEF SaveProcessing
  <2>4. CASE ~EndTask(w)
    BY <1>8, <2>1, <2>2, <2>4 DEF SaveProcessing, TaskStep
  <2>5. QED
    BY <2>3, <2>4
<1>9. ASSUME NEW w \in Worker, NEW response \in Outcome, Post(w, response)
      PROVE  TypeOK'
  <2>1. task[w] \in Delivery /\ copy[w] \in Row
    BY <1>9 DEF Post
  <2>2. AfterResponse(copy[w], response) \in Row
    BY <2>1, RowUpdateTypes
  <2>3. /\ posts' \in [Delivery -> Nat]
        /\ copy' \in [Worker -> Row]
        /\ pc' \in [Worker -> TaskStep]
    BY <1>9, <2>1, <2>2 DEF Post, TaskStep
  <2>4. QED
    BY <1>9, <2>1, <2>3 DEF Post
<1>10. ASSUME NEW w \in Worker, SaveOutcome(w)
      PROVE  TypeOK'
  <2>1. task[w] \in Delivery /\ copy[w] \in Row
    BY <1>10 DEF SaveOutcome
  <2>2. rows' \in [Delivery -> Row]
    BY <1>10, <2>1, SaveTypes DEF SaveOutcome
  <2>3. CASE EndTask(w)
    BY <1>10, <2>2, <2>3, EndTaskType DEF SaveOutcome
  <2>4. CASE ~EndTask(w)
    <3>1. pc' = [pc EXCEPT ![w] = "schedule"] /\ UNCHANGED <<task, copy>>
      BY <1>10, <2>4 DEF SaveOutcome
    <3>2. QED
      BY <1>10, <2>1, <2>2, <3>1 DEF SaveOutcome, TaskStep
  <2>5. QED
    BY <2>3, <2>4
<1>11. ASSUME NEW w \in Worker, ScheduleRetry(w)
      PROVE  TypeOK'
  BY <1>11 DEF ScheduleRetry, EndTask, TaskStep, AbsentRow, Row, Status
<1>12. ASSUME NEW w \in Worker, TaskDies(w)
      PROVE  TypeOK'
  BY <1>12 DEF TaskDies, EndTask, TaskStep, AbsentRow, Row, Status
<1>13. ASSUME NEW e \in Endpoint, EndpointUpdate(e)
      PROVE  TypeOK'
  BY <1>13 DEF EndpointUpdate, LiveEndpoint, EndpointState
<1>14. ASSUME NEW e \in Endpoint, EndpointDelete(e)
      PROVE  TypeOK'
  BY <1>14 DEF EndpointDelete, LiveEndpoint, EndpointState, AbsentRow, Row, Status
<1>15. ASSUME NEW d \in Delivery, Redeliver(d)
      PROVE  TypeOK'
  BY <1>15 DEF Redeliver
<1>16. ASSUME NEW d \in Delivery, DeliveryDelete(d)
      PROVE  TypeOK'
  BY <1>16 DEF DeliveryDelete, AbsentRow, Row, Status
<1>17. CASE UNCHANGED vars
  BY <1>17 DEF vars
<1>18. QED
  BY <1>1, <1>2, <1>3, <1>4, <1>5, <1>6, <1>7, <1>8, <1>9, <1>10, <1>11, <1>12,
     <1>13, <1>14, <1>15, <1>16, <1>17 DEF Next, DispatchNext, TaskNext

\* Every reachable state is well typed: a task that is running has a delivery,
\* a row only holds values of its columns.
THEOREM TypeCorrect == Spec => []TypeOK
  BY InitType, NextType, PTL DEF Spec

-----------------------------------------------------------------------------
(* The inductive invariant IInv, while no message is handed out twice.     *)

\* A task keeps what it knows when nobody touches it, its row or its requests.
LEMMA TaskFrame ==
    ASSUME NEW u \in Worker, TaskInv(u),
           pc'[u] = pc[u], task'[u] = task[u], copy'[u] = copy[u],
           pc[u] # "idle" => /\ \/ rows'[task[u]] = rows[task[u]]
                                \/ rows'[task[u]] = AbsentRow
                             /\ posts'[task[u]] = posts[task[u]]
    PROVE  TaskInv(u)'
<1>1. CASE pc[u] = "idle"
  BY <1>1 DEF TaskInv
<1>2. CASE pc[u] # "idle" /\ rows'[task[u]] = rows[task[u]]
  BY <1>2 DEF TaskInv, Exists, Ready
<1>3. CASE pc[u] # "idle" /\ rows'[task[u]] = AbsentRow
  <2>1. ~Exists(task[u])'
    BY <1>3 DEF Exists, AbsentRow
  <2>2. QED
    BY <1>3, <2>1 DEF TaskInv
<1>4. QED
  BY <1>1, <1>2, <1>3

\* So does a delivery.
LEMMA DeliveryFrame ==
    ASSUME NEW d \in Delivery, TokenInv(d), RowInv(d),
           rows'[d] = rows[d], queue'[d] = queue[d], posts'[d] = posts[d],
           d \in lost' <=> d \in lost,
           dispatch'[d[1]] = dispatch[d[1]],
           d[2] \in todo'[d[1]] <=> d[2] \in todo[d[1]],
           \A u \in Worker : HeldBy(u, d)' <=> HeldBy(u, d)
    PROVE  TokenInv(d)' /\ RowInv(d)'
<1>1. /\ Exists(d)' <=> Exists(d)
      /\ Ready(d)' <=> Ready(d)
      /\ Settled(d)' <=> Settled(d)
      /\ Unpublished(d)' <=> Unpublished(d)
  BY DEF Exists, Ready, Settled, Unpublished
<1>2. TokenInv(d)'
  BY <1>1 DEF TokenInv
<1>3. RowInv(d)'
  BY <1>1 DEF RowInv
<1>4. QED
  BY <1>2, <1>3

\* What a step of worker w leaves alone: the other workers, the deliveries
\* that are not its own, and the dispatching processes.
OnlyOwn(w) ==
    /\ \A u \in Worker : u # w => /\ pc'[u] = pc[u]
                                  /\ task'[u] = task[u]
                                  /\ copy'[u] = copy[u]
    /\ \A d \in Delivery : d # task[w] => /\ rows'[d] = rows[d]
                                          /\ queue'[d] = queue[d]
                                          /\ posts'[d] = posts[d]
                                          /\ d \in lost' <=> d \in lost
    /\ pc'[w] # "idle" => task'[w] = task[w]
    /\ UNCHANGED <<dispatch, todo, redeliveries>>

\* The invariant of everything else survives such a step.
LEMMA OwnStep ==
    ASSUME IInv, TypeOK', NEW w \in Worker, pc[w] # "idle", OnlyOwn(w),
           NEW d \in Delivery, d = task[w],
           TaskInv(w)', TokenInv(d)', RowInv(d)'
    PROVE  IInv'
<1>1. ASSUME NEW u \in Worker, u # w
      PROVE  TaskInv(u)'
  <2>1. TaskInv(u) /\ pc'[u] = pc[u] /\ task'[u] = task[u] /\ copy'[u] = copy[u]
    BY <1>1 DEF IInv, OnlyOwn
  <2>2. ASSUME pc[u] # "idle"
        PROVE  rows'[task[u]] = rows[task[u]] /\ posts'[task[u]] = posts[task[u]]
    <3>1. task[u] \in Delivery /\ task[w] \in Delivery
      BY <2>2 DEF IInv, TypeOK
    <3>2. task[u] # task[w]
      BY <1>1, <2>2, <3>1 DEF IInv, TokenInv, HeldBy
    <3>3. QED
      BY <3>1, <3>2 DEF OnlyOwn
  <2>3. QED
    BY <2>1, <2>2, TaskFrame
<1>2. ASSUME NEW e \in Delivery, e # d
      PROVE  TokenInv(e)' /\ RowInv(e)'
  <2>1. \A u \in Worker : HeldBy(u, e)' <=> HeldBy(u, e)
    BY <1>2 DEF OnlyOwn, HeldBy
  <2>2. QED
    BY <1>2, <2>1, DeliveryFrame DEF IInv, OnlyOwn
<1>3. redeliveries' = 0
  BY DEF IInv, OnlyOwn
<1>4. \A u \in Worker : TaskInv(u)'
  BY <1>1
<1>5. \A e \in Delivery : TokenInv(e)' /\ RowInv(e)'
  BY <1>2
<1>6. QED
  BY <1>3, <1>4, <1>5 DEF IInv

LEMMA InitIInv == Init => IInv
<1> SUFFICES ASSUME Init
             PROVE  IInv
  OBVIOUS
<1>1. TypeOK /\ redeliveries = 0
  BY InitType DEF Init
<1>2. ASSUME NEW w \in Worker
      PROVE  TaskInv(w)
  BY DEF Init, TaskInv
<1>3. ASSUME NEW d \in Delivery
      PROVE  TokenInv(d) /\ RowInv(d)
  <2>1. rows[d] = AbsentRow /\ ~Exists(d) /\ Settled(d)
    BY DEF Init, Exists, Settled, AbsentRow
  <2>2. d[1] \in Event /\ d[2] \in Endpoint
    BY DEF Delivery
  <2>3. dispatch[d[1]] = "idle" /\ ~Unpublished(d) /\ \A w \in Worker : ~HeldBy(w, d)
    BY <2>2 DEF Init, Unpublished, HeldBy
  <2>4. QED
    BY <2>1, <2>3, AttemptsAssumption DEF Init, TokenInv, RowInv, AbsentRow
<1>4. QED
  BY <1>1, <1>2, <1>3 DEF IInv

\* What holds of the delivery a busy worker has in hand.
LEMMA InHand ==
    ASSUME IInv, NEW w \in Worker, pc[w] # "idle", NEW d, d = task[w]
    PROVE  /\ d \in Delivery
           /\ rows[d] \in Row /\ copy[w] \in Row
           /\ TaskInv(w) /\ TokenInv(d) /\ RowInv(d)
           /\ HeldBy(w, d)
           /\ queue[d] = 0 /\ ~Unpublished(d) /\ d \notin lost
           /\ \A u \in Worker : u # w => ~HeldBy(u, d)
           /\ dispatch[d[1]] \notin {"idle", "listed"}
<1>1. d \in Delivery /\ rows[d] \in Row /\ copy[w] \in Row /\ queue[d] \in Nat
  BY DEF IInv, TypeOK
<1>2. TaskInv(w) /\ TokenInv(d) /\ RowInv(d) /\ HeldBy(w, d)
  BY <1>1 DEF IInv, HeldBy
<1>3. QED
  BY <1>1, <1>2 DEF TokenInv

LEMMA SaveOutcomeIInv ==
    ASSUME IInv, TypeOK', NEW w \in Worker, SaveOutcome(w)
    PROVE  IInv'
<1> PICK d : d = task[w]
  OBVIOUS
<1>1. pc[w] = "save"
  BY DEF SaveOutcome
<1> USE <1>1, InHand
<1>2. OnlyOwn(w)
  BY DEF SaveOutcome, EndTask, OnlyOwn, IInv, TypeOK, dispatchVars
<1>3. /\ Exists(d) => rows'[d] = OutcomeSaved(rows[d], copy[w])
      /\ ~Exists(d) => rows'[d] = rows[d]
      /\ IF Exists(d) /\ copy[w].status = "failed" /\ copy[w].next_attempt_at
         THEN pc'[w] = "schedule" /\ task'[w] = d
         ELSE pc'[w] = "idle"
      /\ UNCHANGED <<queue, posts, lost, dispatch, todo>>
      /\ \A u \in Worker : u # w => ~HeldBy(u, d)'
  BY DEF SaveOutcome, EndTask, IInv, TypeOK, dispatchVars, HeldBy
<1>4. Exists(d) => /\ rows'[d].status = copy[w].status
                   /\ rows'[d].next_attempt_at = copy[w].next_attempt_at
                   /\ rows'[d].delivered_at = copy[w].delivered_at
                   /\ rows'[d].attempt_count = rows[d].attempt_count
  BY <1>3, SaveColumns
<1>5. TaskInv(w)'
  BY <1>3, <1>4 DEF TaskInv, Ready, Exists
<1>6. TokenInv(d)'
  BY <1>3 DEF TokenInv, Unpublished, HeldBy, Exists
<1>7. RowInv(d)'
  BY <1>3, <1>4 DEF RowInv, TaskInv, Unpublished, HeldBy, Exists, Settled
<1>8. QED
  BY <1>2, <1>5, <1>6, <1>7, OwnStep

LEMMA GetDeliveryIInv ==
    ASSUME IInv, TypeOK', NEW w \in Worker, GetDelivery(w)
    PROVE  IInv'
<1> PICK d : d = task[w]
  OBVIOUS
<1>1. pc[w] = "get"
  BY DEF GetDelivery
<1> USE <1>1, InHand
<1>2. OnlyOwn(w)
  BY DEF GetDelivery, EndTask, OnlyOwn, IInv, TypeOK, dispatchVars
<1>3. /\ UNCHANGED <<rows, queue, posts, lost, dispatch, todo>>
      /\ \A u \in Worker : u # w => ~HeldBy(u, d)'
      /\ Exists(d) => Ready(d) /\ ~rows[d].delivered_at /\ posts[d] <= rows[d].attempt_count
  BY DEF GetDelivery, EndTask, IInv, TypeOK, dispatchVars, HeldBy, TaskInv, RowInv, Ready
<1>4. CASE EndTask(w)
  <2>1. pc'[w] = "idle" /\ ~HeldBy(w, d)'
    BY <1>4 DEF EndTask, HeldBy, IInv, TypeOK
  <2>2. ~Exists(d)
    BY <1>3, <1>4 DEF GetDelivery, NothingToSend, EndTask, Ready, IInv, TypeOK, TaskStep
  <2>3. TaskInv(w)'
    BY <2>1 DEF TaskInv
  <2>4. TokenInv(d)'
    BY <1>3, <2>1, <2>2 DEF TokenInv, Unpublished, Exists
  <2>5. RowInv(d)'
    BY <1>3, <2>1, <2>2 DEF RowInv, Unpublished, Exists, Settled
  <2>6. QED
    BY <1>2, <2>3, <2>4, <2>5, OwnStep
<1>5. CASE /\ Exists(d) /\ task' = task
           /\ \/ pc'[w] = "deactivated" /\ copy'[w] = GivenUp(rows[d])
              \/ pc'[w] = "claim" /\ copy'[w] = Claimed(rows[d])
  <2>1. HeldBy(w, d)'
    BY <1>5 DEF HeldBy
  <2>2. /\ copy'[w].next_attempt_at = FALSE
        /\ copy'[w].delivered_at = rows[d].delivered_at
        /\ pc'[w] = "deactivated" => copy'[w].status = "failed"
        /\ pc'[w] = "claim" => /\ copy'[w].status = "processing"
                               /\ copy'[w].attempt_count = rows[d].attempt_count + 1
    <3>1. rows[d] \in Row
      OBVIOUS
    <3>2. CASE pc'[w] = "deactivated" /\ copy'[w] = GivenUp(rows[d])
      BY <3>1, <3>2, ObjectColumns
    <3>3. CASE pc'[w] = "claim" /\ copy'[w] = Claimed(rows[d])
      BY <3>1, <3>3, ObjectColumns
    <3>4. QED
      BY <1>5, <3>2, <3>3
  <2>3. TaskInv(w)'
    BY <1>3, <1>5, <2>2 DEF TaskInv, Ready, Exists
  <2>4. TokenInv(d)' /\ RowInv(d)'
    <3>1. \A u \in Worker : HeldBy(u, d)' <=> HeldBy(u, d)
      BY <1>3, <2>1
    <3>2. QED
      BY <1>3, <3>1, DeliveryFrame
  <2>5. QED
    BY <1>2, <2>3, <2>4, OwnStep
<1>6. QED
  BY <1>4, <1>5 DEF GetDelivery, NothingToSend, IInv, TypeOK

LEMMA SaveInactiveIInv ==
    ASSUME IInv, TypeOK', NEW w \in Worker, SaveInactive(w)
    PROVE  IInv'
<1> PICK d : d = task[w]
  OBVIOUS
<1>1. pc[w] = "deactivated"
  BY DEF SaveInactive
<1> USE <1>1, InHand
<1>2. OnlyOwn(w)
  BY DEF SaveInactive, EndTask, OnlyOwn, IInv, TypeOK, dispatchVars
<1>3. /\ Exists(d) => rows'[d] = StatusSaved(rows[d], copy[w])
      /\ ~Exists(d) => rows'[d] = rows[d]
      /\ pc'[w] = "idle"
      /\ UNCHANGED <<queue, posts, lost, dispatch, todo>>
      /\ \A u \in Worker : u # w => ~HeldBy(u, d)'
  BY DEF SaveInactive, EndTask, IInv, TypeOK, dispatchVars, HeldBy
<1>4. Exists(d) => /\ rows'[d].status = copy[w].status
                   /\ rows'[d].next_attempt_at = copy[w].next_attempt_at
                   /\ rows'[d].delivered_at = rows[d].delivered_at
                   /\ rows'[d].attempt_count = rows[d].attempt_count
  BY <1>3, SaveColumns
<1>5. TaskInv(w)'
  BY <1>3 DEF TaskInv
<1>6. TokenInv(d)'
  BY <1>3 DEF TokenInv, Unpublished, HeldBy, Exists
<1>7. RowInv(d)'
  BY <1>3, <1>4 DEF RowInv, TaskInv, Unpublished, HeldBy, Exists, Settled, Ready
<1>8. QED
  BY <1>2, <1>5, <1>6, <1>7, OwnStep

LEMMA SaveProcessingIInv ==
    ASSUME IInv, TypeOK', NEW w \in Worker, SaveProcessing(w)
    PROVE  IInv'
<1> PICK d : d = task[w]
  OBVIOUS
<1>1. pc[w] = "claim"
  BY DEF SaveProcessing
<1> USE <1>1, InHand
<1>2. OnlyOwn(w)
  BY DEF SaveProcessing, EndTask, OnlyOwn, IInv, TypeOK, dispatchVars
<1>3. /\ Exists(d) => /\ rows'[d] = AttemptSaved(rows[d], copy[w])
                      /\ pc'[w] = "post" /\ task'[w] = d /\ copy'[w] = copy[w]
      /\ ~Exists(d) => rows'[d] = rows[d] /\ pc'[w] = "idle"
      /\ UNCHANGED <<queue, posts, lost, dispatch, todo>>
      /\ \A u \in Worker : u # w => ~HeldBy(u, d)'
  BY DEF SaveProcessing, EndTask, IInv, TypeOK, dispatchVars, HeldBy
<1>4. Exists(d) => /\ rows'[d].status = copy[w].status
                   /\ rows'[d].next_attempt_at = copy[w].next_attempt_at
                   /\ rows'[d].delivered_at = rows[d].delivered_at
                   /\ rows'[d].attempt_count = copy[w].attempt_count
  BY <1>3, SaveColumns
<1>5. rows[d].attempt_count \in Nat /\ posts[d] \in Nat
  BY DEF Row, IInv, TypeOK
<1>6. TaskInv(w)'
  BY <1>3, <1>4, <1>5, AttemptsAssumption DEF TaskInv, RowInv, Ready, Exists
<1>7. TokenInv(d)'
  BY <1>3 DEF TokenInv, Unpublished, HeldBy, Exists
<1>8. RowInv(d)'
  BY <1>3, <1>4, <1>5, AttemptsAssumption
     DEF RowInv, TaskInv, Unpublished, HeldBy, Exists, Settled, Ready
<1>9. QED
  BY <1>2, <1>6, <1>7, <1>8, OwnStep

LEMMA PostIInv ==
    ASSUME IInv, TypeOK', NEW w \in Worker, NEW response \in Outcome, Post(w, response)
    PROVE  IInv'
<1> PICK d : d = task[w]
  OBVIOUS
<1>1. pc[w] = "post"
  BY DEF Post
<1> USE <1>1, InHand
<1>2. OnlyOwn(w)
  BY DEF Post, OnlyOwn, IInv, TypeOK, dispatchVars
<1>3. /\ UNCHANGED <<rows, queue, lost, dispatch, todo>>
      /\ posts'[d] = posts[d] + 1
      /\ copy'[w] = AfterResponse(copy[w], response)
      /\ pc'[w] = "save" /\ task'[w] = d /\ HeldBy(w, d)'
      /\ \A u \in Worker : u # w => ~HeldBy(u, d)'
  BY DEF Post, IInv, TypeOK, dispatchVars, HeldBy
<1>4. copy[w].attempt_count \in Nat /\ posts[d] \in Nat /\ MaxAttempts \in Nat
  BY AttemptsAssumption DEF Row, IInv, TypeOK
<1>5. posts[d] < copy[w].attempt_count /\ copy[w].attempt_count <= MaxAttempts
  BY DEF TaskInv
<1>6. /\ copy'[w].attempt_count = copy[w].attempt_count
      /\ copy'[w].status \in {"succeeded", "failed"}
      /\ copy'[w].delivered_at <=> copy'[w].status = "succeeded"
      /\ copy'[w].next_attempt_at =>
            copy'[w].status = "failed" /\ copy[w].attempt_count < MaxAttempts
  <2>1. RetryAt(response, copy[w].attempt_count) =>
            copy[w].attempt_count < MaxAttempts
    BY DEF RetryAt, webhook_delivery_should_retry
  <2>2. copy[w].delivered_at = FALSE
    BY DEF TaskInv, Row
  <2>3. QED
    BY <1>3, <2>1, <2>2 DEF AfterResponse, Row
<1>7. TaskInv(w)'
  BY <1>3, <1>4, <1>5, <1>6 DEF TaskInv, Exists
<1>8. TokenInv(d)'
  BY <1>3 DEF TokenInv, Unpublished, Exists
<1>9. RowInv(d)'
  <2>1. posts'[d] <= MaxAttempts
    BY <1>3, <1>4, <1>5
  <2>2. Exists(d) => /\ rows[d].status = "processing"
                     /\ posts'[d] <= rows[d].attempt_count
    BY <1>3, <1>4, <1>5 DEF TaskInv
  <2>3. QED
    BY <1>3, <2>1, <2>2 DEF RowInv, Unpublished, Exists, Settled
<1>10. QED
  BY <1>2, <1>7, <1>8, <1>9, OwnStep

LEMMA ScheduleRetryIInv ==
    ASSUME IInv, TypeOK', NEW w \in Worker, ScheduleRetry(w)
    PROVE  IInv'
<1> PICK d : d = task[w]
  OBVIOUS
<1>1. pc[w] = "schedule"
  BY DEF ScheduleRetry
<1> USE <1>1, InHand
<1>2. OnlyOwn(w)
  BY DEF ScheduleRetry, EndTask, OnlyOwn, IInv, TypeOK, dispatchVars
<1>3. /\ queue'[d] = 1
      /\ pc'[w] = "idle"
      /\ UNCHANGED <<rows, posts, lost, dispatch, todo>>
      /\ \A u \in Worker : ~HeldBy(u, d)'
  BY DEF ScheduleRetry, EndTask, IInv, TypeOK, dispatchVars, HeldBy
<1>4. TaskInv(w)'
  BY <1>3 DEF TaskInv
<1>5. TokenInv(d)'
  BY <1>3 DEF TokenInv, TaskInv, Unpublished, Exists, Ready
<1>6. RowInv(d)'
  BY <1>3 DEF RowInv, TaskInv, Unpublished, Exists, Settled, Ready
<1>7. QED
  BY <1>2, <1>4, <1>5, <1>6, OwnStep

LEMMA TaskDiesIInv ==
    ASSUME IInv, TypeOK', NEW w \in Worker, TaskDies(w)
    PROVE  IInv'
<1> PICK d : d = task[w]
  OBVIOUS
<1>1. pc[w] # "idle"
  BY DEF TaskDies
<1> USE <1>1, InHand
<1>2. OnlyOwn(w)
  BY DEF TaskDies, EndTask, OnlyOwn, IInv, TypeOK, dispatchVars
<1>3. /\ d \in lost'
      /\ pc'[w] = "idle"
      /\ UNCHANGED <<rows, queue, posts, dispatch, todo>>
      /\ \A u \in Worker : ~HeldBy(u, d)'
  BY DEF TaskDies, EndTask, IInv, TypeOK, dispatchVars, HeldBy
<1>4. Exists(d) => ~Settled(d)
  BY DEF RowInv
<1>5. TaskInv(w)'
  BY <1>3 DEF TaskInv
<1>6. TokenInv(d)'
  BY <1>3 DEF TokenInv, Unpublished, Exists
<1>7. RowInv(d)'
  BY <1>3, <1>4 DEF RowInv, Unpublished, Exists, Settled
<1>8. QED
  BY <1>2, <1>5, <1>6, <1>7, OwnStep

LEMMA ReceiveIInv ==
    ASSUME IInv, TypeOK', NEW w \in Worker, NEW d \in Delivery, Receive(w, d)
    PROVE  IInv'
<1>1. /\ pc[w] = "idle"
      /\ queue[d] = 1 /\ queue'[d] = 0
      /\ pc'[w] = "get" /\ task'[w] = d
      /\ UNCHANGED <<rows, posts, lost, dispatch, todo, redeliveries>>
      /\ \A u \in Worker : u # w => /\ pc'[u] = pc[u]
                                    /\ task'[u] = task[u]
                                    /\ copy'[u] = copy[u]
      /\ \A e \in Delivery : e # d => queue'[e] = queue[e]
  BY DEF Receive, IInv, TypeOK, TokenInv, dispatchVars
<1>2. TokenInv(d) /\ RowInv(d) /\ \A u \in Worker : ~HeldBy(u, d)
  BY <1>1 DEF IInv, TokenInv
<1>3. HeldBy(w, d)' /\ \A u \in Worker : u # w => ~HeldBy(u, d)'
  BY <1>1, <1>2 DEF HeldBy
<1>4. ASSUME NEW u \in Worker
      PROVE  TaskInv(u)'
  <2>1. CASE u = w
    BY <1>1, <1>2, <2>1 DEF TaskInv, TokenInv, Ready, Exists
  <2>2. CASE u # w
    BY <1>1, <2>2, TaskFrame DEF IInv
  <2>3. QED
    BY <2>1, <2>2
<1>5. ASSUME NEW e \in Delivery
      PROVE  TokenInv(e)' /\ RowInv(e)'
  <2>1. CASE e = d
    <3>1. TokenInv(d)'
      BY <1>1, <1>2, <1>3 DEF TokenInv, Unpublished, Exists
    <3>2. RowInv(d)'
      BY <1>1, <1>2, <1>3 DEF RowInv, TokenInv, Unpublished, Exists, Settled, Ready
    <3>3. QED
      BY <2>1, <3>1, <3>2
  <2>2. CASE e # d
    <3>1. \A u \in Worker : HeldBy(u, e)' <=> HeldBy(u, e)
      BY <1>1, <2>2 DEF HeldBy
    <3>2. QED
      BY <1>1, <2>2, <3>1, DeliveryFrame DEF IInv
  <2>3. QED
    BY <2>1, <2>2
<1>6. QED
  BY <1>1, <1>4, <1>5 DEF IInv

LEMMA DispatchIInv ==
    ASSUME IInv, TypeOK', NEW v \in Event, DispatchNext(v) \/ DispatchFails(v)
    PROVE  IInv'
<1>1. /\ UNCHANGED <<pc, task, copy, posts, redeliveries>>
      /\ \A u \in Event : u # v => /\ dispatch'[u] = dispatch[u]
                                   /\ todo'[u] = todo[u]
  BY DEF DispatchNext, ListEndpoints, CreateDeliveries, Publish, DispatchFails,
         IInv, TypeOK, workerVars
<1>2. ASSUME NEW d \in Delivery, d[1] # v
      PROVE  TokenInv(d)' /\ RowInv(d)'
  <2>1. d[1] \in Event /\ d = <<d[1], d[2]>>
    BY DEF Delivery
  <2>2. /\ rows'[d] = rows[d] /\ queue'[d] = queue[d]
        /\ d \in lost' <=> d \in lost
    <3>1. CASE ListEndpoints(v) \/ CreateDeliveries(v) \/ DispatchFails(v)
      BY <1>2, <2>1, <3>1 DEF ListEndpoints, CreateDeliveries, DispatchFails
    <3>2. ASSUME NEW e \in Endpoint, Publish(v, e)
          PROVE  UNCHANGED <<rows, lost>> /\ queue'[d] = queue[d]
      <4>1. d # <<v, e>>
        BY <1>2, <2>1
      <4>2. QED
        BY <3>2, <4>1 DEF Publish, IInv, TypeOK
    <3>3. QED
      BY <3>1, <3>2 DEF DispatchNext
  <2>3. \A u \in Worker : HeldBy(u, d)' <=> HeldBy(u, d)
    BY <1>1 DEF HeldBy
  <2>4. QED
    BY <1>1, <1>2, <2>1, <2>2, <2>3, DeliveryFrame DEF IInv
<1>3. ASSUME NEW d \in Delivery, d[1] = v
      PROVE  TokenInv(d)' /\ RowInv(d)'
  <2>1. /\ TokenInv(d) /\ RowInv(d)
        /\ d[2] \in Endpoint /\ d = <<v, d[2]>>
        /\ queue[d] \in Nat /\ rows[d] \in Row
        /\ \A u \in Worker : HeldBy(u, d)' <=> HeldBy(u, d)
    BY <1>1, <1>3 DEF Delivery, HeldBy, IInv, TypeOK
  <2>2. CASE ListEndpoints(v)
    <3>1. /\ UNCHANGED <<rows, queue, lost>>
          /\ dispatch[v] = "idle" /\ dispatch'[v] \in {"listed", "done"}
      BY <2>2 DEF ListEndpoints, IInv, TypeOK
    <3>2. QED
      BY <1>1, <1>3, <2>1, <3>1 DEF TokenInv, RowInv, Exists, Settled, Unpublished, Ready
  <2>3. CASE CreateDeliveries(v)
    <3>1. /\ UNCHANGED <<queue, lost>>
          /\ dispatch[v] = "listed" /\ ~Exists(d) /\ posts[d] = 0 /\ queue[d] = 0
          /\ d \notin lost /\ \A u \in Worker : ~HeldBy(u, d)
      BY <1>3, <2>1, <2>3 DEF CreateDeliveries, TokenInv
    <3>2. CASE dispatch'[v] = "publish" /\ todo' = todo /\ d[2] \in todo[v] /\ rows'[d] = NewRow
      <4>1. /\ Exists(d)' /\ Ready(d)' /\ ~Settled(d)' /\ Unpublished(d)'
            /\ rows'[d].attempt_count = 0 /\ ~rows'[d].delivered_at
            /\ rows'[d].status = "pending" /\ ~rows'[d].next_attempt_at
        BY <1>3, <3>2, AttemptsAssumption
           DEF NewRow, AbsentRow, Exists, Ready, Settled, Unpublished
      <4>2. QED
        BY <1>1, <1>3, <2>1, <3>1, <3>2, <4>1, AttemptsAssumption DEF TokenInv, RowInv
    <3>3. CASE dispatch'[v] \in {"done", "publish"} /\ d[2] \notin todo'[v] /\ rows'[d] = rows[d]
      <4>1. ~Exists(d)' /\ ~Unpublished(d)' /\ Settled(d)'
        BY <1>3, <3>1, <3>3 DEF Exists, Unpublished, Settled
      <4>2. QED
        BY <1>1, <1>3, <2>1, <3>1, <3>3, <4>1 DEF TokenInv, RowInv
    <3>4. QED
      BY <1>3, <2>1, <2>3, <3>2, <3>3 DEF CreateDeliveries, IInv, TypeOK
  <2>4. ASSUME NEW e \in Endpoint, Publish(v, e)
        PROVE  TokenInv(d)' /\ RowInv(d)'
    <3>1. UNCHANGED <<rows, lost>> /\ dispatch[v] = "publish" /\ e \in todo[v]
      BY <2>4 DEF Publish
    <3>2. CASE d[2] = e
      <4>1. Unpublished(d) /\ queue[d] = 0 /\ \A u \in Worker : ~HeldBy(u, d)
        BY <1>3, <2>1, <3>1, <3>2 DEF Unpublished, TokenInv
      <4>2. /\ queue'[d] = 1 /\ ~Unpublished(d)'
            /\ dispatch'[v] \in {"publish", "done"}
        BY <1>3, <2>1, <2>4, <3>2, <4>1 DEF Publish, Unpublished, IInv, TypeOK
      <4>3. QED
        BY <1>1, <1>3, <2>1, <3>1, <4>1, <4>2
           DEF TokenInv, RowInv, Exists, Settled, Ready
    <3>3. CASE d[2] # e
      <4>1. d # <<v, e>>
        BY <2>1, <3>3
      <4>2. queue'[d] = queue[d]
        BY <2>1, <2>4, <4>1 DEF Publish, IInv, TypeOK
      <4>3. /\ d[2] \in todo'[v] <=> d[2] \in todo[v]
            /\ dispatch'[v] \in {"publish", "done"}
            /\ dispatch'[v] = "done" => d[2] \notin todo[v]
        BY <2>4, <3>3 DEF Publish, IInv, TypeOK
      <4>4. Unpublished(d)' <=> Unpublished(d)
        BY <1>3, <3>1, <4>3 DEF Unpublished
      <4>5. QED
        BY <1>1, <1>3, <2>1, <3>1, <4>2, <4>3, <4>4
           DEF TokenInv, RowInv, Exists, Settled, Ready
    <3>4. QED
      BY <3>2, <3>3
  <2>5. CASE DispatchFails(v)
    <3>1. /\ UNCHANGED <<rows, queue>>
          /\ dispatch[v] \in {"listed", "publish"}
          /\ dispatch'[v] = "done" /\ ~Unpublished(d)'
          /\ d \in lost' <=> d \in lost \/ Unpublished(d)
      BY <1>3, <2>1, <2>5 DEF DispatchFails, Unpublished, IInv, TypeOK
    <3>2. QED
      BY <1>1, <1>3, <2>1, <3>1 DEF TokenInv, RowInv, Exists, Settled, Ready
  <2>6. QED
    BY <2>2, <2>3, <2>4, <2>5 DEF DispatchNext
<1>4. ASSUME NEW u \in Worker
      PROVE  TaskInv(u)'
  <2>1. pc[u] # "idle" => task[u] \in Delivery
    BY DEF IInv, TypeOK
  <2>2. ASSUME pc[u] # "idle"
        PROVE  rows'[task[u]] = rows[task[u]]
    <3>1. CASE \/ ListEndpoints(v) \/ DispatchFails(v)
               \/ \E e \in Endpoint : Publish(v, e)
      BY <3>1 DEF ListEndpoints, Publish, DispatchFails
    <3>2. CASE CreateDeliveries(v)
      <4>1. task[u] \in Delivery /\ HeldBy(u, task[u]) /\ TokenInv(task[u])
        BY <2>1, <2>2 DEF HeldBy, IInv
      <4>2. task[u][1] # v
        BY <3>2, <4>1 DEF TokenInv, CreateDeliveries
      <4>3. QED
        BY <3>2, <4>1, <4>2 DEF CreateDeliveries
    <3>3. QED
      BY <3>1, <3>2 DEF DispatchNext
  <2>3. QED
    BY <1>1, <2>1, <2>2, TaskFrame DEF IInv
<1>5. QED
  BY <1>1, <1>2, <1>3, <1>4 DEF IInv

LEMMA OwnerIInv ==
    ASSUME IInv, TypeOK',
           \/ \E e \in Endpoint : EndpointUpdate(e) \/ EndpointDelete(e)
           \/ \E d \in Delivery : DeliveryDelete(d)
    PROVE  IInv'
<1>1. /\ UNCHANGED <<pc, task, copy, queue, posts, lost, dispatch, todo, redeliveries>>
      /\ \A d \in Delivery : rows'[d] \in {rows[d], AbsentRow}
  BY DEF EndpointUpdate, EndpointDelete, DeliveryDelete, IInv, TypeOK, workerVars, dispatchVars
<1>2. ASSUME NEW u \in Worker
      PROVE  TaskInv(u)'
  <2>1. pc[u] # "idle" => task[u] \in Delivery
    BY DEF IInv, TypeOK
  <2>2. QED
    BY <1>1, <2>1, TaskFrame DEF IInv
<1>3. ASSUME NEW d \in Delivery
      PROVE  TokenInv(d)' /\ RowInv(d)'
  <2>1. \A u \in Worker : HeldBy(u, d)' <=> HeldBy(u, d)
    BY <1>1 DEF HeldBy
  <2>2. CASE rows'[d] = rows[d]
    BY <1>1, <2>1, <2>2, DeliveryFrame DEF IInv
  <2>3. CASE rows'[d] = AbsentRow
    <3>1. ~Exists(d)' /\ Settled(d)'
      BY <2>3 DEF Exists, Settled, AbsentRow
    <3>2. /\ rows'[d].attempt_count = 0 /\ rows'[d].delivered_at = FALSE
          /\ rows'[d].next_attempt_at = FALSE /\ rows'[d].status = "absent"
      BY <2>3 DEF AbsentRow
    <3>3. Unpublished(d)' <=> Unpublished(d)
      BY <1>1 DEF Unpublished
    <3>4. TokenInv(d)'
      BY <1>1, <2>1, <3>1, <3>3 DEF IInv, TokenInv
    <3>5. RowInv(d)'
      BY <1>1, <3>1, <3>2, AttemptsAssumption DEF IInv, RowInv
    <3>6. QED
      BY <3>4, <3>5
  <2>4. QED
    BY <1>1, <2>2, <2>3
<1>4. QED
  BY <1>1, <1>2, <1>3 DEF IInv

LEMMA NextIInv ==
    ASSUME MaxRedeliveries = 0, IInv, [Next]_vars
    PROVE  IInv'
<1>1. TypeOK'
  BY NextType DEF IInv
<1>2. ASSUME NEW v \in Event, DispatchNext(v) \/ DispatchFails(v)
      PROVE  IInv'
  BY <1>1, <1>2, DispatchIInv
<1>3. ASSUME NEW w \in Worker, TaskNext(w) \/ TaskDies(w)
      PROVE  IInv'
  BY <1>1, <1>3, GetDeliveryIInv, SaveInactiveIInv, SaveProcessingIInv, PostIInv,
     SaveOutcomeIInv, ScheduleRetryIInv, TaskDiesIInv DEF TaskNext
<1>4. ASSUME NEW w \in Worker, NEW d \in Delivery, Receive(w, d)
      PROVE  IInv'
  BY <1>1, <1>4, ReceiveIInv
<1>5. ASSUME NEW e \in Endpoint, EndpointUpdate(e) \/ EndpointDelete(e)
      PROVE  IInv'
  BY <1>1, <1>5, OwnerIInv
<1>6. ASSUME NEW d \in Delivery, DeliveryDelete(d) \/ Redeliver(d)
      PROVE  IInv'
  BY <1>1, <1>6, OwnerIInv DEF Redeliver, IInv
<1>7. CASE UNCHANGED vars
  <2>1. \A w \in Worker : TaskInv(w)'
    BY <1>7, TaskFrame DEF IInv, vars
  <2>2. ASSUME NEW d \in Delivery
        PROVE  TokenInv(d)' /\ RowInv(d)'
    <3>1. \A u \in Worker : HeldBy(u, d)' <=> HeldBy(u, d)
      BY <1>7 DEF HeldBy, vars
    <3>2. QED
      BY <1>7, <3>1, DeliveryFrame DEF IInv, vars
  <2>3. QED
    BY <1>1, <1>7, <2>1, <2>2 DEF IInv, vars
<1>8. QED
  BY <1>2, <1>3, <1>4, <1>5, <1>6, <1>7 DEF Next

-----------------------------------------------------------------------------
(* The theorems, for a broker that hands out each message once.            *)

\* In every reachable state the tasks, the tokens and the rows are as TaskInv,
\* TokenInv and RowInv say.
THEOREM Inductive ==
    ASSUME MaxRedeliveries = 0
    PROVE  Spec => []IInv
  BY InitIInv, NextIInv, PTL DEF Spec

\* At most one message or task exists for a delivery and none once it is
\* settled: webhook_delivery_send needs no lock on the row.
THEOREM SingleTokenHolds ==
    ASSUME MaxRedeliveries = 0
    PROVE  Spec => []SingleToken
<1>1. IInv => SingleToken
  BY DEF IInv, SingleToken, TokenInv, RowInv, TypeOK
<1>2. QED
  BY <1>1, Inductive, PTL

\* No endpoint gets more than WEBHOOK_MAX_DELIVERY_ATTEMPTS requests for an
\* event, whatever crashes, toggles and deletions happen in between.
THEOREM AttemptsBoundedHolds ==
    ASSUME MaxRedeliveries = 0
    PROVE  Spec => []AttemptsBounded
<1>1. IInv => AttemptsBounded
  BY DEF IInv, AttemptsBounded, RowInv
<1>2. QED
  BY <1>1, Inductive, PTL

\* delivered_at and the status agree across the three partial saves.
THEOREM DeliveredIffSucceededHolds ==
    ASSUME MaxRedeliveries = 0
    PROVE  Spec => []DeliveredIffSucceeded
<1>1. IInv => DeliveredIffSucceeded
  BY DEF IInv, DeliveredIffSucceeded, RowInv
<1>2. QED
  BY <1>1, Inductive, PTL

\* An unfinished delivery has a message, a task or a place in a dispatch
\* list, unless a fault destroyed it, and then the table shows it unfinished.
THEOREM NothingForgottenHolds ==
    ASSUME MaxRedeliveries = 0
    PROVE  Spec => []NothingForgotten
<1>1. IInv => NothingForgotten
  BY DEF IInv, NothingForgotten, RowInv, TypeOK
<1>2. QED
  BY <1>1, Inductive, PTL

\* A row nobody holds and no dispatch is about to insert can only go away.
LEMMA IdleRowStep ==
    ASSUME IInv, [Next]_vars, NEW d \in Delivery,
           Exists(d), \A w \in Worker : ~HeldBy(w, d)
    PROVE  rows'[d] \in {rows[d], AbsentRow} /\ posts'[d] = posts[d]
<1>1. d[1] \in Event /\ dispatch[d[1]] # "listed"
  BY DEF IInv, TokenInv, Delivery
<1>2. ASSUME NEW v \in Event, DispatchNext(v) \/ DispatchFails(v)
      PROVE  rows'[d] = rows[d] /\ posts'[d] = posts[d]
  BY <1>1, <1>2 DEF DispatchNext, DispatchFails, ListEndpoints, CreateDeliveries, Publish
<1>3. ASSUME NEW w \in Worker, TaskNext(w) \/ TaskDies(w)
      PROVE  rows'[d] = rows[d] /\ posts'[d] = posts[d]
  <2>1. pc[w] # "idle"
    BY <1>3 DEF TaskNext, TaskDies, GetDelivery, SaveInactive, SaveProcessing, Post,
                SaveOutcome, ScheduleRetry
  <2>2. task[w] \in Delivery /\ task[w] # d
    BY <2>1 DEF IInv, TypeOK, HeldBy
  <2>3. QED
    BY <1>3, <2>2 DEF TaskNext, TaskDies, GetDelivery, SaveInactive, SaveProcessing, Post,
                      SaveOutcome, ScheduleRetry, IInv, TypeOK
<1>4. ASSUME NEW w \in Worker, NEW e \in Delivery, Receive(w, e)
      PROVE  rows'[d] = rows[d] /\ posts'[d] = posts[d]
  BY <1>4 DEF Receive
<1>5. ASSUME NEW e \in Endpoint, EndpointUpdate(e) \/ EndpointDelete(e)
      PROVE  rows'[d] \in {rows[d], AbsentRow} /\ posts'[d] = posts[d]
  BY <1>5 DEF EndpointUpdate, EndpointDelete
<1>6. ASSUME NEW e \in Delivery, DeliveryDelete(e) \/ Redeliver(e)
      PROVE  rows'[d] \in {rows[d], AbsentRow} /\ posts'[d] = posts[d]
  BY <1>6 DEF DeliveryDelete, Redeliver, IInv, TypeOK
<1>7. CASE UNCHANGED vars
  BY <1>7 DEF vars
<1>8. QED
  BY <1>2, <1>3, <1>4, <1>5, <1>6, <1>7 DEF Next

\* No late task, retry or save revives a settled delivery or sends it again.
THEOREM SettledIsFinalHolds ==
    ASSUME MaxRedeliveries = 0
    PROVE  Spec => SettledIsFinal
<1> DEFINE Frozen == \A d \in Delivery : Exists(d) /\ Settled(d) =>
                        /\ rows'[d] \in {rows[d], AbsentRow}
                        /\ posts'[d] = posts[d]
<1>1. IInv /\ [Next]_vars => [Frozen]_vars
  BY IdleRowStep DEF IInv, RowInv
<1>2. QED
  BY <1>1, Inductive, PTL DEF Spec, SettledIsFinal

-----------------------------------------------------------------------------
(* A row that promises something has somebody who will do it, also when      *)
(* messages are handed out twice.                                            *)

\* What the object of a task holds at each of its saves, whoever else writes
\* the row meanwhile.
ObjectInv(w) ==
    /\ pc[w] = "deactivated" => copy[w].status = "failed" /\ ~copy[w].next_attempt_at
    /\ pc[w] = "claim" => copy[w].status = "processing"
    /\ pc[w] = "save" => copy[w].status \in {"succeeded", "failed"}

Looking == {"get", "deactivated", "claim", "schedule"}

\* NeverStranded, of one delivery.
Unstranded(d) ==
    d \notin lost =>
        /\ rows[d].status = "processing" => Busy(d, {"post", "save"})
        /\ Due(d) => queue[d] > 0 \/ Unpublished(d) \/ Busy(d, Looking)

PromiseInv ==
    /\ TypeOK
    /\ \A w \in Worker : ObjectInv(w)
    /\ \A d \in Delivery : Unstranded(d)

\* A promise is kept as long as the row and those who will act stay.
LEMMA PromiseFrame ==
    ASSUME NEW d \in Delivery, Unstranded(d),
           rows'[d] = rows[d], queue[d] > 0 => queue'[d] > 0,
           d \in lost => d \in lost', Unpublished(d) => Unpublished(d)',
           \A u \in Worker : task[u] = d /\ pc[u] # "idle" =>
                                task'[u] = d /\ pc'[u] = pc[u]
    PROVE  Unstranded(d)'
<1>1. ASSUME NEW steps, "idle" \notin steps, Busy(d, steps)
      PROVE  \E u \in Worker : task'[u] = d /\ pc'[u] \in steps
  BY <1>1 DEF Busy
<1>2. Busy(d, {"post", "save"}) => Busy(d, {"post", "save"})'
  BY <1>1 DEF Busy
<1>3. Busy(d, Looking) => Busy(d, Looking)'
  BY <1>1 DEF Busy, Looking
<1>4. QED
  BY <1>2, <1>3 DEF Unstranded, Due

\* A row that is settled or gone promises nothing.
LEMMA NoPromise ==
    ASSUME NEW d \in Delivery,
           \/ rows'[d].status \in {"absent", "succeeded"}
           \/ rows'[d].status = "failed" /\ ~rows'[d].next_attempt_at
    PROVE  Unstranded(d)'
  BY DEF Unstranded, Due

\* A step of a task leaves the promises of the other deliveries to others, and
\* what the other tasks know.
LEMMA PromiseOwn ==
    ASSUME PromiseInv, TypeOK', NEW w \in Worker, pc[w] # "idle", OnlyOwn(w),
           NEW d \in Delivery, d = task[w], ObjectInv(w)', Unstranded(d)'
    PROVE  PromiseInv'
<1>1. ASSUME NEW e \in Delivery, e # d
      PROVE  Unstranded(e)'
  <2>1. /\ Unstranded(e) /\ rows'[e] = rows[e] /\ queue'[e] = queue[e]
        /\ e \in lost' <=> e \in lost
        /\ Unpublished(e) => Unpublished(e)'
    BY <1>1 DEF PromiseInv, OnlyOwn, Unpublished
  <2>2. \A u \in Worker : task[u] = e => task'[u] = e /\ pc'[u] = pc[u]
    BY <1>1 DEF OnlyOwn
  <2>3. QED
    BY <2>1, <2>2, PromiseFrame
<1>2. ASSUME NEW u \in Worker, u # w
      PROVE  ObjectInv(u)'
  BY <1>2 DEF PromiseInv, OnlyOwn, ObjectInv
<1>3. QED
  BY <1>1, <1>2 DEF PromiseInv

LEMMA TaskKeepsPromises ==
    ASSUME PromiseInv, TypeOK', NEW w \in Worker, TaskNext(w) \/ TaskDies(w)
    PROVE  PromiseInv'
<1>1. pc[w] # "idle"
  BY DEF TaskNext, TaskDies, GetDelivery, SaveInactive, SaveProcessing, Post,
         SaveOutcome, ScheduleRetry
<1> PICK d \in Delivery : d = task[w]
  BY <1>1 DEF PromiseInv, TypeOK
<1>2. /\ rows[d] \in Row /\ copy[w] \in Row /\ queue[d] \in Nat
      /\ Unstranded(d) /\ ObjectInv(w)
  BY DEF PromiseInv, TypeOK
<1>3. OnlyOwn(w)
  BY <1>1 DEF TaskNext, TaskDies, GetDelivery, SaveInactive, SaveProcessing, Post,
              SaveOutcome, ScheduleRetry, EndTask, OnlyOwn, PromiseInv, TypeOK, dispatchVars
<1>4. pc'[w] = "idle" => ObjectInv(w)'
  BY DEF ObjectInv
\* Whoever else works on the delivery still does.
<1>5. ASSUME NEW steps, pc[w] \notin steps, Busy(d, steps)
      PROVE  \E u \in Worker : task'[u] = d /\ pc'[u] \in steps
  BY <1>3, <1>5 DEF Busy, OnlyOwn
<1>6. CASE GetDelivery(w)
  <2>1. /\ pc[w] = "get" /\ rows' = rows /\ queue' = queue /\ lost' = lost
        /\ UNCHANGED <<dispatch, todo>>
    BY <1>6 DEF GetDelivery, dispatchVars
  <2>2. CASE NothingToSend(d)
    <3>1. rows'[d].status \in {"absent", "succeeded"}
      BY <2>1, <2>2 DEF NothingToSend, Exists
    <3>2. pc'[w] = "idle"
      BY <1>6, <2>2 DEF GetDelivery, EndTask, PromiseInv, TypeOK
    <3>3. QED
      BY <1>1, <1>3, <1>4, <3>1, <3>2, NoPromise, PromiseOwn
  <2>3. CASE ~NothingToSend(d)
    <3>1. /\ task'[w] = d
          /\ \/ pc'[w] = "deactivated" /\ copy'[w] = GivenUp(rows[d])
             \/ pc'[w] = "claim" /\ copy'[w] = Claimed(rows[d])
      BY <1>6, <2>3 DEF GetDelivery, PromiseInv, TypeOK
    <3>2. ObjectInv(w)'
      BY <1>2, <3>1, ObjectColumns DEF ObjectInv
    <3>3. Busy(d, Looking)'
      BY <3>1 DEF Busy, Looking
    <3>4. Busy(d, {"post", "save"}) => Busy(d, {"post", "save"})'
      BY <1>5, <2>1 DEF Busy
    <3>5. Unstranded(d)'
      BY <1>2, <2>1, <3>3, <3>4 DEF Unstranded
    <3>6. QED
      BY <1>1, <1>3, <3>2, <3>5, PromiseOwn
  <2>4. QED
    BY <2>2, <2>3
<1>7. CASE SaveInactive(w)
  <2>1. /\ pc[w] = "deactivated" /\ pc'[w] = "idle"
        /\ rows'[d] = IF Exists(d) THEN StatusSaved(rows[d], copy[w]) ELSE rows[d]
    BY <1>7 DEF SaveInactive, EndTask, PromiseInv, TypeOK
  <2>2. \/ rows'[d].status = "absent"
        \/ rows'[d].status = "failed" /\ ~rows'[d].next_attempt_at
    BY <1>2, <2>1, SaveColumns DEF ObjectInv, Exists
  <2>3. QED
    BY <1>1, <1>3, <1>4, <2>1, <2>2, NoPromise, PromiseOwn
<1>8. CASE SaveProcessing(w)
  <2>1. CASE Exists(d)
    <3>1. /\ pc[w] = "claim" /\ pc'[w] = "post" /\ task'[w] = d
          /\ rows'[d] = AttemptSaved(rows[d], copy[w])
      BY <1>8, <2>1 DEF SaveProcessing, PromiseInv, TypeOK
    <3>2. rows'[d].status = "processing"
      BY <1>2, <3>1, SaveColumns DEF ObjectInv
    <3>3. ObjectInv(w)' /\ Unstranded(d)'
      BY <3>1, <3>2 DEF ObjectInv, Unstranded, Busy, Due
    <3>4. QED
      BY <1>1, <1>3, <3>3, PromiseOwn
  <2>2. CASE ~Exists(d)
    <3>1. pc'[w] = "idle" /\ rows'[d].status = "absent"
      BY <1>8, <2>2 DEF SaveProcessing, EndTask, Exists, PromiseInv, TypeOK
    <3>2. QED
      BY <1>1, <1>3, <1>4, <3>1, NoPromise, PromiseOwn
  <2>3. QED
    BY <2>1, <2>2
<1>9. ASSUME NEW response \in Outcome, Post(w, response)
      PROVE  PromiseInv'
  <2>1. /\ pc[w] = "post" /\ pc'[w] = "save" /\ task'[w] = d
        /\ copy'[w] = AfterResponse(copy[w], response)
        /\ UNCHANGED <<rows, queue, lost, dispatch, todo>>
    BY <1>9 DEF Post, dispatchVars, PromiseInv, TypeOK
  <2>2. ObjectInv(w)'
    BY <1>2, <2>1 DEF ObjectInv, AfterResponse, Row
  <2>3. Busy(d, {"post", "save"})'
    BY <2>1 DEF Busy
  <2>4. Busy(d, Looking) => Busy(d, Looking)'
    BY <1>5, <2>1 DEF Busy, Looking
  <2>5. Unstranded(d)'
    BY <1>2, <2>1, <2>3, <2>4 DEF Unstranded, Due, Unpublished
  <2>6. QED
    BY <1>1, <1>3, <2>2, <2>5, PromiseOwn
<1>10. CASE SaveOutcome(w)
  <2>1. pc[w] = "save" /\ copy[w].status \in {"succeeded", "failed"}
    BY <1>2, <1>10 DEF SaveOutcome, ObjectInv
  <2>2. CASE Exists(d) /\ copy[w].status = "failed" /\ copy[w].next_attempt_at
    <3>1. /\ pc'[w] = "schedule" /\ task'[w] = d
          /\ rows'[d].status = "failed"
      BY <1>2, <1>10, <2>2, SaveColumns DEF SaveOutcome, PromiseInv, TypeOK
    <3>2. ObjectInv(w)' /\ Unstranded(d)'
      BY <3>1 DEF ObjectInv, Unstranded, Busy, Looking
    <3>3. QED
      BY <1>1, <1>3, <3>2, PromiseOwn
  <2>3. CASE ~(Exists(d) /\ copy[w].status = "failed" /\ copy[w].next_attempt_at)
    <3>1. /\ pc'[w] = "idle"
          /\ rows'[d] = IF Exists(d) THEN OutcomeSaved(rows[d], copy[w]) ELSE rows[d]
      BY <1>10, <2>3 DEF SaveOutcome, EndTask, PromiseInv, TypeOK
    <3>2. \/ rows'[d].status \in {"absent", "succeeded"}
          \/ rows'[d].status = "failed" /\ ~rows'[d].next_attempt_at
      BY <1>2, <2>1, <2>3, <3>1, SaveColumns DEF Exists
    <3>3. QED
      BY <1>1, <1>3, <1>4, <3>1, <3>2, NoPromise, PromiseOwn
  <2>4. QED
    BY <2>2, <2>3
<1>11. CASE ScheduleRetry(w)
  <2>1. /\ pc[w] = "schedule" /\ pc'[w] = "idle" /\ queue'[d] > 0
        /\ UNCHANGED <<rows, lost>>
    BY <1>2, <1>11 DEF ScheduleRetry, EndTask, PromiseInv, TypeOK
  <2>2. Busy(d, {"post", "save"}) => Busy(d, {"post", "save"})'
    BY <1>5, <2>1 DEF Busy
  <2>3. Unstranded(d)'
    BY <1>2, <2>1, <2>2 DEF Unstranded
  <2>4. QED
    BY <1>1, <1>3, <1>4, <2>1, <2>3, PromiseOwn
<1>12. CASE TaskDies(w)
  <2>1. d \in lost' /\ pc'[w] = "idle"
    BY <1>12 DEF TaskDies, EndTask, PromiseInv, TypeOK
  <2>2. Unstranded(d)'
    BY <2>1 DEF Unstranded
  <2>3. QED
    BY <1>1, <1>3, <1>4, <2>1, <2>2, PromiseOwn
<1>13. QED
  BY <1>6, <1>7, <1>8, <1>9, <1>10, <1>11, <1>12 DEF TaskNext

\* A message becomes a task that will look at the row.
LEMMA ReceiveKeepsPromises ==
    ASSUME PromiseInv, TypeOK', NEW w \in Worker, NEW d \in Delivery, Receive(w, d)
    PROVE  PromiseInv'
<1>1. /\ pc[w] = "idle" /\ pc'[w] = "get" /\ task'[w] = d
      /\ UNCHANGED <<rows, lost, dispatch, todo>>
      /\ \A u \in Worker : u # w => /\ pc'[u] = pc[u]
                                    /\ task'[u] = task[u]
                                    /\ copy'[u] = copy[u]
      /\ \A e \in Delivery : e # d => queue'[e] = queue[e]
  BY DEF Receive, PromiseInv, TypeOK, dispatchVars
<1>2. \A u \in Worker : ObjectInv(u)'
  BY <1>1 DEF ObjectInv, PromiseInv
<1>3. Busy(d, {"post", "save"}) => Busy(d, {"post", "save"})'
  BY <1>1 DEF Busy
<1>4. Unstranded(d)'
  BY <1>1, <1>3 DEF Unstranded, PromiseInv, Busy, Looking
<1>5. ASSUME NEW e \in Delivery, e # d
      PROVE  Unstranded(e)'
  <2>1. \A u \in Worker : task[u] = e /\ pc[u] # "idle" => task'[u] = e /\ pc'[u] = pc[u]
    BY <1>1
  <2>2. QED
    BY <1>1, <1>5, <2>1, PromiseFrame DEF PromiseInv, Unpublished
<1>6. QED
  BY <1>2, <1>4, <1>5 DEF PromiseInv

LEMMA DispatchKeepsPromises ==
    ASSUME PromiseInv, TypeOK', NEW v \in Event, DispatchNext(v) \/ DispatchFails(v)
    PROVE  PromiseInv'
<1>1. UNCHANGED <<pc, task, copy>>
  BY DEF DispatchNext, ListEndpoints, CreateDeliveries, Publish, DispatchFails, workerVars
<1>2. \A u \in Worker : ObjectInv(u)'
  BY <1>1 DEF ObjectInv, PromiseInv
<1>3. ASSUME NEW d \in Delivery
      PROVE  Unstranded(d)'
  <2>1. /\ d[1] \in Event /\ d[2] \in Endpoint /\ d = <<d[1], d[2]>>
        /\ queue[d] \in Nat /\ Unstranded(d)
    BY DEF Delivery, PromiseInv, TypeOK
  <2>2. CASE ListEndpoints(v)
    <3>1. UNCHANGED <<rows, queue, lost>> /\ (Unpublished(d) => Unpublished(d)')
      BY <2>1, <2>2 DEF ListEndpoints, Unpublished, PromiseInv, TypeOK
    <3>2. QED
      BY <1>1, <2>1, <3>1, PromiseFrame
  <2>3. CASE CreateDeliveries(v)
    <3>1. CASE rows'[d] = rows[d]
      <4>1. UNCHANGED <<queue, lost>> /\ (Unpublished(d) => Unpublished(d)')
        BY <2>1, <2>3 DEF CreateDeliveries, Unpublished, PromiseInv, TypeOK
      <4>2. QED
        BY <1>1, <2>1, <3>1, <4>1, PromiseFrame
    <3>2. CASE rows'[d] # rows[d]
      <4>1. Unpublished(d)' /\ rows'[d] = NewRow
        BY <2>1, <2>3, <3>2 DEF CreateDeliveries, Unpublished, PromiseInv, TypeOK
      <4>2. QED
        BY <4>1 DEF Unstranded, NewRow, AbsentRow
    <3>3. QED
      BY <3>1, <3>2
  <2>4. ASSUME NEW e \in Endpoint, Publish(v, e)
        PROVE  Unstranded(d)'
    <3>1. UNCHANGED <<rows, lost>>
      BY <2>4 DEF Publish
    <3>2. CASE d = <<v, e>>
      <4>1. queue'[d] > 0
        BY <2>1, <2>4, <3>2 DEF Publish, PromiseInv, TypeOK
      <4>2. Busy(d, {"post", "save"}) => Busy(d, {"post", "save"})'
        BY <1>1 DEF Busy
      <4>3. QED
        BY <2>1, <3>1, <4>1, <4>2 DEF Unstranded
    <3>3. CASE d # <<v, e>>
      <4>1. queue'[d] = queue[d]
        BY <2>1, <2>4, <3>3 DEF Publish, PromiseInv, TypeOK
      <4>2. Unpublished(d) => Unpublished(d)'
        <5>1. CASE d[1] = v
          <6>1. d[2] # e
            BY <2>1, <3>3, <5>1
          <6>2. QED
            BY <2>4, <5>1, <6>1 DEF Publish, Unpublished, PromiseInv, TypeOK
        <5>2. CASE d[1] # v
          BY <2>1, <2>4, <5>2 DEF Publish, Unpublished, PromiseInv, TypeOK
        <5>3. QED
          BY <5>1, <5>2
      <4>3. QED
        BY <1>1, <2>1, <3>1, <4>1, <4>2, PromiseFrame
    <3>4. QED
      BY <3>2, <3>3
  <2>5. CASE DispatchFails(v)
    <3>1. /\ UNCHANGED <<rows, queue>>
          /\ d \in lost => d \in lost'
          /\ Unpublished(d) => Unpublished(d)' \/ d \in lost'
      BY <2>1, <2>5 DEF DispatchFails, Unpublished, PromiseInv, TypeOK
    <3>2. CASE d \in lost'
      BY <3>2 DEF Unstranded
    <3>3. CASE d \notin lost'
      BY <1>1, <2>1, <3>1, <3>3, PromiseFrame
    <3>4. QED
      BY <3>2, <3>3
  <2>6. QED
    BY <2>2, <2>3, <2>4, <2>5 DEF DispatchNext
<1>4. QED
  BY <1>2, <1>3 DEF PromiseInv

\* Deleted rows promise nothing, and a repeated message takes nothing away.
LEMMA OwnerKeepsPromises ==
    ASSUME PromiseInv, TypeOK',
           \/ \E e \in Endpoint : EndpointUpdate(e) \/ EndpointDelete(e)
           \/ \E e \in Delivery : DeliveryDelete(e) \/ Redeliver(e)
    PROVE  PromiseInv'
<1>1. /\ UNCHANGED <<pc, task, copy, lost, dispatch, todo>>
      /\ \A d \in Delivery : rows'[d] \in {rows[d], AbsentRow} /\ queue'[d] >= queue[d]
      /\ \A d \in Delivery : queue[d] \in Nat /\ queue'[d] \in Nat
  BY DEF EndpointUpdate, EndpointDelete, DeliveryDelete, Redeliver, PromiseInv, TypeOK,
         workerVars, dispatchVars
<1>2. ASSUME NEW d \in Delivery
      PROVE  Unstranded(d)'
  <2>1. CASE rows'[d] = AbsentRow
    BY <2>1, NoPromise DEF AbsentRow
  <2>2. CASE rows'[d] = rows[d]
    BY <1>1, <2>2, PromiseFrame DEF PromiseInv, Unpublished
  <2>3. QED
    BY <1>1, <2>1, <2>2
<1>3. \A u \in Worker : ObjectInv(u)'
  BY <1>1 DEF ObjectInv, PromiseInv
<1>4. QED
  BY <1>2, <1>3 DEF PromiseInv

LEMMA NextKeepsPromises ==
    ASSUME PromiseInv, [Next]_vars
    PROVE  PromiseInv'
<1>1. TypeOK'
  BY NextType DEF PromiseInv
<1>2. CASE UNCHANGED vars
  BY <1>1, <1>2, PromiseFrame DEF PromiseInv, ObjectInv, Unpublished, vars
<1>3. QED
  BY <1>1, <1>2, TaskKeepsPromises, ReceiveKeepsPromises, DispatchKeepsPromises,
     OwnerKeepsPromises DEF Next

LEMMA InitPromises ==
    ASSUME Init
    PROVE  PromiseInv
  BY InitType DEF Init, PromiseInv, ObjectInv, Unstranded, Due, AbsentRow

\* However often messages are handed out and tasks overlap, PROCESSING has a task
\* that will save an outcome, and a pending row or a next attempt a message or a
\* task that will look at it, unless a fault destroyed one.
THEOREM NeverStrandedHolds == Spec => []NeverStranded
<1>1. PromiseInv => NeverStranded
  BY DEF PromiseInv, Unstranded, NeverStranded, Looking
<1>2. QED
  BY <1>1, InitPromises, NextKeepsPromises, PTL DEF Spec
=============================================================================
