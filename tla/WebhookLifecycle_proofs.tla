----------------------- MODULE WebhookLifecycle_proofs -----------------------
(***************************************************************************)
(* Proof that the webhook pipeline implements DeliveryLifecycle while the  *)
(* broker hands out each message once (MaxRedeliveries = 0), for every     *)
(* set of events, endpoints and workers and every combination of faults.   *)
(***************************************************************************)
EXTENDS WebhookDelivery_proofs

\* Deleting an endpoint takes its deliveries along, and none can be inserted
\* for it later: the foreign key of the insert fails.
Cascaded == \A d \in Delivery : endpoint[d[2]] = "deleted" => ~Exists(d)

\* A task that is about to record an outcome has sent a request.
Requested == \A w \in Worker : pc[w] = "save" => posts[task[w]] > 0

LInv == IInv /\ Cascaded /\ Requested

-----------------------------------------------------------------------------
(* LInv is inductive.                                                      *)

\* The tasks of the workers bring no row back to life.
LEMMA TaskRows ==
    ASSUME IInv, NEW w \in Worker, TaskNext(w) \/ TaskDies(w)
    PROVE  /\ UNCHANGED <<endpoint, dispatch, todo>>
           /\ \A d \in Delivery : ~Exists(d) => rows'[d] = rows[d]
<1>1. UNCHANGED <<endpoint, dispatch, todo>>
  BY DEF TaskNext, TaskDies, GetDelivery, SaveInactive, SaveProcessing, Post, SaveOutcome,
         ScheduleRetry, dispatchVars
<1>2. \/ rows' = rows
      \/ /\ Exists(task[w])
         /\ \E row : rows' = [rows EXCEPT ![task[w]] = row]
  <2>1. CASE \/ GetDelivery(w) \/ ScheduleRetry(w) \/ TaskDies(w)
             \/ \E response \in Outcome : Post(w, response)
    BY <2>1 DEF TaskDies, GetDelivery, Post, ScheduleRetry
  <2>2. CASE SaveInactive(w) \/ SaveProcessing(w) \/ SaveOutcome(w)
    BY <2>2 DEF SaveInactive, SaveProcessing, SaveOutcome
  <2>3. QED
    BY <2>1, <2>2 DEF TaskNext
<1>3. \A d \in Delivery : ~Exists(d) => rows'[d] = rows[d]
  BY <1>2 DEF IInv, TypeOK, Exists
<1>4. QED
  BY <1>1, <1>3

LEMMA CascadedStep ==
    ASSUME LInv, [Next]_vars
    PROVE  Cascaded'
<1> SUFFICES ASSUME NEW d \in Delivery, endpoint'[d[2]] = "deleted"
             PROVE  rows'[d].status = "absent"
  BY DEF Cascaded, Exists
<1>1. /\ d[1] \in Event /\ d[2] \in Endpoint
      /\ endpoint[d[2]] = "deleted" => rows[d].status = "absent"
  BY DEF LInv, Cascaded, Exists, Delivery
<1> USE DEF dispatchVars, workerVars
<1>2. ASSUME NEW v \in Event, DispatchNext(v) \/ DispatchFails(v)
      PROVE  rows'[d].status = "absent"
  <2>1. endpoint' = endpoint
    BY <1>2 DEF DispatchNext, DispatchFails, ListEndpoints, CreateDeliveries, Publish
  <2>2. rows'[d] = rows[d]
    BY <1>2, <2>1
       DEF DispatchNext, DispatchFails, ListEndpoints, CreateDeliveries, Publish
  <2>3. QED
    BY <1>1, <2>1, <2>2
<1>3. ASSUME NEW w \in Worker, TaskNext(w) \/ TaskDies(w)
      PROVE  rows'[d].status = "absent"
  BY <1>1, <1>3, TaskRows DEF LInv, Exists
<1>4. ASSUME NEW w \in Worker, NEW e \in Delivery, Receive(w, e)
      PROVE  rows'[d].status = "absent"
  BY <1>1, <1>4 DEF Receive
<1>5. ASSUME NEW e \in Endpoint, EndpointUpdate(e)
      PROVE  rows'[d].status = "absent"
  <2>1. endpoint[d[2]] = "deleted" /\ rows' = rows
    BY <1>1, <1>5 DEF EndpointUpdate, LiveEndpoint, LInv, IInv, TypeOK
  <2>2. QED
    BY <1>1, <2>1
<1>6. ASSUME NEW e \in Endpoint, EndpointDelete(e)
      PROVE  rows'[d].status = "absent"
  <2>1. CASE d[2] = e
    BY <1>6, <2>1 DEF EndpointDelete, AbsentRow
  <2>2. CASE d[2] # e
    BY <1>1, <1>6, <2>2 DEF EndpointDelete, LInv, IInv, TypeOK
  <2>3. QED
    BY <2>1, <2>2
<1>7. ASSUME NEW e \in Delivery, DeliveryDelete(e) \/ Redeliver(e)
      PROVE  rows'[d].status = "absent"
  BY <1>1, <1>7 DEF DeliveryDelete, Redeliver, AbsentRow, LInv, IInv, TypeOK
<1>8. CASE UNCHANGED vars
  BY <1>1, <1>8 DEF vars
<1>9. QED
  BY <1>2, <1>3, <1>4, <1>5, <1>6, <1>7, <1>8 DEF Next

\* The only task that enters the last save is the one that sent a request.
LEMMA RequestedStep ==
    ASSUME LInv, [Next]_vars
    PROVE  Requested'
<1> SUFFICES ASSUME NEW u \in Worker, pc'[u] = "save"
             PROVE  posts'[task'[u]] > 0
  BY DEF Requested
<1> USE DEF dispatchVars, workerVars
<1>1. /\ pc \in [Worker -> TaskStep] /\ posts \in [Delivery -> Nat]
      /\ pc[u] = "save" => task[u] \in Delivery /\ posts[task[u]] > 0
  BY DEF LInv, IInv, TypeOK, Requested
<1>2. \/ \E w \in Worker, response \in Outcome : Post(w, response)
      \/ pc[u] = "save" /\ task'[u] = task[u] /\ posts' = posts
  <2> DEFINE Elsewhere == \/ \E v \in Event : DispatchNext(v) \/ DispatchFails(v)
                          \/ \E e \in Endpoint : EndpointUpdate(e) \/ EndpointDelete(e)
                          \/ \E d \in Delivery : DeliveryDelete(d) \/ Redeliver(d)
  <2>frame. CASE Elsewhere \/ vars' = vars
    <3>1. UNCHANGED workerVars /\ posts' = posts
      BY <2>frame DEF vars, DispatchNext, DispatchFails, ListEndpoints, CreateDeliveries, Publish,
                      EndpointUpdate, EndpointDelete, DeliveryDelete, Redeliver
    <3>2. QED
      BY <3>1
  <2>receive. CASE \E w \in Worker, d \in Delivery : Receive(w, d)
    BY <1>1, <2>receive DEF Receive, LInv, IInv, TypeOK
  <2>task. ASSUME NEW w \in Worker, TaskNext(w) \/ TaskDies(w),
                  ~\E response \in Outcome : Post(w, response)
           PROVE  pc[u] = "save" /\ task'[u] = task[u] /\ posts' = posts
    <3>1. posts' = posts
      BY <2>task DEF TaskNext, TaskDies, GetDelivery, SaveInactive, SaveProcessing, SaveOutcome,
                     ScheduleRetry
    <3>2. pc'[w] # "save" /\ (u # w => pc'[u] = pc[u] /\ task'[u] = task[u])
      BY <1>1, <2>task
         DEF TaskNext, TaskDies, GetDelivery, SaveInactive, SaveProcessing, SaveOutcome,
             ScheduleRetry, EndTask, LInv, IInv, TypeOK
    <3>3. QED
      BY <3>1, <3>2
  <2> QED
    BY <2>frame, <2>receive, <2>task DEF Next, TaskNext
<1>3. ASSUME NEW w \in Worker, NEW response \in Outcome, Post(w, response)
      PROVE  posts'[task'[u]] > 0
  <2>1. task[w] \in Delivery /\ task' = task
    BY <1>3 DEF Post, LInv, IInv, TypeOK
  <2>2. posts' = [posts EXCEPT ![task[w]] = posts[task[w]] + 1]
    BY <1>3 DEF Post
  <2>3. CASE u = w
    BY <1>1, <2>1, <2>2, <2>3
  <2>4. CASE u # w
    <3>1. pc[u] = "save"
      BY <1>1, <1>3, <2>4 DEF Post
    <3>2. QED
      BY <1>1, <2>1, <2>2, <3>1
  <2>5. QED
    BY <2>3, <2>4
<1>4. QED
  BY <1>1, <1>2, <1>3

LEMMA InitLInv == Init => LInv
  BY InitIInv DEF Init, LInv, Cascaded, Requested, Exists, AbsentRow

LEMMA LInvHolds ==
    ASSUME MaxRedeliveries = 0
    PROVE  Spec => []LInv
<1>1. LInv /\ [Next]_vars => LInv'
  BY CascadedStep, RequestedStep, NextIInv DEF LInv
<1>2. QED
  BY <1>1, InitLInv, PTL DEF Spec

-----------------------------------------------------------------------------
(* What a step of the pipeline is to the lifecycle.                        *)

\* The phase of a delivery depends on three things only.
LEMMA PhaseFrame ==
    ASSUME LInv, NEW d \in Delivery,
           endpoint'[d[2]] = "deleted" <=> endpoint[d[2]] = "deleted",
           rows'[d] = rows[d],
           dispatch'[d[1]] \in {"idle", "listed"} <=> dispatch[d[1]] \in {"idle", "listed"}
    PROVE  PhaseOf(d)' = PhaseOf(d)
<1>1. rows[d].status \in Status
  BY DEF LInv, IInv, TypeOK, Row
<1>2. CASE endpoint[d[2]] = "deleted"
  BY <1>2 DEF PhaseOf
<1>3. CASE endpoint[d[2]] # "deleted" /\ rows[d].status = "absent"
  BY <1>3 DEF PhaseOf
<1>4. CASE endpoint[d[2]] # "deleted" /\ rows[d].status = "failed"
  BY <1>4 DEF PhaseOf
<1>5. CASE endpoint[d[2]] # "deleted" /\ rows[d].status \in {"pending", "processing", "succeeded"}
  BY <1>5 DEF PhaseOf
<1>6. QED
  BY <1>1, <1>2, <1>3, <1>4, <1>5 DEF Status

\* Every row has a phase, and what it is.
LEMMA PhaseCases ==
    ASSUME LInv, NEW d \in Delivery
    PROVE  /\ ~Exists(d) => PhaseOf(d) =
                  IF endpoint[d[2]] # "deleted" /\ dispatch[d[1]] \in {"idle", "listed"}
                  THEN "none" ELSE "gone"
           /\ Exists(d) =>
                 /\ endpoint[d[2]] # "deleted"
                 /\ rows[d].status = "pending" => PhaseOf(d) = "pending"
                 /\ rows[d].status = "processing" => PhaseOf(d) = "attempting"
                 /\ rows[d].status = "succeeded" => PhaseOf(d) = "succeeded"
                 /\ rows[d].status = "failed" => PhaseOf(d) =
                       IF rows[d].next_attempt_at THEN "waiting" ELSE "failed"
           /\ Ready(d) => PhaseOf(d) \in {"pending", "waiting"}
<1>1. Exists(d) => endpoint[d[2]] # "deleted"
  BY DEF LInv, Cascaded
<1>2. ~Exists(d) => PhaseOf(d) =
         IF endpoint[d[2]] # "deleted" /\ dispatch[d[1]] \in {"idle", "listed"}
         THEN "none" ELSE "gone"
  BY DEF PhaseOf, Exists
<1>3. rows[d].status = "pending" => Exists(d) /\ PhaseOf(d) = "pending"
  BY <1>1 DEF PhaseOf, Exists
<1>4. rows[d].status = "processing" => Exists(d) /\ PhaseOf(d) = "attempting"
  BY <1>1 DEF PhaseOf, Exists
<1>5. rows[d].status = "succeeded" => Exists(d) /\ PhaseOf(d) = "succeeded"
  BY <1>1 DEF PhaseOf, Exists
<1>6. rows[d].status = "failed" => /\ Exists(d)
                                   /\ PhaseOf(d) = IF rows[d].next_attempt_at THEN "waiting" ELSE "failed"
  BY <1>1 DEF PhaseOf, Exists
<1>7. QED
  BY <1>1, <1>2, <1>3, <1>4, <1>5, <1>6 DEF Ready

\* A step that keeps every phase and sends nothing does not show.
LEMMA LifecycleStutter ==
    ASSUME \A d \in Delivery : PhaseOf(d)' = PhaseOf(d), posts' = posts
    PROVE  UNCHANGED <<[d \in Delivery |-> PhaseOf(d)], posts>>
  OBVIOUS

\* The fan-out of an event: rows for the listed endpoints, or for none.
LEMMA LifecycleCreate ==
    ASSUME NEW S \in SUBSET Delivery, NEW T \in SUBSET Delivery, posts' = posts,
           \A d \in S : PhaseOf(d) = "none" /\ PhaseOf(d)' = "pending",
           \A d \in T \ S : PhaseOf(d) \in {"none", "gone"} /\ PhaseOf(d)' = "gone",
           \A d \in Delivery \ (S \cup T) : PhaseOf(d)' = PhaseOf(d)
    PROVE  Lifecycle!Create(S, T)
  BY DEF Lifecycle!Create

\* No endpoint of the event gets a delivery: nothing listens, the insert fails,
\* or the process dies before it.
LEMMA CreateNone ==
    ASSUME LInv, LInv', NEW v \in Event,
           UNCHANGED <<endpoint, rows, posts>>,
           dispatch[v] \in {"idle", "listed"}, dispatch' = [dispatch EXCEPT ![v] = "done"]
    PROVE  Lifecycle!Next
<1> DEFINE T == {d \in Delivery : d[1] = v}
<1>1. dispatch'[v] = "done" /\ \A u \in Event \ {v} : dispatch'[u] = dispatch[u]
  BY DEF LInv, IInv, TypeOK
<1>2. ASSUME NEW d \in T
      PROVE  PhaseOf(d) \in {"none", "gone"} /\ PhaseOf(d)' = "gone"
  <2>1. ~Exists(d) /\ ~Exists(d)'
    BY DEF LInv, IInv, TokenInv, Exists
  <2>2. PhaseOf(d)' = IF endpoint'[d[2]] # "deleted" /\ dispatch'[d[1]] \in {"idle", "listed"}
                      THEN "none" ELSE "gone"
    BY <2>1 DEF PhaseOf, Exists
  <2>3. QED
    BY <1>1, <2>1, <2>2, PhaseCases
<1>3. ASSUME NEW d \in Delivery \ T
      PROVE  PhaseOf(d)' = PhaseOf(d)
  <2>1. d[1] \in Event \ {v}
    BY DEF Delivery
  <2>2. QED
    BY <1>1, <2>1, PhaseFrame
<1> HIDE DEF T
<1>4. T \in SUBSET Delivery
  BY DEF T
<1>5. Lifecycle!Create({}, T)
  BY <1>2, <1>3, <1>4, LifecycleCreate
<1>6. QED
  BY <1>4, <1>5 DEF Lifecycle!Next

LEMMA DispatchLifecycle ==
    ASSUME LInv, LInv', NEW v \in Event, DispatchNext(v) \/ DispatchFails(v)
    PROVE  Lifecycle!Next \/ UNCHANGED <<[d \in Delivery |-> PhaseOf(d)], posts>>
<1>0. /\ UNCHANGED <<endpoint, posts>>
      /\ dispatch \in [Event -> DispatchStep] /\ todo \in [Event -> SUBSET Endpoint]
  BY DEF DispatchNext, DispatchFails, ListEndpoints, CreateDeliveries, Publish, LInv, IInv, TypeOK
<1>1. ASSUME rows' = rows,
             \A u \in Event : dispatch'[u] \in {"idle", "listed"}
                                 <=> dispatch[u] \in {"idle", "listed"}
      PROVE  UNCHANGED <<[d \in Delivery |-> PhaseOf(d)], posts>>
  <2>1. \A d \in Delivery : d[1] \in Event
    BY DEF Delivery
  <2>2. \A d \in Delivery : PhaseOf(d)' = PhaseOf(d)
    BY <1>0, <1>1, <2>1, PhaseFrame
  <2>3. QED
    BY <1>0, <2>2, LifecycleStutter
<1>2. CASE ListEndpoints(v)
  <2>1. /\ dispatch[v] = "idle" /\ rows' = rows
        /\ \/ dispatch' = [dispatch EXCEPT ![v] = "listed"]
           \/ dispatch' = [dispatch EXCEPT ![v] = "done"]
    BY <1>2 DEF ListEndpoints
  <2>2. CASE dispatch' = [dispatch EXCEPT ![v] = "listed"]
    BY <1>0, <1>1, <2>1, <2>2
  <2>3. CASE dispatch' = [dispatch EXCEPT ![v] = "done"]
    BY <1>0, <2>1, <2>3, CreateNone
  <2>4. QED
    BY <2>1, <2>2, <2>3
<1>3. CASE CreateDeliveries(v)
  <2>1. CASE \E e \in todo[v] : endpoint[e] = "deleted"
    BY <1>0, <1>3, <2>1, CreateNone DEF CreateDeliveries
  <2>2. CASE \A e \in todo[v] : endpoint[e] # "deleted"
    <3> DEFINE S == {d \in Delivery : d[1] = v /\ d[2] \in todo[v]}
               T == {d \in Delivery : d[1] = v}
    <3>1. /\ dispatch[v] = "listed" /\ dispatch'[v] = "publish"
          /\ \A u \in Event \ {v} : dispatch'[u] = dispatch[u]
          /\ rows' = [d \in Delivery |->
                         IF d[1] = v /\ d[2] \in todo[v] THEN NewRow ELSE rows[d]]
      BY <1>0, <1>3, <2>2 DEF CreateDeliveries
    <3>2. ASSUME NEW d \in T
          PROVE  ~Exists(d) /\ d[2] \in Endpoint
      BY <3>1 DEF LInv, IInv, TokenInv, Delivery
    <3>3. ASSUME NEW d \in S
          PROVE  PhaseOf(d) = "none" /\ PhaseOf(d)' = "pending"
      <4>1. PhaseOf(d) = "none"
        BY <2>2, <3>1, <3>2, PhaseCases
      <4>2. rows'[d].status = "pending" /\ endpoint'[d[2]] # "deleted"
        BY <1>0, <2>2, <3>1 DEF NewRow, AbsentRow
      <4>3. QED
        BY <4>1, <4>2 DEF PhaseOf
    <3>4. ASSUME NEW d \in T \ S
          PROVE  PhaseOf(d) \in {"none", "gone"} /\ PhaseOf(d)' = "gone"
      <4>1. PhaseOf(d) \in {"none", "gone"}
        BY <3>2, PhaseCases
      <4>2. rows'[d].status = "absent" /\ dispatch'[d[1]] = "publish"
        BY <3>1, <3>2 DEF Exists
      <4>3. QED
        BY <4>1, <4>2 DEF PhaseOf
    <3>5. ASSUME NEW d \in Delivery \ (S \cup T)
          PROVE  PhaseOf(d)' = PhaseOf(d)
      <4>1. d[1] \in Event \ {v} /\ rows'[d] = rows[d]
        BY <3>1 DEF Delivery
      <4>2. QED
        BY <1>0, <3>1, <4>1, PhaseFrame
    <3>6. S \in SUBSET Delivery /\ T \in SUBSET Delivery
      OBVIOUS
    <3> HIDE DEF S, T
    <3>7. Lifecycle!Create(S, T)
      BY <1>0, <3>3, <3>4, <3>5, <3>6, LifecycleCreate
    <3>8. QED
      BY <3>6, <3>7 DEF Lifecycle!Next
  <2>3. QED
    BY <2>1, <2>2
<1>4. ASSUME NEW e \in Endpoint, Publish(v, e)
      PROVE  UNCHANGED <<[d \in Delivery |-> PhaseOf(d)], posts>>
  BY <1>0, <1>1, <1>4 DEF Publish
<1>5. CASE DispatchFails(v)
  <2>1. CASE dispatch[v] = "listed"
    BY <1>0, <1>5, <2>1, CreateNone DEF DispatchFails
  <2>2. CASE dispatch[v] = "publish"
    BY <1>0, <1>1, <1>5, <2>2 DEF DispatchFails
  <2>3. QED
    BY <1>5, <2>1, <2>2 DEF DispatchFails
<1>6. QED
  BY <1>2, <1>3, <1>4, <1>5 DEF DispatchNext

\* A save of one row moves the phase of its delivery only.
LEMMA OnlyPhase ==
    ASSUME LInv, NEW d \in Delivery, NEW row, NEW phase,
           rows' = [rows EXCEPT ![d] = row], UNCHANGED <<endpoint, dispatch, posts>>,
           PhaseOf(d)' = phase
    PROVE  /\ [e \in Delivery |-> PhaseOf(e)]' = [[e \in Delivery |-> PhaseOf(e)] EXCEPT ![d] = phase]
           /\ posts' = posts
<1>1. \A e \in Delivery \ {d} : PhaseOf(e)' = PhaseOf(e)
  BY PhaseFrame DEF LInv, IInv, TypeOK
<1>2. QED
  BY <1>1

LEMMA InactiveLifecycle ==
    ASSUME LInv, LInv', NEW w \in Worker, SaveInactive(w), NEW d, d = task[w], Exists(d)
    PROVE  Lifecycle!GiveUp(d)
<1>1. /\ pc[w] = "deactivated" /\ UNCHANGED <<endpoint, dispatch, posts>>
      /\ rows' = [rows EXCEPT ![d] = StatusSaved(rows[d], copy[w])]
  BY DEF SaveInactive, dispatchVars
<1>2. /\ d \in Delivery /\ rows[d] \in Row /\ copy[w] \in Row /\ Ready(d)
      /\ copy[w].status = "failed" /\ copy[w].next_attempt_at = FALSE
  BY <1>1, InHand DEF LInv, TaskInv, Row
<1>3. rows'[d].status = "failed" /\ rows'[d].next_attempt_at = FALSE
  BY <1>1, <1>2, SaveColumns DEF LInv, IInv, TypeOK
<1>4. endpoint'[d[2]] # "deleted" /\ PhaseOf(d) \in {"pending", "waiting"}
  BY <1>1, <1>2, PhaseCases
<1>5. PhaseOf(d)' = "failed"
  BY <1>3, <1>4 DEF PhaseOf
<1>6. /\ [e \in Delivery |-> PhaseOf(e)]' = [[e \in Delivery |-> PhaseOf(e)] EXCEPT ![d] = "failed"]
      /\ posts' = posts
  BY <1>1, <1>2, <1>5, OnlyPhase
<1>7. QED
  BY <1>2, <1>4, <1>6 DEF Lifecycle!GiveUp

LEMMA ProcessingLifecycle ==
    ASSUME LInv, LInv', NEW w \in Worker, SaveProcessing(w), NEW d, d = task[w], Exists(d)
    PROVE  Lifecycle!Begin(d)
<1>1. /\ pc[w] = "claim" /\ UNCHANGED <<endpoint, dispatch, posts>>
      /\ rows' = [rows EXCEPT ![d] = AttemptSaved(rows[d], copy[w])]
  BY DEF SaveProcessing, dispatchVars
<1>2. /\ d \in Delivery /\ rows[d] \in Row /\ copy[w] \in Row /\ Ready(d) /\ RowInv(d)
      /\ copy[w].status = "processing"
  BY <1>1, InHand DEF LInv, TaskInv
<1>3. rows'[d].status = "processing"
  BY <1>1, <1>2, SaveColumns DEF LInv, IInv, TypeOK
<1>4. endpoint'[d[2]] # "deleted" /\ PhaseOf(d) \in {"pending", "waiting"}
  BY <1>1, <1>2, PhaseCases
<1>5. PhaseOf(d)' = "attempting"
  BY <1>3, <1>4 DEF PhaseOf
<1>6. /\ [e \in Delivery |-> PhaseOf(e)]' = [[e \in Delivery |-> PhaseOf(e)] EXCEPT ![d] = "attempting"]
      /\ posts' = posts
  BY <1>1, <1>2, <1>5, OnlyPhase
<1>7. posts[d] < MaxAttempts
  <2>1. posts[d] \in Nat /\ rows[d].attempt_count \in Nat
    BY <1>2 DEF LInv, IInv, TypeOK, Row
  <2>2. posts[d] <= rows[d].attempt_count /\ rows[d].attempt_count < MaxAttempts
    BY <1>2 DEF RowInv, Ready
  <2>3. QED
    BY <2>1, <2>2, AttemptsAssumption
<1>8. QED
  BY <1>2, <1>4, <1>6, <1>7 DEF Lifecycle!Begin

LEMMA PostLifecycle ==
    ASSUME LInv, LInv', NEW w \in Worker, NEW response \in Outcome, Post(w, response),
           NEW d, d = task[w]
    PROVE  Lifecycle!Request(d)
<1>1. /\ pc[w] = "post" /\ UNCHANGED <<endpoint, dispatch, rows>>
      /\ posts' = [posts EXCEPT ![d] = @ + 1]
  BY DEF Post, dispatchVars
<1>2. /\ d \in Delivery /\ posts[d] < copy[w].attempt_count
      /\ copy[w] \in Row /\ copy[w].attempt_count <= MaxAttempts
      /\ Exists(d) => rows[d].status = "processing"
      /\ dispatch[d[1]] \notin {"idle", "listed"}
  BY <1>1, InHand DEF LInv, TaskInv
<1>3. PhaseOf(d) \in {"attempting", "gone"}
  BY <1>2, PhaseCases
<1>4. posts[d] < MaxAttempts
  <2>1. posts[d] \in Nat /\ copy[w].attempt_count \in Nat
    BY <1>2 DEF LInv, IInv, TypeOK, Row
  <2>2. QED
    BY <1>2, <2>1, AttemptsAssumption
<1>5. \A e \in Delivery : PhaseOf(e)' = PhaseOf(e)
  BY <1>1, PhaseFrame
<1>6. QED
  BY <1>1, <1>2, <1>3, <1>4, <1>5 DEF Lifecycle!Request

LEMMA OutcomeLifecycle ==
    ASSUME LInv, LInv', NEW w \in Worker, SaveOutcome(w), NEW d, d = task[w], Exists(d)
    PROVE  Lifecycle!Finish(d)
<1>1. /\ pc[w] = "save" /\ UNCHANGED <<endpoint, dispatch, posts>>
      /\ rows' = [rows EXCEPT ![d] = OutcomeSaved(rows[d], copy[w])]
  BY DEF SaveOutcome, dispatchVars
<1>2. /\ d \in Delivery /\ rows[d] \in Row /\ copy[w] \in Row
      /\ rows[d].status = "processing"
      /\ copy[w].status \in {"succeeded", "failed"}
      /\ posts[d] <= copy[w].attempt_count
      /\ copy[w].next_attempt_at =>
            copy[w].status = "failed" /\ copy[w].attempt_count < MaxAttempts
  BY <1>1, InHand DEF LInv, TaskInv
<1>3. /\ rows'[d].status = copy[w].status
      /\ rows'[d].next_attempt_at = copy[w].next_attempt_at
  BY <1>1, <1>2, SaveColumns DEF LInv, IInv, TypeOK
<1>4. endpoint'[d[2]] # "deleted" /\ PhaseOf(d) = "attempting"
  BY <1>1, <1>2, PhaseCases
<1>5. PICK verdict \in {"succeeded", "failed", "waiting"} :
         /\ PhaseOf(d)' = verdict
         /\ verdict = "waiting" => copy[w].next_attempt_at
  <2>1. CASE copy[w].status = "succeeded"
    BY <1>3, <1>4, <2>1 DEF PhaseOf
  <2>2. CASE copy[w].status = "failed" /\ copy[w].next_attempt_at
    BY <1>3, <1>4, <2>2 DEF PhaseOf
  <2>3. CASE copy[w].status = "failed" /\ ~copy[w].next_attempt_at
    BY <1>3, <1>4, <2>3 DEF PhaseOf
  <2>4. QED
    BY <1>2, <2>1, <2>2, <2>3
<1>6. /\ [e \in Delivery |-> PhaseOf(e)]' = [[e \in Delivery |-> PhaseOf(e)] EXCEPT ![d] = verdict]
      /\ posts' = posts
  BY <1>1, <1>2, <1>5, OnlyPhase
<1>7. posts[d] > 0 /\ (verdict = "waiting" => posts[d] < MaxAttempts)
  <2>1. posts[d] \in Nat /\ copy[w].attempt_count \in Nat /\ posts[d] > 0
    BY <1>1, <1>2 DEF LInv, IInv, TypeOK, Row, Requested
  <2>2. QED
    BY <1>2, <1>5, <2>1, AttemptsAssumption
<1>8. QED
  BY <1>2, <1>4, <1>6, <1>7 DEF Lifecycle!Finish

\* A step of a task is an attempt's begin, request or end, or does not show: a
\* save of a row that is gone, and everything done in memory.
LEMMA TaskLifecycle ==
    ASSUME LInv, LInv', NEW w \in Worker, TaskNext(w) \/ TaskDies(w)
    PROVE  Lifecycle!Next \/ UNCHANGED <<[d \in Delivery |-> PhaseOf(d)], posts>>
<1>0. PICK d : d = task[w]
  OBVIOUS
<1>1. UNCHANGED <<endpoint, dispatch>>
  BY TaskRows DEF LInv
<1>2. pc[w] # "idle"
  BY DEF TaskNext, TaskDies, GetDelivery, SaveInactive, SaveProcessing, Post, SaveOutcome,
         ScheduleRetry
<1>3. d \in Delivery
  BY <1>0, <1>2 DEF LInv, IInv, TypeOK
<1>4. CASE rows' = rows /\ posts' = posts
  BY <1>1, <1>4, PhaseFrame, LifecycleStutter
<1>5. ASSUME NEW response \in Outcome, Post(w, response)
      PROVE  Lifecycle!Next
  BY <1>0, <1>3, <1>5, PostLifecycle DEF Lifecycle!Next
<1>6. CASE SaveInactive(w) /\ Exists(d)
  BY <1>0, <1>3, <1>6, InactiveLifecycle DEF Lifecycle!Next
<1>7. CASE SaveProcessing(w) /\ Exists(d)
  BY <1>0, <1>3, <1>7, ProcessingLifecycle DEF Lifecycle!Next
<1>8. CASE SaveOutcome(w) /\ Exists(d)
  BY <1>0, <1>3, <1>8, OutcomeLifecycle DEF Lifecycle!Next
<1>9. CASE (SaveInactive(w) \/ SaveProcessing(w) \/ SaveOutcome(w)) /\ ~Exists(d)
  BY <1>0, <1>4, <1>9 DEF SaveInactive, SaveProcessing, SaveOutcome
<1>10. CASE GetDelivery(w) \/ ScheduleRetry(w) \/ TaskDies(w)
  BY <1>4, <1>10 DEF GetDelivery, ScheduleRetry, TaskDies
<1>11. QED
  BY <1>5, <1>6, <1>7, <1>8, <1>9, <1>10 DEF TaskNext

\* Deletions of rows and endpoints; an edit of an endpoint does not show.
LEMMA OwnerLifecycle ==
    ASSUME LInv, LInv',
           \/ \E e \in Endpoint : EndpointUpdate(e) \/ EndpointDelete(e)
           \/ \E d \in Delivery : DeliveryDelete(d)
    PROVE  Lifecycle!Next \/ UNCHANGED <<[d \in Delivery |-> PhaseOf(d)], posts>>
<1>1. UNCHANGED <<dispatch, posts>>
  BY DEF EndpointUpdate, EndpointDelete, DeliveryDelete, dispatchVars
<1>2. \A d \in Delivery : d[2] \in Endpoint
  BY DEF Delivery
<1>3. ASSUME NEW S \in SUBSET Delivery, \A d \in S : PhaseOf(d)' = "gone",
             \A d \in Delivery \ S : PhaseOf(d)' = PhaseOf(d)
      PROVE  Lifecycle!Next
  <2>1. Lifecycle!Delete(S)
    BY <1>1, <1>3 DEF Lifecycle!Delete
  <2>2. QED
    BY <2>1 DEF Lifecycle!Next
<1>4. ASSUME NEW e \in Endpoint, EndpointUpdate(e)
      PROVE  UNCHANGED <<[d \in Delivery |-> PhaseOf(d)], posts>>
  <2>1. rows' = rows /\ \A f \in Endpoint : endpoint'[f] = "deleted" <=> endpoint[f] = "deleted"
    BY <1>4 DEF EndpointUpdate, LiveEndpoint, LInv, IInv, TypeOK
  <2>2. \A d \in Delivery : PhaseOf(d)' = PhaseOf(d)
    BY <1>1, <1>2, <2>1, PhaseFrame
  <2>3. QED
    BY <1>1, <2>2, LifecycleStutter
<1>5. ASSUME NEW e \in Endpoint, EndpointDelete(e)
      PROVE  Lifecycle!Next
  <2> DEFINE S == {d \in Delivery : d[2] = e}
  <2>1. /\ endpoint'[e] = "deleted" /\ \A f \in Endpoint \ {e} : endpoint'[f] = endpoint[f]
        /\ \A d \in Delivery \ S : rows'[d] = rows[d]
    BY <1>5 DEF EndpointDelete, LInv, IInv, TypeOK
  <2>2. \A d \in S : PhaseOf(d)' = "gone"
    BY <2>1 DEF PhaseOf
  <2>3. \A d \in Delivery \ S : PhaseOf(d)' = PhaseOf(d)
    BY <1>1, <1>2, <2>1, PhaseFrame
  <2>4. S \in SUBSET Delivery
    OBVIOUS
  <2> HIDE DEF S
  <2>5. QED
    BY <1>3, <2>2, <2>3, <2>4
<1>6. ASSUME NEW d \in Delivery, DeliveryDelete(d)
      PROVE  Lifecycle!Next
  <2>1. /\ endpoint' = endpoint /\ rows'[d] = AbsentRow /\ Exists(d)
        /\ \A e \in Delivery \ {d} : rows'[e] = rows[e]
    BY <1>6 DEF DeliveryDelete, LInv, IInv, TypeOK
  <2>2. dispatch'[d[1]] \notin {"idle", "listed"} /\ rows'[d].status = "absent"
    BY <1>1, <2>1 DEF LInv, IInv, TokenInv, AbsentRow
  <2>3. PhaseOf(d)' = "gone"
    BY <2>2 DEF PhaseOf
  <2>4. \A e \in Delivery \ {d} : PhaseOf(e)' = PhaseOf(e)
    BY <1>1, <2>1, PhaseFrame
  <2>5. {d} \in SUBSET Delivery /\ \A e \in {d} : PhaseOf(e)' = "gone"
    BY <2>3
  <2>6. QED
    BY <1>3, <2>4, <2>5
<1>7. QED
  BY <1>4, <1>5, <1>6

LEMMA StepLifecycle ==
    ASSUME LInv, LInv', [Next]_vars
    PROVE  Lifecycle!Next \/ UNCHANGED <<[d \in Delivery |-> PhaseOf(d)], posts>>
<1>1. ASSUME UNCHANGED <<endpoint, dispatch, rows, posts>>
      PROVE  UNCHANGED <<[d \in Delivery |-> PhaseOf(d)], posts>>
  BY <1>1, PhaseFrame, LifecycleStutter
<1>2. ASSUME NEW v \in Event, DispatchNext(v) \/ DispatchFails(v)
      PROVE  Lifecycle!Next \/ UNCHANGED <<[d \in Delivery |-> PhaseOf(d)], posts>>
  BY <1>2, DispatchLifecycle
<1>3. ASSUME NEW w \in Worker, TaskNext(w) \/ TaskDies(w)
      PROVE  Lifecycle!Next \/ UNCHANGED <<[d \in Delivery |-> PhaseOf(d)], posts>>
  BY <1>3, TaskLifecycle
<1>4. ASSUME NEW w \in Worker, NEW d \in Delivery, Receive(w, d)
      PROVE  UNCHANGED <<[e \in Delivery |-> PhaseOf(e)], posts>>
  BY <1>1, <1>4 DEF Receive, dispatchVars
<1>5. ASSUME NEW e \in Endpoint, EndpointUpdate(e) \/ EndpointDelete(e)
      PROVE  Lifecycle!Next \/ UNCHANGED <<[d \in Delivery |-> PhaseOf(d)], posts>>
  BY <1>5, OwnerLifecycle
<1>6. ASSUME NEW d \in Delivery, DeliveryDelete(d)
      PROVE  Lifecycle!Next \/ UNCHANGED <<[e \in Delivery |-> PhaseOf(e)], posts>>
  BY <1>6, OwnerLifecycle
<1>7. ASSUME NEW d \in Delivery, Redeliver(d)
      PROVE  UNCHANGED <<[e \in Delivery |-> PhaseOf(e)], posts>>
  BY <1>1, <1>7 DEF Redeliver, dispatchVars
<1>8. CASE UNCHANGED vars
  BY <1>1, <1>8 DEF vars
<1>9. QED
  BY <1>2, <1>3, <1>4, <1>5, <1>6, <1>7, <1>8 DEF Next

\* Seen by the owner of an endpoint, every delivery goes through the phases of
\* DeliveryLifecycle: no attempt begins before the last one ended, no verdict
\* comes without a request, no retry after the last attempt, only a deletion
\* follows a final verdict, whatever crashes, toggles and deletions interleave.
THEOREM ImplementsLifecycleHolds ==
    ASSUME MaxRedeliveries = 0
    PROVE  Spec => ImplementsLifecycle
<1>1. Init => Lifecycle!Init
  <2> SUFFICES ASSUME Init PROVE Lifecycle!Init
    OBVIOUS
  <2>1. ASSUME NEW d \in Delivery
        PROVE  PhaseOf(d) = "none"
    <3>1. /\ d[1] \in Event /\ d[2] \in Endpoint /\ endpoint[d[2]] # "deleted"
          /\ dispatch[d[1]] = "idle" /\ rows[d].status = "absent"
      BY DEF Init, Delivery, LiveEndpoint, AbsentRow
    <3>2. QED
      BY <3>1 DEF PhaseOf
  <2>2. QED
    BY <2>1 DEF Init, Lifecycle!Init
<1>2. LInv /\ LInv' /\ [Next]_vars =>
         [Lifecycle!Next]_<<[d \in Delivery |-> PhaseOf(d)], posts>>
  BY StepLifecycle
<1>3. QED
  BY <1>1, <1>2, LInvHolds, PTL DEF Spec, ImplementsLifecycle, Lifecycle!Spec

\* While each message is handed out once, a delivery that succeeded is not sent
\* again: the early return of webhook_delivery_send is enough, as no other task
\* can be past it. (It is not once a message is handed out twice.)
THEOREM SucceededIsNotResentHolds ==
    ASSUME MaxRedeliveries = 0
    PROVE  Spec => SucceededIsNotResent
<1> DEFINE Sent == \A d \in Delivery : rows[d].status = "succeeded" =>
                      /\ rows'[d].status \in {"succeeded", "absent"}
                      /\ posts'[d] = posts[d]
<1>1. IInv /\ [Next]_vars => [Sent]_vars
  <2> SUFFICES ASSUME IInv, [Next]_vars, NEW d \in Delivery, rows[d].status = "succeeded"
               PROVE  rows'[d].status \in {"succeeded", "absent"} /\ posts'[d] = posts[d]
    OBVIOUS
  <2>1. rows'[d] \in {rows[d], AbsentRow} /\ posts'[d] = posts[d]
    BY IdleRowStep DEF IInv, RowInv, Exists, Settled
  <2>2. QED
    BY <2>1 DEF AbsentRow
<1>2. QED
  BY <1>1, Inductive, PTL DEF Spec, SucceededIsNotResent
=============================================================================
