------------------------- MODULE StripeBilling_proofs -------------------------
(***************************************************************************)
(* Proofs about StripeBilling for every set of checkouts and of handlers,  *)
(* and every bound on the changes, the duplicates and the failures.        *)
(***************************************************************************)
EXTENDS StripeBilling, FiniteSetTheorems, TLAPS

-----------------------------------------------------------------------------
(* The inductive invariant.                                                *)

Sets == {"created", "updated"}   \* the events that activate the plan

\* A handler at work has an event that was sent, of the kind its step is for.
StepInv(h) ==
    /\ hpc[h] = "idle" <=> hevent[h] = NoEvent
    /\ hpc[h] # "idle" => hevent[h] \in sent
    /\ hpc[h] \in {"find open", "insert"} => hevent[h].kind = "created"
    /\ hpc[h] = "activate" => hevent[h].kind \in Sets /\ provider[hevent[h].of] # "none"
    /\ hpc[h] \in {"end", "downgrade"} => hevent[h].kind = "deleted"
    /\ hpc[h] = "past due" => hevent[h].kind = "payment failed"
    /\ subscription = NoSubscription => hpc[h] \in {"idle", "route"}
HandlerInv == \A h \in Handler : StepInv(h)

\* Stripe numbers its events, and those of a subscription begin with its
\* creation and end with its deletion.
HistoryInv ==
    /\ IsFiniteSet(sent)
    /\ \A e \in sent : e.n # 0 /\ e.n <= Cardinality(sent)
    /\ \A e, f \in sent : e.n = f.n => e = f
    /\ \A e \in sent : \E f \in sent : f.kind = "created" /\ f.of = e.of /\ f.n <= e.n
    /\ \A e, f \in sent : e.kind = "created" /\ f.kind = "created" /\ e.of = f.of => e = f
    /\ \A e, f \in sent : e.kind = "deleted" /\ f.of = e.of => f.n <= e.n

\* The last of the events in S that set the cancellation flag of c says so.
LastSays(S, c, cancel) ==
    \E e \in S :
        /\ e.kind \in Sets /\ e.of = c /\ e.cancel = cancel
        /\ \A f \in S : f.kind \in Sets /\ f.of = c => f.n <= e.n

Began(S, c) == \E e \in S : e.kind = "created" /\ e.of = c
Ended(S, c) == \E e \in S : e.kind = "deleted" /\ e.of = c

\* The events tell what the subscriptions at Stripe are.
StripeOf(c) ==
    /\ cpc[c] = "paid" <=> stripe[c].status # "none"
    /\ stripe[c].status = "none" => stripe[c].cancel = FALSE
    /\ stripe[c].status # "none" <=> Began(sent, c)
    /\ stripe[c].status = "canceled" <=> Ended(sent, c)
    /\ stripe[c].status # "none" => LastSays(sent, c, stripe[c].cancel)
StripeInv == \A c \in Checkout : StripeOf(c)

\* One checkout at a time may create the customer.
CustomerInv ==
    /\ \A c \in Checkout : cpc[c] \in {"create", "save"} <=> inserting = c
    /\ inserting # NoOne => customer = NoOne

\* More than one customer at Stripe is the trace of a failure.
Creating == customer # NoOne \/ \E c \in Checkout : cpc[c] = "save"
CustomersCounted ==
    /\ IsFiniteSet(stripeCustomers)
    /\ Cardinality(stripeCustomers) <= failures + (IF Creating THEN 1 ELSE 0)

\* Events that come one at a time leave one row open.
OneRow == \A c, d \in OpenRows : c = d
SerialInv ==
    /\ \A g, h \in Handler : hpc[g] # "idle" /\ hpc[h] # "idle" => g = h
    /\ \A h \in Handler : hpc[h] = "insert" => \A c \in OpenRows : c = hfound[h]
    /\ OneRow

\* Without a Subscription row there are no rows that belong to it.
RowInv == subscription = NoSubscription => \A c \in Checkout : provider[c] = "none"

\* The Subscription row is what the event e makes of it.
SavedFrom(e) ==
    \/ e.kind \in Sets /\ subscription.plan = "pro" /\ subscription.cancel = e.cancel
    \/ e.kind = "deleted" /\ subscription.plan = "free"

\* An answered event set the plan, or was forgotten; and the plan was set by the
\* event that is named as the last one to do it.
SavedInv ==
    /\ \A e \in sent \ (pending \cup ignored) : e.kind # "payment failed" => e.n <= newest
    /\ \/ last = 0 /\ subscription.plan # "pro"
       \/ \E e \in sent : e.n = last /\ SavedFrom(e)

IInv ==
    /\ TypeOK
    /\ HandlerInv /\ HistoryInv /\ StripeInv /\ PaidPlanIsBacked
    /\ CustomerInv /\ CustomersCounted
    /\ RowInv /\ SavedInv
    /\ InOrder => SerialInv

-----------------------------------------------------------------------------
(* Shapes of the steps.                                                    *)

LEMMA Constants ==
    /\ NoOne \notin Checkout
    /\ MaxChanges \in Nat /\ MaxDuplicates \in Nat /\ MaxFailures \in Nat
  BY BillingAssumption

\* The Subscription row that is missing is like no other.
LEMMA MissingRow ==
    /\ NoSubscription.plan = "none" /\ NoSubscription.status = "none"
    /\ NoSubscription.cancel = FALSE
    /\ \A row \in SubscriptionRow : row # NoSubscription
    /\ FreeSubscription \in SubscriptionRow
    /\ FreeSubscription.plan = "free" /\ FreeSubscription.status = "active"
  BY DEF NoSubscription, FreeSubscription, SubscriptionRow

LEMMA NoEventFields ==
    /\ NoEvent.kind = "none" /\ NoEvent.of = NoOne /\ NoEvent.cancel = FALSE
    /\ NoEvent \notin Event
<1>1. NoEvent.kind = "none" /\ NoEvent.of = NoOne /\ NoEvent.cancel = FALSE
  BY DEF NoEvent
<1>2. \A e \in Event : e.kind # "none"
  BY DEF Event, Kind
<1>3. QED
  BY <1>1, <1>2

CheckoutState == {"idle", "refused", "customer", "insert", "create", "save",
                  "session", "open", "paid", "failed"}
HandlerState  == {"idle", "route", "find open", "insert", "activate", "end",
                  "downgrade", "past due"}

\* A step of a checkout request that sends no event.
Requests(c) ==
    \/ CheckPlan(c) \/ CheckoutNext(c) \/ CheckoutFails(c)

\* Such a step does not touch what the events tell.
Aside ==
    UNCHANGED <<localRows, stripeVars, pending, duplicates, handlerVars, observed>>

LEMMA RequestShape ==
    ASSUME NEW c \in Checkout, Requests(c)
    PROVE  /\ Aside
           /\ cpc[c] \notin {"open", "paid"}
           /\ \E step \in CheckoutState \ {"paid"} : CGoto(c, step)
<1> USE DEF bounds, Aside, CheckoutState
<1>1. CASE CheckPlan(c)
  BY <1>1 DEF CheckPlan
<1>2. CASE FindCustomer(c)
  BY <1>2 DEF FindCustomer
<1>3. CASE InsertCustomer(c)
  BY <1>3 DEF InsertCustomer
<1>4. CASE CreateCustomer(c)
  BY <1>4 DEF CreateCustomer
<1>5. CASE SaveCustomer(c)
  BY <1>5 DEF SaveCustomer
<1>6. CASE CreateSession(c)
  BY <1>6 DEF CreateSession
<1>7. CASE CheckoutFails(c)
  BY <1>7 DEF CheckoutFails
<1>8. QED
  BY <1>1, <1>2, <1>3, <1>4, <1>5, <1>6, <1>7 DEF Requests, CheckoutNext

\* A handler's step leaves the checkouts and Stripe alone.
HandlerStep(h) == HandlerNext(h) \/ HandlerDies(h)
Apart == UNCHANGED <<checkoutVars, stripeVars, duplicates>>

LEMMA HandlerApart ==
    ASSUME NEW h \in Handler, HandlerStep(h)
    PROVE  Apart
  BY DEF HandlerStep, HandlerNext, HandlerDies, Route, FindOpen, InsertRow, Activate, EndRow,
         Downgrade, MarkPastDue, Apart, bounds

\* A step of h ends its request or goes on with the same event.
Continues(h) == (\E step \in HandlerState : HGoto(h, step)) /\ UNCHANGED hevent

LEMMA HandlerShape ==
    ASSUME TypeOK, HandlerInv, NEW h \in Handler, HandlerStep(h)
    PROVE  /\ hpc[h] # "idle"
           /\ hevent[h] \in sent /\ hevent[h] \in Event
           /\ EndRequest(h) \/ Continues(h)
<1>1. hpc[h] # "idle"
  BY DEF HandlerStep, HandlerNext, HandlerDies, Route, FindOpen, InsertRow, Activate,
         EndRow, Downgrade, MarkPastDue
<1>2. hevent[h] \in sent /\ hevent[h] \in Event
  BY <1>1 DEF HandlerInv, StepInv, TypeOK
<1>3. CASE Route(h)
  <2>1. hevent[h].kind \in Kind
    BY <1>2 DEF Event
  <2>2. QED
    BY <1>1, <1>2, <1>3, <2>1 DEF Route, Forget, Acknowledge, FirstStep, Continues, HandlerState,
       Kind
<1>4. CASE FindOpen(h) \/ InsertRow(h) \/ Activate(h) \/ EndRow(h) \/ Downgrade(h)
              \/ MarkPastDue(h) \/ HandlerDies(h)
  BY <1>1, <1>2, <1>4 DEF FindOpen, InsertRow, Activate, EndRow, Downgrade, MarkPastDue,
                          HandlerDies, Acknowledge, Fail, Forget, Continues, HandlerState
<1>5. QED
  BY <1>3, <1>4 DEF HandlerStep, HandlerNext

-----------------------------------------------------------------------------
(* Type correctness.                                                       *)

LEMMA RequestType ==
    ASSUME TypeOK, NEW c \in Checkout, Requests(c)
    PROVE  TypeOK'
<1> USE DEF Aside, handlerVars, stripeVars, localRows, observed
<1>1. PICK step \in CheckoutState : cpc' = [cpc EXCEPT ![c] = step]
  BY RequestShape DEF CGoto
<1>2. cpc' \in [Checkout -> CheckoutState]
  BY <1>1 DEF TypeOK, CheckoutState
<1>3. /\ customer' \in Checkout \cup {NoOne}
      /\ inserting' \in Checkout \cup {NoOne}
      /\ stripeCustomers' \subseteq Checkout
  BY DEF Requests, CheckPlan, CheckoutNext, CheckoutFails, FindCustomer, InsertCustomer,
         CreateCustomer, SaveCustomer, CreateSession, TypeOK
<1>4. failures' \in 0..MaxFailures
  <2>1. CASE CheckoutFails(c)
    <3>1. failures \in 0..MaxFailures /\ failures < MaxFailures /\ failures' = failures + 1
      BY <2>1 DEF CheckoutFails, TypeOK
    <3>2. QED
      BY <3>1, Constants
  <2>2. CASE ~CheckoutFails(c)
    BY <2>2 DEF Requests, CheckPlan, CheckoutNext, FindCustomer, InsertCustomer,
                CreateCustomer, SaveCustomer, CreateSession, bounds, TypeOK
  <2>3. QED
    BY <2>1, <2>2
<1>5. QED
  BY <1>2, <1>3, <1>4, RequestShape DEF TypeOK, CheckoutState

LEMMA StripeType ==
    ASSUME TypeOK, HistoryInv, NEW c \in Checkout, Pay(c) \/ ChangeAtStripe(c)
    PROVE  TypeOK'
<1> USE DEF handlerVars, bounds, localRows, observed
<1>1. stripe[c] \in [status: StripeStatus, cancel: BOOLEAN]
  BY DEF TypeOK
<1>2. ASSUME NEW kind \in Kind, NEW cancel \in BOOLEAN, Emit(kind, c, cancel)
      PROVE  sent' \subseteq Event /\ pending' \subseteq sent' /\ sent \subseteq sent'
  <2>1. Cardinality(sent) + 1 \in Nat
    BY FS_CardinalityType DEF HistoryInv
  <2>2. [kind |-> kind, of |-> c, cancel |-> cancel, n |-> Cardinality(sent) + 1] \in Event
    BY <2>1 DEF Event
  <2>3. QED
    BY <1>2, <2>2 DEF Emit, TypeOK
<1>3. CASE Pay(c)
  <2>1. cpc' \in [Checkout -> CheckoutState]
    BY <1>3 DEF Pay, CGoto, TypeOK, CheckoutState
  <2>2. stripe' \in [Checkout -> [status: StripeStatus, cancel: BOOLEAN]]
    <3>1. [stripe[c] EXCEPT !.status = "active"] \in [status: StripeStatus, cancel: BOOLEAN]
      BY <1>1 DEF StripeStatus
    <3>2. QED
      BY <1>3, <3>1 DEF Pay, TypeOK
  <2>3. sent' \subseteq Event /\ pending' \subseteq sent' /\ sent \subseteq sent'
    BY <1>2, <1>3 DEF Pay, Kind
  <2>4. QED
    BY <1>3, <2>1, <2>2, <2>3 DEF Pay, TypeOK, CheckoutState
<1>4. CASE ChangeAtStripe(c)
  <2>1. changes' \in 0..MaxChanges
    <3>1. changes \in 0..MaxChanges /\ changes < MaxChanges /\ changes' = changes + 1
      BY <1>4 DEF ChangeAtStripe, TypeOK
    <3>2. QED
      BY <3>1, Constants
  <2>2. stripe' \in [Checkout -> [status: StripeStatus, cancel: BOOLEAN]]
    <3>1. /\ [stripe[c] EXCEPT !.cancel = ~stripe[c].cancel] \in
                 [status: StripeStatus, cancel: BOOLEAN]
          /\ [stripe[c] EXCEPT !.status = "past due"] \in [status: StripeStatus, cancel: BOOLEAN]
          /\ [stripe[c] EXCEPT !.status = "canceled"] \in [status: StripeStatus, cancel: BOOLEAN]
      BY <1>1 DEF StripeStatus
    <3>2. PICK x \in [status: StripeStatus, cancel: BOOLEAN] : stripe' = [stripe EXCEPT ![c] = x]
      BY <1>4, <3>1 DEF ChangeAtStripe
    <3>3. QED
      BY <3>2 DEF TypeOK
  <2>3. sent' \subseteq Event /\ pending' \subseteq sent' /\ sent \subseteq sent'
    <3>1. (~stripe[c].cancel) \in BOOLEAN
      BY <1>1
    <3>2. QED
      BY <1>2, <1>4, <3>1 DEF ChangeAtStripe, Kind
  <2>4. QED
    BY <1>4, <2>1, <2>2, <2>3 DEF ChangeAtStripe, checkoutVars, TypeOK
<1>5. QED
  BY <1>3, <1>4

LEMMA EndRequestType ==
    ASSUME TypeOK, NEW h \in Handler, EndRequest(h)
    PROVE  /\ hpc' \in [Handler -> HandlerState]
           /\ hevent' \in [Handler -> Event \cup {NoEvent}]
           /\ hfound' \in [Handler -> Checkout \cup {NoOne}]
  BY DEF TypeOK, EndRequest, HGoto, HandlerState

LEMMA HandlerType ==
    ASSUME TypeOK, HandlerInv, NEW h \in Handler, HandlerStep(h)
    PROVE  TypeOK'
<1> USE DEF Apart, checkoutVars, stripeVars
<1>0. Apart
  BY HandlerApart
<1>1. /\ hpc' \in [Handler -> HandlerState]
      /\ hevent' \in [Handler -> Event \cup {NoEvent}]
      /\ hfound' \in [Handler -> Checkout \cup {NoOne}]
  <2>1. CASE EndRequest(h)
    BY <2>1, EndRequestType
  <2>2. CASE /\ \E step \in HandlerState : HGoto(h, step)
             /\ UNCHANGED <<hevent, hfound>>
    <3>1. PICK step \in HandlerState : hpc' = [hpc EXCEPT ![h] = step]
      BY <2>2 DEF HGoto
    <3>2. hpc \in [Handler -> HandlerState]
      BY DEF TypeOK, HandlerState
    <3>3. hpc' \in [Handler -> HandlerState]
      BY <3>1, <3>2
    <3>4. QED
      BY <2>2, <3>3 DEF TypeOK
  <2>3. CASE FindOpen(h)
    BY <2>3 DEF FindOpen, HGoto, OpenRows, TypeOK, HandlerState
  <2>4. CASE Route(h)
    <3>1. hevent[h] \in Event
      BY <2>4 DEF Route, HandlerInv, StepInv, TypeOK
    <3>2. hevent[h].kind \in Kind
      BY <3>1 DEF Event
    <3>3. EndRequest(h) \/ (/\ \E step \in HandlerState : HGoto(h, step)
                            /\ UNCHANGED <<hevent, hfound>>)
      BY <2>4, <3>2 DEF Route, Forget, Acknowledge, FirstStep, HandlerState, Kind
    <3>4. QED
      BY <2>1, <2>2, <3>3
  <2>5. CASE InsertRow(h) \/ Activate(h) \/ EndRow(h) \/ Downgrade(h) \/ MarkPastDue(h)
                \/ HandlerDies(h)
    BY <2>1, <2>2, <2>5 DEF InsertRow, Activate, EndRow, Downgrade, MarkPastDue, HandlerDies,
                            Acknowledge, Fail, Forget, HandlerState
  <2>6. QED
    BY <2>3, <2>4, <2>5 DEF HandlerStep, HandlerNext
<1>2. subscription' \in SubscriptionRow \cup {NoSubscription}
  <2>1. CASE subscription' = Activated(hevent[h])
    <3>1. hevent[h].cancel \in BOOLEAN
      BY NoEventFields DEF TypeOK, Event
    <3>2. QED
      BY <2>1, <3>1 DEF Activated, SubscriptionRow
  <2>2. CASE subscription' = Downgraded
    BY <2>2 DEF Downgraded, SubscriptionRow
  <2>3. CASE MarkPastDue(h)
    <3>1. subscription \in SubscriptionRow
      BY <2>3 DEF MarkPastDue, HandlerInv, StepInv, TypeOK
    <3>2. QED
      BY <2>3, <3>1 DEF MarkPastDue, PastDue, SubscriptionRow
  <2>4. CASE subscription' = subscription
    BY <2>4 DEF TypeOK
  <2>5. QED
    BY <2>1, <2>2, <2>3, <2>4 DEF HandlerStep, HandlerNext, Route, FindOpen, InsertRow, EndRow,
       HandlerDies, Activate, Downgrade, Save, localRows
<1>3. provider' \in [Checkout -> {"none", "open", "ended"}]
  <2>1. CASE InsertRow(h)
    <3>1. Superseded(hfound[h]) \in [Checkout -> {"none", "open", "ended"}]
      BY DEF Superseded, TypeOK
    <3>2. QED
      BY <2>1, <3>1 DEF InsertRow, TypeOK
  <2>2. CASE EndRow(h)
    BY <2>2 DEF EndRow, TypeOK
  <2>3. CASE Route(h) \/ FindOpen(h) \/ Activate(h) \/ Downgrade(h) \/ MarkPastDue(h)
                \/ HandlerDies(h)
    BY <2>3 DEF Route, FindOpen, Activate, Downgrade, MarkPastDue, HandlerDies, localRows, TypeOK
  <2>4. QED
    BY <2>1, <2>2, <2>3 DEF HandlerStep, HandlerNext
<1>4. pending' \subseteq sent
  BY DEF HandlerStep, HandlerNext, Route, FindOpen, InsertRow, Activate, EndRow, Downgrade,
         MarkPastDue, HandlerDies, Acknowledge, Fail, Forget, TypeOK
<1>5. failures' \in 0..MaxFailures
  <2>1. CASE HandlerDies(h)
    <3>1. failures \in 0..MaxFailures /\ failures < MaxFailures /\ failures' = failures + 1
      BY <2>1 DEF HandlerDies, TypeOK
    <3>2. QED
      BY <3>1, Constants
  <2>2. CASE HandlerNext(h)
    BY <2>2 DEF HandlerNext, Route, FindOpen, InsertRow, Activate, EndRow, Downgrade,
                MarkPastDue, bounds, TypeOK
  <2>3. QED
    BY <2>1, <2>2 DEF HandlerStep
<1>6. ignored' \subseteq sent /\ last' \in Nat /\ newest' \in Nat
  <2>1. hevent[h] \in sent /\ hevent[h].n \in Nat
    BY HandlerShape DEF Event
  <2>2. CASE observed' = observed
    BY <2>2 DEF observed, TypeOK
  <2>3. CASE Forget(h)
    BY <2>1, <2>3 DEF Forget, TypeOK
  <2>4. ASSUME NEW row, Save(row, hevent[h])
        PROVE  ignored' \subseteq sent /\ last' \in Nat /\ newest' \in Nat
    BY <2>1, <2>4 DEF Save, TypeOK
  <2>5. QED
    BY <2>2, <2>3, <2>4 DEF HandlerStep, HandlerNext, Route, FindOpen, InsertRow, Activate, EndRow,
       Downgrade, MarkPastDue, HandlerDies, observed
<1>7. QED
  BY <1>0, <1>1, <1>2, <1>3, <1>4, <1>5, <1>6 DEF TypeOK, HandlerState

LEMMA ReceiveType ==
    ASSUME TypeOK, NEW h \in Handler, NEW event \in sent, Receive(h, event)
    PROVE  TypeOK'
<1> USE DEF checkoutVars, stripeVars, localRows, observed
<1>1. duplicates' \in 0..MaxDuplicates
  <2>1. duplicates \in 0..MaxDuplicates
    BY DEF TypeOK
  <2>2. duplicates' = duplicates \/ (duplicates < MaxDuplicates /\ duplicates' = duplicates + 1)
    BY DEF Receive
  <2>3. QED
    BY <2>1, <2>2, Constants
<1>2. hevent' \in [Handler -> Event \cup {NoEvent}]
  BY DEF Receive, TypeOK
<1>3. hpc' \in [Handler -> HandlerState]
  BY DEF Receive, HGoto, TypeOK, HandlerState
<1>4. QED
  BY <1>1, <1>2, <1>3 DEF Receive, TypeOK, HandlerState

-----------------------------------------------------------------------------
(* The handlers.                                                           *)

LEMMA OtherHandlers ==
    ASSUME TypeOK, HandlerInv, NEW h \in Handler, HandlerStep(h), NEW g \in Handler, g # h
    PROVE  hpc'[g] = hpc[g] /\ hevent'[g] = hevent[g]
<1>1. CASE EndRequest(h)
  BY <1>1 DEF EndRequest, HGoto, TypeOK
<1>2. CASE Continues(h)
  BY <1>2 DEF Continues, HGoto, TypeOK
<1>3. QED
  BY <1>1, <1>2, HandlerShape

\* A row that exists is never removed.
LEMMA RowsStay ==
    ASSUME TypeOK, NEW h \in Handler, HandlerStep(h),
           NEW c \in Checkout, provider[c] # "none"
    PROVE  provider'[c] # "none"
<1>1. CASE InsertRow(h)
  <2>1. Superseded(hfound[h]) \in [Checkout -> {"none", "open", "ended"}]
    BY DEF Superseded, TypeOK
  <2>2. Superseded(hfound[h])[c] # "none"
    BY DEF Superseded, TypeOK
  <2>3. QED
    BY <1>1, <2>1, <2>2 DEF InsertRow
<1>2. CASE EndRow(h)
  BY <1>2 DEF EndRow, TypeOK
<1>3. CASE Route(h) \/ FindOpen(h) \/ Activate(h) \/ Downgrade(h) \/ MarkPastDue(h)
              \/ HandlerDies(h)
  BY <1>3 DEF Route, FindOpen, Activate, Downgrade, MarkPastDue, HandlerDies, localRows
<1>4. QED
  BY <1>1, <1>2, <1>3 DEF HandlerStep, HandlerNext

\* A row that exists is never forgotten, nor is the Subscription row.
LEMMA RowAppears ==
    ASSUME TypeOK, RowInv, HandlerInv, NEW h \in Handler, HandlerStep(h)
    PROVE  /\ subscription' = NoSubscription <=> subscription = NoSubscription
           /\ RowInv'
<1> USE MissingRow
<1>1. CASE localRows' = localRows
  BY <1>1 DEF localRows, RowInv
<1>2. CASE hpc[h] \notin {"idle", "route"} /\ subscription' = subscription
  BY <1>2 DEF HandlerInv, StepInv, RowInv
<1>3. CASE Activate(h) \/ (Downgrade(h) /\ subscription' = Downgraded)
  <2>1. subscription # NoSubscription
    BY <1>3 DEF Activate, Downgrade, HandlerInv, StepInv
  <2>2. subscription'.plan # "none"
    BY <1>3 DEF Activate, Downgrade, Save, Activated, Downgraded
  <2>3. QED
    BY <2>1, <2>2 DEF RowInv
<1>4. CASE MarkPastDue(h)
  <2>1. subscription # NoSubscription
    BY <1>4 DEF MarkPastDue, HandlerInv, StepInv
  <2>2. subscription'.status # "none"
    BY <1>4, <2>1 DEF MarkPastDue, PastDue, TypeOK, SubscriptionRow
  <2>3. QED
    BY <2>1, <2>2 DEF RowInv
<1>5. QED
  BY <1>1, <1>2, <1>3, <1>4 DEF HandlerStep, HandlerNext, Route, FindOpen, InsertRow, EndRow,
     HandlerDies, Downgrade, Save, localRows
\* The handler itself.
LEMMA HandlerSelf ==
    ASSUME TypeOK, HandlerInv, RowInv, NEW h \in Handler, HandlerStep(h)
    PROVE  StepInv(h)'
<1>0. /\ hpc[h] # "idle" /\ hevent[h] \in sent /\ hevent[h] \in Event
      /\ sent' = sent /\ StepInv(h)
  BY HandlerShape, HandlerApart DEF Apart, stripeVars, HandlerInv
<1>1. CASE EndRequest(h)
  <2>1. hpc'[h] = "idle" /\ hevent'[h] = NoEvent
    BY <1>1 DEF EndRequest, HGoto, TypeOK
  <2>2. QED
    BY <2>1 DEF StepInv
<1>2. ASSUME NEW step \in HandlerState \ {"idle"}, HGoto(h, step), UNCHANGED hevent,
             step \in {"find open", "insert"} => hevent[h].kind = "created",
             step = "activate" => hevent[h].kind \in Sets /\ provider'[hevent[h].of] # "none",
             step \in {"end", "downgrade"} => hevent[h].kind = "deleted",
             step = "past due" => hevent[h].kind = "payment failed",
             subscription # NoSubscription
      PROVE  StepInv(h)'
  <2>1. hpc'[h] = step /\ step # "idle" /\ hevent'[h] = hevent[h]
    BY <1>2 DEF HGoto, TypeOK
  <2>2. hevent[h] # NoEvent
    BY <1>0, NoEventFields
  <2>3. QED
    BY <1>0, <1>2, <2>1, <2>2, RowAppears DEF StepInv
<1>3. CASE Route(h) /\ ~EndRequest(h)
  <2>1. hevent[h].kind \in Kind /\ hevent[h].of \in Checkout
    BY <1>0 DEF Event
  <2>2. /\ \E found \in Found : Known(hevent[h], found)
        /\ HGoto(h, FirstStep(hevent[h].kind)) /\ UNCHANGED <<hevent, localRows>>
    BY <1>3 DEF Route, Forget, Acknowledge
  <2>3. /\ hevent[h].kind # "created" => provider'[hevent[h].of] # "none"
        /\ subscription # NoSubscription
    BY <2>1, <2>2 DEF Known, RowInv, localRows
  <2>4. CASE hevent[h].kind = "created"
    BY <1>2, <2>2, <2>3, <2>4 DEF FirstStep, HandlerState
  <2>5. CASE hevent[h].kind = "updated"
    BY <1>2, <2>2, <2>3, <2>5 DEF FirstStep, HandlerState, Sets
  <2>6. CASE hevent[h].kind = "deleted"
    BY <1>2, <2>2, <2>3, <2>6 DEF FirstStep, HandlerState
  <2>7. CASE hevent[h].kind = "payment failed"
    BY <1>2, <2>2, <2>3, <2>7 DEF FirstStep, HandlerState
  <2>8. QED
    BY <2>1, <2>4, <2>5, <2>6, <2>7 DEF Kind
<1>4. CASE FindOpen(h)
  BY <1>0, <1>2, <1>4 DEF FindOpen, StepInv, HandlerState
<1>5. CASE InsertRow(h) /\ ~EndRequest(h)
  <2>1. hevent[h].kind = "created" /\ hevent[h].of \in Checkout
    BY <1>0, <1>5 DEF InsertRow, StepInv, Event
  <2>2. provider' = [Superseded(hfound[h]) EXCEPT ![hevent[h].of] = "open"]
    BY <1>5 DEF InsertRow, Fail
  <2>3. provider'[hevent[h].of] = "open"
    BY <2>1, <2>2 DEF Superseded
  <2>4. QED
    BY <1>0, <1>2, <1>5, <2>1, <2>3 DEF InsertRow, Fail, StepInv, HandlerState, Sets
<1>6. CASE EndRow(h)
  BY <1>0, <1>2, <1>6 DEF EndRow, StepInv, HandlerState
<1>7. CASE Activate(h) \/ Downgrade(h) \/ MarkPastDue(h) \/ HandlerDies(h)
  BY <1>1, <1>7 DEF Activate, Downgrade, MarkPastDue, HandlerDies, Acknowledge, Fail, Forget
<1>8. QED
  BY <1>1, <1>3, <1>4, <1>5, <1>6, <1>7 DEF HandlerStep, HandlerNext

LEMMA HandlersKept ==
    ASSUME TypeOK, HandlerInv, RowInv, NEW h \in Handler, HandlerStep(h)
    PROVE  HandlerInv'
<1>1. SUFFICES ASSUME NEW g \in Handler, g # h
               PROVE  StepInv(g)'
  BY HandlerSelf DEF HandlerInv
<1>2. hpc'[g] = hpc[g] /\ hevent'[g] = hevent[g] /\ sent' = sent /\ StepInv(g)
  BY <1>1, OtherHandlers, HandlerApart DEF Apart, stripeVars, HandlerInv
<1>3. hpc[g] = "activate" => hevent[g].of \in Checkout
  BY <1>2 DEF StepInv, TypeOK, Event
<1>4. hpc[g] = "activate" => provider'[hevent[g].of] # "none"
  BY <1>2, <1>3, RowsStay DEF StepInv
<1>5. QED
  BY <1>2, <1>4, RowAppears DEF StepInv

LEMMA HandlersApart ==
    ASSUME HandlerInv, UNCHANGED <<hpc, hevent, provider, subscription>>, sent \subseteq sent'
    PROVE  HandlerInv'
  BY DEF HandlerInv, StepInv

LEMMA ReceiveHandlers ==
    ASSUME TypeOK, HandlerInv, NEW h \in Handler, NEW event \in sent, Receive(h, event)
    PROVE  HandlerInv'
<1>1. /\ hpc' = [hpc EXCEPT ![h] = "route"] /\ hevent' = [hevent EXCEPT ![h] = event]
      /\ sent' = sent /\ provider' = provider /\ subscription' = subscription
  BY DEF Receive, HGoto, stripeVars, localRows
<1>2. hpc'[h] = "route" /\ hevent'[h] = event /\ event # NoEvent /\ event \in sent'
  BY <1>1, NoEventFields DEF TypeOK
<1>3. \A g \in Handler : g # h => hpc'[g] = hpc[g] /\ hevent'[g] = hevent[g]
  BY <1>1 DEF TypeOK
<1>4. StepInv(h)'
  BY <1>2 DEF StepInv
<1>5. ASSUME NEW g \in Handler, g # h
      PROVE  StepInv(g)'
  <2>1. hpc'[g] = hpc[g] /\ hevent'[g] = hevent[g] /\ StepInv(g)
    BY <1>3, <1>5 DEF HandlerInv
  <2>2. sent' = sent /\ provider' = provider /\ subscription' = subscription
    BY <1>1
  <2>3. QED
    BY <2>1, <2>2 DEF StepInv
<1>6. QED
  BY <1>4, <1>5 DEF HandlerInv

-----------------------------------------------------------------------------
(* The events Stripe sends.                                                *)

LEMMA OneMore ==
    ASSUME NEW S, NEW e, NEW c
    PROVE  /\ Began(S \cup {e}, c) <=> Began(S, c) \/ (e.kind = "created" /\ e.of = c)
           /\ Ended(S \cup {e}, c) <=> Ended(S, c) \/ (e.kind = "deleted" /\ e.of = c)
  BY DEF Began, Ended

LEMMA LastIsNew ==
    ASSUME NEW S, NEW e \in Event, NEW c, e.kind \in Sets, e.of = c,
           \A f \in S : f.n < e.n, S \subseteq Event
    PROVE  LastSays(S \cup {e}, c, e.cancel)
<1>1. e.n \in Nat /\ \A f \in S : f.n \in Nat
  BY DEF Event
<1>2. \A f \in S \cup {e} : f.n <= e.n
  BY <1>1
<1>3. QED
  BY <1>2 DEF LastSays

LEMMA LastIsOld ==
    ASSUME NEW S, NEW e, NEW c, NEW cancel, LastSays(S, c, cancel),
           ~(e.kind \in Sets /\ e.of = c)
    PROVE  LastSays(S \cup {e}, c, cancel)
  BY DEF LastSays

NewEvent(kind, c, cancel) ==
    [kind |-> kind, of |-> c, cancel |-> cancel, n |-> Cardinality(sent) + 1]

LEMMA Emitted ==
    ASSUME TypeOK, HistoryInv, NEW c \in Checkout, NEW kind \in Kind, NEW cancel \in BOOLEAN,
           Emit(kind, c, cancel)
    PROVE  LET e == NewEvent(kind, c, cancel)
           IN  /\ e \in Event /\ e.kind = kind /\ e.of = c /\ e.cancel = cancel
               /\ e.n = Cardinality(sent) + 1 /\ Cardinality(sent) \in Nat
               /\ sent' = sent \cup {e} /\ pending' = pending \cup {e}
               /\ \A f \in sent : f.n < e.n
               /\ e \notin sent
<1> DEFINE e == NewEvent(kind, c, cancel)
<1>1. Cardinality(sent) \in Nat
  BY FS_CardinalityType DEF HistoryInv
<1>2. /\ e \in Event /\ e.kind = kind /\ e.of = c /\ e.cancel = cancel
      /\ e.n = Cardinality(sent) + 1
  BY <1>1 DEF NewEvent, Event
<1>3. sent' = sent \cup {e} /\ pending' = pending \cup {e}
  BY DEF Emit, NewEvent
<1> HIDE DEF e
<1>4. \A f \in sent : f.n \in Nat /\ f.n <= Cardinality(sent)
  BY DEF TypeOK, Event, HistoryInv
<1>5. \A f \in sent : f.n < e.n
  BY <1>1, <1>2, <1>4
<1>6. e \notin sent
  BY <1>1, <1>2, <1>4
<1>7. QED
  BY <1>1, <1>2, <1>3, <1>5, <1>6 DEF e

\* Stripe creates a subscription once and tells nothing of one that ended.
LEMMA HistoryGrows ==
    ASSUME TypeOK, HistoryInv, NEW c \in Checkout, NEW kind \in Kind, NEW cancel \in BOOLEAN,
           Emit(kind, c, cancel),
           kind = "created" <=> ~Began(sent, c),
           ~Ended(sent, c)
    PROVE  HistoryInv'
<1> DEFINE e == NewEvent(kind, c, cancel)
<1>1. /\ e \in Event /\ e.kind = kind /\ e.of = c /\ e.n = Cardinality(sent) + 1
      /\ Cardinality(sent) \in Nat
      /\ sent' = sent \cup {e}
      /\ \A f \in sent : f.n < e.n
      /\ e \notin sent
  BY Emitted
<1> HIDE DEF e
<1>2. /\ e.n \in Nat /\ \A f \in sent : f.n \in Nat
      /\ \A f \in sent : f.n <= Cardinality(sent)
  BY <1>1 DEF TypeOK, Event, HistoryInv
<1>3. IsFiniteSet(sent') /\ Cardinality(sent') = Cardinality(sent) + 1
  BY <1>1, FS_AddElement DEF HistoryInv
<1>4. \A f \in sent' : f.n # 0 /\ f.n <= Cardinality(sent')
  <2>1. SUFFICES ASSUME NEW f \in sent'
                 PROVE  f.n # 0 /\ f.n <= Cardinality(sent) + 1
    BY <1>3
  <2>2. CASE f = e
    BY <1>1, <2>2
  <2>3. CASE f \in sent
    BY <1>1, <1>2, <2>3 DEF HistoryInv
  <2>4. QED
    BY <1>1, <2>1, <2>2, <2>3
<1>5. \A f, g \in sent' : f.n = g.n => f = g
  <2>1. \A f \in sent : f.n # e.n
    BY <1>1, <1>2
  <2>2. QED
    BY <1>1, <2>1 DEF HistoryInv
<1>6. \A f \in sent' : \E g \in sent' : g.kind = "created" /\ g.of = f.of /\ g.n <= f.n
  <2>1. \E g \in sent' : g.kind = "created" /\ g.of = e.of /\ g.n <= e.n
    <3>1. CASE kind = "created"
      BY <1>1, <1>2, <3>1
    <3>2. CASE kind # "created"
      <4>1. PICK g \in sent : g.kind = "created" /\ g.of = c
        BY <3>2 DEF Began
      <4>2. g.n <= e.n
        BY <1>1, <1>2
      <4>3. QED
        BY <1>1, <4>1, <4>2
    <3>3. QED
      BY <3>1, <3>2
  <2>2. QED
    BY <1>1, <2>1 DEF HistoryInv
<1>7. \A f, g \in sent' : f.kind = "created" /\ g.kind = "created" /\ f.of = g.of => f = g
  BY <1>1 DEF HistoryInv, Began
<1>8. \A f, g \in sent' : f.kind = "deleted" /\ g.of = f.of => g.n <= f.n
  <2>1. SUFFICES ASSUME NEW f \in sent', NEW g \in sent', f.kind = "deleted", g.of = f.of
                 PROVE  g.n <= f.n
    OBVIOUS
  <2>2. CASE f = e
    BY <1>1, <1>2, <2>1, <2>2
  <2>3. CASE f # e
    <3>1. f \in sent
      BY <1>1, <2>1, <2>3
    <3>2. g # e
      BY <1>1, <2>1, <3>1 DEF Ended
    <3>3. QED
      BY <1>1, <2>1, <3>1, <3>2 DEF HistoryInv
  <2>4. QED
    BY <2>2, <2>3
<1>9. QED
  BY <1>3, <1>4, <1>5, <1>6, <1>7, <1>8 DEF HistoryInv

\* An event of c tells nothing of another subscription.
LEMMA OtherSubscriptions ==
    ASSUME TypeOK, HistoryInv, StripeInv,
           NEW c \in Checkout, NEW kind \in Kind, NEW cancel \in BOOLEAN, Emit(kind, c, cancel),
           NEW d \in Checkout, d # c, cpc'[d] = cpc[d], stripe'[d] = stripe[d]
    PROVE  StripeOf(d)'
<1> DEFINE e == NewEvent(kind, c, cancel)
<1>1. e.of = c /\ sent' = sent \cup {e}
  BY Emitted
<1> HIDE DEF e
<1>2. Began(sent', d) <=> Began(sent, d)
  BY <1>1, OneMore
<1>3. Ended(sent', d) <=> Ended(sent, d)
  BY <1>1, OneMore
<1>4. PICK b : b = stripe[d].cancel
  OBVIOUS
<1>5. LastSays(sent, d, b) => LastSays(sent', d, b)
  BY <1>1, LastIsOld
<1>6. QED
  BY <1>2, <1>3, <1>4, <1>5 DEF StripeInv, StripeOf

LEMMA PayHistory ==
    ASSUME TypeOK, HistoryInv, StripeInv, NEW c \in Checkout, Pay(c)
    PROVE  HistoryInv' /\ StripeInv'
<1>0. PICK kind \in Kind, cancel \in BOOLEAN : kind = "created" /\ cancel = FALSE
  BY DEF Kind
<1> DEFINE e == NewEvent(kind, c, cancel)
<1>1. /\ cpc[c] = "open" /\ cpc' = [cpc EXCEPT ![c] = "paid"]
      /\ stripe' = [stripe EXCEPT ![c].status = "active"]
  BY DEF Pay, CGoto
<1>2. Emit(kind, c, cancel)
  BY <1>0 DEF Pay
<1>3. /\ ~Began(sent, c) /\ ~Ended(sent, c)
      /\ stripe[c].cancel = FALSE
  BY <1>1 DEF StripeInv, StripeOf
<1>4. HistoryInv'
  BY <1>0, <1>2, <1>3, HistoryGrows
<1>5. /\ e \in Event /\ e.kind = "created" /\ e.of = c /\ e.cancel = FALSE
      /\ sent' = sent \cup {e} /\ \A f \in sent : f.n < e.n
  BY <1>0, <1>2, Emitted
<1> HIDE DEF e
<1>6. /\ cpc'[c] = "paid" /\ stripe'[c].status = "active" /\ stripe'[c].cancel = FALSE
      /\ \A d \in Checkout : d # c => cpc'[d] = cpc[d] /\ stripe'[d] = stripe[d]
  BY <1>1, <1>3 DEF TypeOK
<1>7. Began(sent', c) /\ ~Ended(sent', c)
  BY <1>3, <1>5, OneMore
<1>8. LastSays(sent', c, FALSE)
  <2>1. sent \subseteq Event
    BY DEF TypeOK
  <2>2. LastSays(sent \cup {e}, c, e.cancel)
    BY <1>5, <2>1, LastIsNew DEF Sets
  <2>3. QED
    BY <1>5, <2>2
<1>9. StripeOf(c)'
  BY <1>6, <1>7, <1>8 DEF StripeOf
<1>10. ASSUME NEW d \in Checkout, d # c
       PROVE  StripeOf(d)'
  BY <1>2, <1>6, <1>10, OtherSubscriptions
<1>11. QED
  BY <1>4, <1>9, <1>10 DEF StripeInv

LEMMA ChangeHistory ==
    ASSUME TypeOK, HistoryInv, StripeInv, NEW c \in Checkout, ChangeAtStripe(c)
    PROVE  HistoryInv' /\ StripeInv'
<1>1. Live(c) /\ cpc' = cpc
  BY DEF ChangeAtStripe, checkoutVars
<1>2. /\ stripe[c].status \in {"active", "past due"} /\ cpc[c] = "paid"
      /\ Began(sent, c) /\ ~Ended(sent, c)
      /\ LastSays(sent, c, stripe[c].cancel)
      /\ stripe[c].cancel \in BOOLEAN
  BY <1>1 DEF Live, StripeInv, StripeOf, TypeOK
<1>3. ASSUME NEW kind \in Kind, kind # "created", NEW cancel \in BOOLEAN, Emit(kind, c, cancel),
             NEW row \in [status: StripeStatus, cancel: BOOLEAN],
             stripe' = [stripe EXCEPT ![c] = row],
             row.status # "none",
             row.status = "canceled" <=> kind = "deleted",
             row.cancel = IF kind = "updated" THEN cancel ELSE stripe[c].cancel
      PROVE  HistoryInv' /\ StripeInv'
  <2> DEFINE e == NewEvent(kind, c, cancel)
  <2>1. HistoryInv'
    BY <1>2, <1>3, HistoryGrows
  <2>2. /\ e \in Event /\ e.kind = kind /\ e.of = c /\ e.cancel = cancel
        /\ sent' = sent \cup {e} /\ \A f \in sent : f.n < e.n
    BY <1>3, Emitted
  <2> HIDE DEF e
  <2>3. stripe'[c] = row /\ \A d \in Checkout : d # c => stripe'[d] = stripe[d]
    BY <1>3 DEF TypeOK
  <2>4. Began(sent', c) /\ (Ended(sent', c) <=> kind = "deleted")
    BY <1>2, <2>2, OneMore
  <2>5. LastSays(sent', c, row.cancel)
    <3>1. CASE kind = "updated"
      <4>1. sent \subseteq Event
        BY DEF TypeOK
      <4>2. LastSays(sent \cup {e}, c, e.cancel)
        BY <2>2, <3>1, <4>1, LastIsNew DEF Sets
      <4>3. QED
        BY <1>3, <2>2, <3>1, <4>2
    <3>2. CASE kind # "updated"
      <4>1. row.cancel = stripe[c].cancel /\ kind \notin Sets
        BY <1>3, <3>2 DEF Sets
      <4>2. LastSays(sent, c, row.cancel)
        BY <1>2, <4>1
      <4>3. QED
        BY <2>2, <4>1, <4>2, LastIsOld
    <3>3. QED
      BY <3>1, <3>2
  <2>6. StripeOf(c)'
    BY <1>1, <1>2, <1>3, <2>3, <2>4, <2>5 DEF StripeOf
  <2>7. ASSUME NEW d \in Checkout, d # c
        PROVE  StripeOf(d)'
    BY <1>1, <1>3, <2>3, <2>7, OtherSubscriptions
  <2>8. QED
    BY <2>1, <2>6, <2>7 DEF StripeInv
<1>4. stripe[c] \in [status: StripeStatus, cancel: BOOLEAN]
  BY DEF TypeOK
<1>5. CASE stripe' = [stripe EXCEPT ![c].cancel = ~@] /\ Emit("updated", c, ~stripe[c].cancel)
  <2> DEFINE row == [stripe[c] EXCEPT !.cancel = ~stripe[c].cancel]
  <2>1. /\ row \in [status: StripeStatus, cancel: BOOLEAN]
        /\ row.status = stripe[c].status /\ row.cancel = ~stripe[c].cancel
    BY <1>4
  <2>2. stripe' = [stripe EXCEPT ![c] = row]
    BY <1>5
  <2> HIDE DEF row
  <2>3. "updated" \in Kind /\ "updated" # "created" /\ (~stripe[c].cancel) \in BOOLEAN
    BY <1>2 DEF Kind
  <2>4. row.status # "none" /\ row.status # "canceled"
    BY <1>2, <2>1
  <2>5. QED
    BY <1>3, <1>5, <2>1, <2>2, <2>3, <2>4
<1>6. CASE /\ stripe' = [stripe EXCEPT ![c].status = "past due"]
           /\ Emit("payment failed", c, FALSE)
  <2> DEFINE row == [stripe[c] EXCEPT !.status = "past due"]
  <2>1. /\ row \in [status: StripeStatus, cancel: BOOLEAN]
        /\ row.status = "past due" /\ row.cancel = stripe[c].cancel
    BY <1>4 DEF StripeStatus
  <2>2. stripe' = [stripe EXCEPT ![c] = row]
    BY <1>6
  <2> HIDE DEF row
  <2>3. "payment failed" \in Kind /\ FALSE \in BOOLEAN
    BY DEF Kind
  <2>4. QED
    BY <1>3, <1>6, <2>1, <2>2, <2>3
<1>7. CASE /\ stripe' = [stripe EXCEPT ![c].status = "canceled"]
           /\ Emit("deleted", c, FALSE)
  <2> DEFINE row == [stripe[c] EXCEPT !.status = "canceled"]
  <2>1. /\ row \in [status: StripeStatus, cancel: BOOLEAN]
        /\ row.status = "canceled" /\ row.cancel = stripe[c].cancel
    BY <1>4 DEF StripeStatus
  <2>2. stripe' = [stripe EXCEPT ![c] = row]
    BY <1>7
  <2> HIDE DEF row
  <2>3. "deleted" \in Kind /\ FALSE \in BOOLEAN
    BY DEF Kind
  <2>4. QED
    BY <1>3, <1>7, <2>1, <2>2, <2>3
<1>8. QED
  BY <1>5, <1>6, <1>7 DEF ChangeAtStripe

LEMMA RequestHistory ==
    ASSUME TypeOK, HistoryInv, StripeInv, NEW c \in Checkout, Requests(c)
    PROVE  HistoryInv' /\ StripeInv'
<1>1. UNCHANGED <<stripe, sent>> /\ cpc[c] # "paid"
  BY RequestShape DEF Aside, stripeVars
<1>2. PICK step \in CheckoutState : cpc' = [cpc EXCEPT ![c] = step] /\ step # "paid"
  BY RequestShape DEF CGoto
<1>3. \A d \in Checkout : cpc'[d] = "paid" <=> cpc[d] = "paid"
  BY <1>1, <1>2 DEF TypeOK
<1>4. HistoryInv'
  BY <1>1 DEF HistoryInv
<1>5. QED
  BY <1>1, <1>3, <1>4 DEF StripeInv, StripeOf, Began, Ended, LastSays

LEMMA HistoryApart ==
    ASSUME HistoryInv, StripeInv, UNCHANGED <<stripe, sent, cpc>>
    PROVE  HistoryInv' /\ StripeInv'
  BY DEF HistoryInv, StripeInv, StripeOf, Began, Ended, LastSays

-----------------------------------------------------------------------------
(* A plan that is held was paid.                                           *)

\* The subscription an event is about was paid.
LEMMA EventOfPaid ==
    ASSUME TypeOK, HistoryInv, StripeInv, NEW e \in sent
    PROVE  e.of \in Checkout /\ stripe[e.of].status # "none"
<1>1. e.of \in Checkout
  BY DEF TypeOK, Event
<1>2. Began(sent, e.of)
  BY DEF HistoryInv, Began
<1>3. QED
  BY <1>1, <1>2 DEF StripeInv, StripeOf

LEMMA PaidStays ==
    ASSUME StripeInv, StripeInv', sent \subseteq sent',
           NEW c \in Checkout, stripe[c].status # "none"
    PROVE  stripe'[c].status # "none"
<1>1. Began(sent, c)
  BY DEF StripeInv, StripeOf
<1>2. Began(sent', c)
  BY <1>1 DEF Began
<1>3. QED
  BY <1>2 DEF StripeInv, StripeOf

LEMMA BackedByHandler ==
    ASSUME TypeOK, HandlerInv, HistoryInv, StripeInv, PaidPlanIsBacked,
           NEW h \in Handler, HandlerStep(h)
    PROVE  PaidPlanIsBacked'
<1>1. stripe' = stripe
  BY HandlerApart DEF Apart, stripeVars
<1>2. CASE Activate(h)
  <2>1. subscription' = Activated(hevent[h]) /\ provider' = provider /\ hpc[h] = "activate"
    BY <1>2 DEF Activate, Save
  <2>2. /\ hevent[h].of \in Checkout /\ stripe[hevent[h].of].status # "none"
        /\ provider[hevent[h].of] # "none"
    BY <2>1, HandlerShape, EventOfPaid DEF HandlerInv, StepInv
  <2>3. subscription'.status # "canceled"
    BY <2>1 DEF Activated
  <2>4. QED
    BY <1>1, <2>1, <2>2, <2>3 DEF PaidPlanIsBacked
<1>3. CASE Downgrade(h) /\ subscription' = Downgraded
  <2>1. subscription'.plan = "free" /\ subscription'.cancel = FALSE
    BY <1>3 DEF Downgraded
  <2>2. QED
    BY <2>1 DEF PaidPlanIsBacked
<1>4. CASE MarkPastDue(h)
  <2>0. subscription \in SubscriptionRow
    BY <1>4 DEF MarkPastDue, HandlerInv, StepInv, TypeOK
  <2>1. subscription'.plan = subscription.plan /\ subscription'.status = "past_due"
    BY <1>4, <2>0 DEF MarkPastDue, PastDue, SubscriptionRow
  <2>2. provider' = provider
    BY <1>4 DEF MarkPastDue
  <2>3. QED
    BY <1>1, <2>1, <2>2 DEF PaidPlanIsBacked
<1>5. CASE subscription' = subscription
  <2>1. \A c \in Checkout : provider[c] # "none" => provider'[c] # "none"
    BY RowsStay
  <2>2. QED
    BY <1>1, <1>5, <2>1 DEF PaidPlanIsBacked
<1>6. QED
  BY <1>2, <1>3, <1>4, <1>5 DEF HandlerStep, HandlerNext, Route, FindOpen, InsertRow, EndRow,
     HandlerDies, Downgrade, Save, localRows

LEMMA BackedApart ==
    ASSUME PaidPlanIsBacked, StripeInv, StripeInv', sent \subseteq sent',
           UNCHANGED <<subscription, provider>>
    PROVE  PaidPlanIsBacked'
<1>1. subscription' = subscription /\ provider' = provider
  OBVIOUS
<1>2. \A c \in Checkout : stripe[c].status # "none" => stripe'[c].status # "none"
  BY PaidStays
<1>3. QED
  BY <1>1, <1>2 DEF PaidPlanIsBacked

-----------------------------------------------------------------------------
(* The customers at Stripe.                                                *)

LEMMA CustomersStay ==
    ASSUME TypeOK, CustomersCounted, stripeCustomers' = stripeCustomers,
           failures' = failures \/ failures' = failures + 1,
           Creating => Creating' \/ failures' = failures + 1
    PROVE  CustomersCounted'
<1>1. failures \in Nat
  <2>1. failures \in 0..MaxFailures
    BY DEF TypeOK
  <2>2. QED
    BY <2>1, Constants
<1>2. Cardinality(stripeCustomers) \in Nat
  BY FS_CardinalityType DEF CustomersCounted
<1>3. Cardinality(stripeCustomers) <= failures + (IF Creating THEN 1 ELSE 0)
  BY DEF CustomersCounted
<1>4. PICK before \in BOOLEAN : before <=> Creating
  OBVIOUS
<1>5. PICK after \in BOOLEAN : after <=> Creating'
  OBVIOUS
<1>6. Cardinality(stripeCustomers) <= failures' + (IF after THEN 1 ELSE 0)
  BY <1>1, <1>2, <1>3, <1>4, <1>5
<1>7. QED
  BY <1>5, <1>6 DEF CustomersCounted

LEMMA CustomersByRequest ==
    ASSUME TypeOK, CustomerInv, CustomersCounted, NEW c \in Checkout, Requests(c)
    PROVE  CustomerInv' /\ CustomersCounted'
<1>0. c # NoOne /\ cpc \in [Checkout -> CheckoutState]
  BY Constants DEF TypeOK, CheckoutState
<1>1. CASE CheckPlan(c) \/ FindCustomer(c) \/ CreateSession(c)
  <2>1. /\ UNCHANGED <<customer, inserting, stripeCustomers, failures>>
        /\ cpc[c] \notin {"create", "save"}
        /\ \E step \in {"refused", "customer", "session", "insert", "open", "failed"} :
              cpc' = [cpc EXCEPT ![c] = step]
    BY <1>1 DEF CheckPlan, FindCustomer, CreateSession, CGoto, bounds
  <2>2. \A d \in Checkout : /\ cpc'[d] = "create" <=> cpc[d] = "create"
                            /\ cpc'[d] = "save" <=> cpc[d] = "save"
    BY <1>0, <2>1
  <2>3. Creating => Creating'
    BY <2>1, <2>2 DEF Creating
  <2>4. QED
    BY <2>1, <2>2, <2>3, CustomersStay DEF CustomerInv
<1>2. CASE InsertCustomer(c)
  <2>1. /\ cpc[c] = "insert" /\ inserting = NoOne
        /\ UNCHANGED <<customer, stripeCustomers, failures>>
        /\ \/ customer # NoOne /\ inserting' = inserting /\ cpc' = [cpc EXCEPT ![c] = "failed"]
           \/ customer = NoOne /\ inserting' = c /\ cpc' = [cpc EXCEPT ![c] = "create"]
    BY <1>2 DEF InsertCustomer, MayInsert, CGoto, bounds
  <2>2. \A d \in Checkout : /\ cpc'[d] = "create" <=> inserting' = d
                            /\ cpc'[d] # "save" /\ cpc[d] # "save"
    BY <1>0, <2>1, Constants DEF CustomerInv
  <2>3. Creating => Creating'
    BY <2>1, <2>2 DEF Creating
  <2>4. CustomerInv'
    BY <2>1, <2>2 DEF CustomerInv
  <2>5. QED
    BY <2>1, <2>3, <2>4, CustomersStay
<1>3. CASE CreateCustomer(c)
  <2>1. /\ cpc[c] = "create" /\ cpc' = [cpc EXCEPT ![c] = "save"]
        /\ stripeCustomers' = stripeCustomers \cup {c}
        /\ customer' = customer /\ inserting' = inserting /\ failures' = failures
    BY <1>3 DEF CreateCustomer, CGoto, bounds
  <2>2. inserting = c /\ customer = NoOne
    BY <1>0, <2>1 DEF CustomerInv
  <2>3. cpc'[c] = "save" /\ \A d \in Checkout : d # c => cpc'[d] = cpc[d]
    BY <1>0, <2>1
  <2>4. CustomerInv'
    BY <2>1, <2>2, <2>3 DEF CustomerInv
  <2>5. ~Creating /\ Creating'
    BY <2>1, <2>2, <2>3 DEF CustomerInv, Creating
  <2>6. Cardinality(stripeCustomers) <= failures + 0 /\ IsFiniteSet(stripeCustomers)
    BY <2>5 DEF CustomersCounted
  <2>7. /\ IsFiniteSet(stripeCustomers')
        /\ \/ Cardinality(stripeCustomers') = Cardinality(stripeCustomers)
           \/ Cardinality(stripeCustomers') = Cardinality(stripeCustomers) + 1
    BY <2>1, <2>6, FS_AddElement
  <2>8. failures \in 0..MaxFailures
    BY DEF TypeOK
  <2>9. Cardinality(stripeCustomers') <= failures + 1
    BY <2>6, <2>7, <2>8, Constants, FS_CardinalityType
  <2>10. QED
    BY <2>1, <2>4, <2>5, <2>7, <2>9 DEF CustomersCounted
<1>4. CASE SaveCustomer(c)
  <2>1. /\ cpc[c] = "save" /\ cpc' = [cpc EXCEPT ![c] = "session"]
        /\ customer' = c /\ inserting' = NoOne
        /\ stripeCustomers' = stripeCustomers /\ failures' = failures
    BY <1>4 DEF SaveCustomer, CGoto, bounds
  <2>2. inserting = c
    BY <1>0, <2>1 DEF CustomerInv
  <2>3. \A d \in Checkout : cpc'[d] \notin {"create", "save"}
    BY <1>0, <2>1, <2>2 DEF CustomerInv
  <2>4. CustomerInv'
    BY <2>1, <2>3, Constants DEF CustomerInv
  <2>5. Creating'
    BY <1>0, <2>1 DEF Creating
  <2>6. QED
    BY <2>1, <2>4, <2>5, CustomersStay
<1>5. CASE CheckoutFails(c)
  <2>1. /\ cpc' = [cpc EXCEPT ![c] = "failed"]
        /\ inserting' = (IF inserting = c THEN NoOne ELSE inserting)
        /\ customer' = customer /\ stripeCustomers' = stripeCustomers
        /\ failures' = failures + 1
    BY <1>5 DEF CheckoutFails, CGoto
  <2>2. cpc'[c] = "failed" /\ \A d \in Checkout : d # c => cpc'[d] = cpc[d]
    BY <1>0, <2>1
  <2>3. CustomerInv'
    BY <1>0, <2>1, <2>2, Constants DEF CustomerInv
  <2>4. QED
    BY <2>1, <2>3, CustomersStay
<1>6. QED
  BY <1>1, <1>2, <1>3, <1>4, <1>5 DEF Requests, CheckoutNext

LEMMA CustomersByStripe ==
    ASSUME TypeOK, CustomerInv, CustomersCounted, NEW c \in Checkout, Pay(c) \/ ChangeAtStripe(c)
    PROVE  CustomerInv' /\ CustomersCounted'
<1>1. /\ customer' = customer /\ inserting' = inserting
      /\ stripeCustomers' = stripeCustomers /\ failures' = failures
  BY DEF Pay, ChangeAtStripe, checkoutVars, bounds
<1>2. \A d \in Checkout : /\ cpc'[d] = "create" <=> cpc[d] = "create"
                          /\ cpc'[d] = "save" <=> cpc[d] = "save"
  BY DEF Pay, ChangeAtStripe, checkoutVars, CGoto, TypeOK
<1>3. Creating => Creating'
  BY <1>1, <1>2 DEF Creating
<1>4. QED
  BY <1>1, <1>2, <1>3, CustomersStay DEF CustomerInv

LEMMA CustomersApart ==
    ASSUME TypeOK, CustomerInv, CustomersCounted, UNCHANGED checkoutVars,
           failures' = failures \/ failures' = failures + 1
    PROVE  CustomerInv' /\ CustomersCounted'
<1>1. /\ customer' = customer /\ inserting' = inserting
      /\ stripeCustomers' = stripeCustomers /\ cpc' = cpc
  BY DEF checkoutVars
<1>2. Creating => Creating'
  BY <1>1 DEF Creating
<1>3. QED
  BY <1>1, <1>2, CustomersStay DEF CustomerInv

-----------------------------------------------------------------------------
(* Events that come one at a time.                                         *)

LEMMA SerialByHandler ==
    ASSUME TypeOK, HandlerInv, SerialInv, NEW h \in Handler, HandlerStep(h)
    PROVE  SerialInv'
<1>1. hpc[h] # "idle" /\ \A g \in Handler : g # h => hpc[g] = "idle" /\ hpc'[g] = "idle"
  BY HandlerShape, OtherHandlers DEF SerialInv
<1>2. \A f, g \in Handler : hpc'[f] # "idle" /\ hpc'[g] # "idle" => f = g
  BY <1>1
<1>3. ASSUME NEW found, hpc'[h] = "insert" => hfound'[h] = found,
             \A c \in OpenRows' : hpc'[h] = "insert" => c = found,
             \A c, d \in OpenRows' : c = d
      PROVE  SerialInv'
  <2>1. \A g \in Handler : hpc'[g] = "insert" => g = h
    BY <1>1
  <2>2. \A g \in Handler : hpc'[g] = "insert" => \A c \in OpenRows' : c = hfound'[g]
    BY <1>3, <2>1
  <2>3. QED
    BY <1>2, <1>3, <2>2 DEF SerialInv, OneRow
<1>4. CASE FindOpen(h)
  <2>1. provider' = provider /\ OpenRows' = OpenRows
    BY <1>4 DEF FindOpen, OpenRows, localRows
  <2>2. \A c \in OpenRows : c = hfound'[h]
    <3>1. CASE OpenRows = {}
      BY <3>1
    <3>2. CASE OpenRows # {}
      <4>1. PICK d \in OpenRows : hfound' = [hfound EXCEPT ![h] = d]
        BY <1>4, <3>2 DEF FindOpen
      <4>2. hfound'[h] = d
        BY <4>1 DEF TypeOK
      <4>3. QED
        BY <4>2 DEF SerialInv, OneRow
    <3>3. QED
      BY <3>1, <3>2
  <2>3. QED
    BY <1>3, <2>1, <2>2 DEF SerialInv, OneRow
<1>5. CASE InsertRow(h)
  <2>1. CASE provider[hevent[h].of] = "none"
    <3>1. /\ provider' = [Superseded(hfound[h]) EXCEPT ![hevent[h].of] = "open"]
          /\ hpc' = [hpc EXCEPT ![h] = "activate"] /\ hpc[h] = "insert"
      BY <1>5, <2>1 DEF InsertRow, HGoto
    <3>2. \A c \in OpenRows : c = hfound[h]
      BY <3>1 DEF SerialInv
    <3>3. \A c \in Checkout : provider'[c] = "open" => c = hevent[h].of
      BY <3>1, <3>2 DEF Superseded, OpenRows
    <3>4. hpc'[h] # "insert"
      BY <3>1 DEF TypeOK
    <3>5. \A c \in OpenRows' : c = hevent[h].of
      BY <3>3 DEF OpenRows
    <3>6. QED
      BY <1>3, <3>4, <3>5
  <2>2. CASE provider[hevent[h].of] # "none"
    <3>1. hpc' = [hpc EXCEPT ![h] = "idle"] /\ provider' = provider
      BY <1>5, <2>2 DEF InsertRow, Fail, EndRequest, HGoto
    <3>2. hpc'[h] = "idle"
      BY <3>1 DEF TypeOK
    <3>3. OpenRows' = OpenRows
      BY <3>1 DEF OpenRows
    <3>4. QED
      BY <1>3, <3>2, <3>3 DEF SerialInv, OneRow
  <2>3. QED
    BY <2>1, <2>2
<1>6. CASE Route(h) \/ Activate(h) \/ EndRow(h) \/ Downgrade(h) \/ MarkPastDue(h)
              \/ HandlerDies(h)
  <2>1. OpenRows' \subseteq OpenRows
    BY <1>6 DEF Route, Activate, EndRow, Downgrade, MarkPastDue, HandlerDies, localRows, OpenRows,
                TypeOK
  <2>2. hpc'[h] # "insert"
    <3>1. CASE EndRequest(h)
      BY <3>1 DEF EndRequest, HGoto, TypeOK
    <3>2. CASE Route(h) /\ ~EndRequest(h)
      <4>1. hevent[h].kind \in Kind
        BY HandlerShape DEF Event
      <4>2. \/ HGoto(h, "find open") \/ HGoto(h, "activate") \/ HGoto(h, "end")
            \/ HGoto(h, "past due")
        BY <3>2, <4>1 DEF Route, Forget, Acknowledge, FirstStep, Kind
      <4>3. QED
        BY <4>2 DEF HGoto, TypeOK
    <3>3. CASE EndRow(h)
      BY <3>3 DEF EndRow, HGoto, TypeOK
    <3>4. QED
      BY <1>6, <3>1, <3>2, <3>3 DEF Activate, Downgrade, MarkPastDue, HandlerDies, Acknowledge,
                                    Fail, Forget
  <2>3. QED
    BY <1>3, <2>1, <2>2 DEF SerialInv, OneRow
<1>7. QED
  BY <1>4, <1>5, <1>6 DEF HandlerStep, HandlerNext

LEMMA SerialByReceive ==
    ASSUME TypeOK, SerialInv, InOrder, NEW h \in Handler, NEW event \in sent, Receive(h, event)
    PROVE  SerialInv'
<1>1. /\ \A g \in Handler : hpc[g] = "idle"
      /\ hpc' = [hpc EXCEPT ![h] = "route"]
      /\ provider' = provider
  BY DEF Receive, HGoto, localRows
<1>2. \A g \in Handler : hpc'[g] = IF g = h THEN "route" ELSE "idle"
  BY <1>1 DEF TypeOK
<1>3. OpenRows' = OpenRows
  BY <1>1 DEF OpenRows
<1>4. QED
  BY <1>2, <1>3 DEF SerialInv, OneRow

LEMMA SerialApart ==
    ASSUME SerialInv, UNCHANGED <<provider, handlerVars>>
    PROVE  SerialInv'
  BY DEF SerialInv, OneRow, OpenRows, handlerVars

-----------------------------------------------------------------------------
(* The plan follows the answered events.                                   *)

LEMMA Numbers ==
    ASSUME TypeOK, NEW e \in sent
    PROVE  e.n \in Nat /\ e.of \in Checkout /\ e.kind \in Kind /\ e.cancel \in BOOLEAN /\ e \in Event
  BY DEF TypeOK, Event

\* An answer that changes no plan.
LEMMA SavedAside ==
    ASSUME TypeOK, SavedInv, UNCHANGED <<last, newest>>, sent \subseteq sent',
           sent' \ (pending' \cup ignored') \subseteq
               {e \in sent : e \notin pending \cup ignored \/ e.kind = "payment failed"},
           subscription'.plan = subscription.plan, subscription'.cancel = subscription.cancel
    PROVE  SavedInv'
<1>1. \A e : SavedFrom(e)' <=> SavedFrom(e)
  BY DEF SavedFrom
<1>2. \A e \in sent' \ (pending' \cup ignored') : e.kind # "payment failed" =>
          e \in sent \ (pending \cup ignored)
  OBVIOUS
<1>3. QED
  BY <1>1, <1>2 DEF SavedInv

\* The plan is saved from the event that is answered.
LEMMA SavedByEvent ==
    ASSUME TypeOK, SavedInv, NEW h \in Handler, NEW e \in sent, e = hevent[h], NEW row,
           Save(row, hevent[h]), Acknowledge(h), sent' = sent, SavedFrom(e)'
    PROVE  SavedInv'
<1>1. /\ newest' = (IF e.n > newest THEN e.n ELSE newest)
      /\ last' = e.n
      /\ ignored' = ignored /\ pending' = pending \ {e}
  BY DEF Save, Acknowledge
<1>2. newest \in Nat /\ \A f \in sent : f.n \in Nat
  BY Numbers DEF TypeOK
<1>3. newest' \in Nat /\ newest <= newest' /\ e.n <= newest'
  BY <1>1, <1>2
<1>4. ASSUME NEW f \in sent' \ (pending' \cup ignored'), f.kind # "payment failed"
      PROVE  f.n <= newest'
  <2>1. CASE f = e
    BY <1>3, <2>1
  <2>2. CASE f # e
    <3>1. f \in sent \ (pending \cup ignored)
      BY <1>1, <1>4, <2>2
    <3>2. f.n <= newest
      BY <1>4, <3>1 DEF SavedInv
    <3>3. QED
      BY <1>2, <1>3, <3>1, <3>2
  <2>3. QED
    BY <2>1, <2>2
<1>5. QED
  BY <1>1, <1>4 DEF SavedInv

LEMMA SavedByHandler ==
    ASSUME TypeOK, HandlerInv, SavedInv, NEW h \in Handler, HandlerStep(h)
    PROVE  SavedInv'
<1>1. /\ sent' = sent /\ hpc[h] # "idle"
      /\ hevent[h] \in sent /\ hevent[h] \in Event /\ StepInv(h)
  BY HandlerShape, HandlerApart DEF Apart, stripeVars, HandlerInv
<1>2. PICK e \in sent : e = hevent[h]
  BY <1>1
<1>3. CASE Activate(h)
  <2>1. e.kind \in Sets /\ Save(Activated(e), hevent[h]) /\ Acknowledge(h)
    BY <1>1, <1>2, <1>3 DEF Activate, StepInv
  <2>2. SavedFrom(e)'
    BY <2>1 DEF Save, Activated, SavedFrom
  <2>3. QED
    BY <1>1, <1>2, <2>1, <2>2, SavedByEvent
<1>4. CASE Downgrade(h) /\ Save(Downgraded, hevent[h]) /\ Acknowledge(h)
  <2>1. e.kind = "deleted"
    BY <1>1, <1>2, <1>4 DEF Downgrade, StepInv
  <2>2. SavedFrom(e)'
    BY <1>4, <2>1 DEF Save, Downgraded, SavedFrom
  <2>3. QED
    BY <1>1, <1>2, <1>4, <2>2, SavedByEvent
<1>5. CASE Forget(h) /\ subscription' = subscription
  BY <1>1, <1>5, SavedAside DEF Forget, Acknowledge
<1>6. CASE MarkPastDue(h)
  <2>1. /\ hevent[h].kind = "payment failed" /\ subscription \in SubscriptionRow
        /\ pending' = pending \ {hevent[h]} /\ observed' = observed /\ subscription' = PastDue
    BY <1>1, <1>6 DEF MarkPastDue, Acknowledge, StepInv, TypeOK
  <2>2. subscription'.plan = subscription.plan /\ subscription'.cancel = subscription.cancel
    BY <2>1 DEF PastDue, SubscriptionRow
  <2>3. QED
    BY <1>1, <2>1, <2>2, SavedAside DEF observed
<1>7. CASE pending' = pending /\ observed' = observed /\ subscription' = subscription
  BY <1>1, <1>7, SavedAside DEF observed
<1>8. QED
  BY <1>3, <1>4, <1>5, <1>6, <1>7 DEF HandlerStep, HandlerNext, Route, FindOpen, InsertRow, EndRow,
     HandlerDies, Downgrade, Fail, Save, localRows

\* Stripe sends an event, which is pending.
LEMMA SavedByStripe ==
    ASSUME TypeOK, SavedInv, NEW kind, NEW c, NEW cancel, Emit(kind, c, cancel),
           UNCHANGED <<localRows, observed>>
    PROVE  SavedInv'
<1>1. /\ sent \subseteq sent' /\ sent' \ pending' \subseteq sent \ pending
      /\ ignored' = ignored /\ newest' = newest /\ last' = last
      /\ subscription' = subscription
  BY DEF Emit, observed, localRows
<1>2. QED
  BY <1>1, SavedAside

LEMMA SavedApart ==
    ASSUME TypeOK, SavedInv, UNCHANGED <<sent, pending, localRows, observed>>
    PROVE  SavedInv'
<1>1. /\ sent' = sent /\ pending' = pending /\ ignored' = ignored
      /\ newest' = newest /\ last' = last /\ subscription' = subscription
  BY DEF observed, localRows
<1>2. QED
  BY <1>1, SavedAside

\* Subscriptions that do not overlap follow each other.
LEMMA OneAfterTheOther ==
    ASSUME TypeOK, HistoryInv, ~Overlapped, NEW a \in sent, NEW b \in sent,
           a.kind = "created", b.kind = "created", a.n < b.n
    PROVE  \E x \in sent : x.kind = "deleted" /\ x.of = a.of /\ x.n <= b.n
<1>1. PICK x \in sent : x.of = a.of /\ x.kind = "deleted" /\ ~(x.n > b.n)
  BY DEF Overlapped
<1>2. x.n <= b.n
  BY <1>1, Numbers
<1>3. QED
  BY <1>1, <1>2

\* Of two numbers one is the smaller, and only equal ones are each the smaller.
LEMMA Order ==
    ASSUME NEW i \in Nat, NEW j \in Nat
    PROVE  /\ i <= j /\ j <= i => i = j
           /\ i # j => i < j \/ j < i
  OBVIOUS

\* The subscription of Stripe's last event that tells of the plan is the only one
\* that may live, and it lives unless the event deleted it.
LEMMA LastTells ==
    ASSUME TypeOK, HistoryInv, ~Overlapped, NEW e \in sent, e.kind # "payment failed",
           \A f \in sent : f.kind # "payment failed" => f.n <= e.n
    PROVE  \A d : Began(sent, d) /\ ~Ended(sent, d) <=> d = e.of /\ e.kind # "deleted"
<1>0. \A f \in sent : f.n \in Nat
  BY Numbers
<1>1. PICK b \in sent : b.kind = "created" /\ b.of = e.of /\ b.n <= e.n
  BY DEF HistoryInv
<1>2. ASSUME NEW x \in sent, x.kind = "deleted", x.of = e.of
      PROVE  x = e
  <2>1. e.n <= x.n /\ x.n <= e.n
    BY <1>2 DEF HistoryInv
  <2>2. e.n \in Nat /\ x.n \in Nat
    BY <1>0, <1>2
  <2>3. e.n = x.n
    BY <2>1, <2>2, Order
  <2>4. QED
    BY <1>2, <2>3 DEF HistoryInv
<1>3. ASSUME NEW d, d # e.of, Began(sent, d)
      PROVE  Ended(sent, d)
  <2>1. PICK a \in sent : a.kind = "created" /\ a.of = d
    BY <1>3 DEF Began
  <2>2. a.n # b.n /\ a.n # e.n /\ a.n <= e.n
    BY <1>1, <1>3, <2>1 DEF HistoryInv
  <2>3. CASE a.n < b.n
    BY <1>1, <2>1, <2>3, OneAfterTheOther DEF Ended
  <2>4. CASE b.n < a.n
    <3>1. PICK x \in sent : x.kind = "deleted" /\ x.of = e.of /\ x.n <= a.n
      BY <1>1, <2>1, <2>4, OneAfterTheOther
    <3>2. e.n <= a.n
      BY <1>2, <3>1
    <3>3. a.n \in Nat /\ e.n \in Nat
      BY <1>0, <2>1
    <3>4. QED
      BY <2>2, <3>2, <3>3, Order
  <2>5. a.n \in Nat /\ b.n \in Nat
    BY <1>0, <1>1, <2>1
  <2>6. QED
    BY <2>2, <2>3, <2>4, <2>5, Order
<1>4. Began(sent, e.of) /\ (Ended(sent, e.of) <=> e.kind = "deleted")
  BY <1>1, <1>2 DEF Began, Ended
<1>5. QED
  BY <1>3, <1>4

-----------------------------------------------------------------------------
(* The inductive invariant holds.                                          *)

LEMMA InitIInv ==
    ASSUME Init
    PROVE  IInv
<1>1. /\ 0 \in 0..MaxChanges /\ 0 \in 0..MaxDuplicates /\ 0 \in 0..MaxFailures
  BY Constants
<1>2. /\ subscription \in SubscriptionRow \cup {NoSubscription}
      /\ subscription.plan # "pro" /\ subscription.status # "canceled"
  BY MissingRow DEF Init
<1>3. /\ [status |-> "none", cancel |-> FALSE] \in [status: StripeStatus, cancel: BOOLEAN]
  BY DEF StripeStatus
<1>4. TypeOK
  BY <1>1, <1>2, <1>3 DEF Init, TypeOK
<1>5. HandlerInv
  BY DEF Init, HandlerInv, StepInv
<1>6. HistoryInv
  BY FS_EmptySet DEF Init, HistoryInv
<1>7. StripeInv
  BY DEF Init, StripeInv, StripeOf, Began, Ended
<1>8. PaidPlanIsBacked
  BY <1>2 DEF Init, PaidPlanIsBacked
<1>9. CustomerInv
  BY Constants DEF Init, CustomerInv
<1>10. CustomersCounted
  <2>1. ~Creating /\ stripeCustomers = {} /\ failures = 0
    BY DEF Init, Creating
  <2>2. IsFiniteSet(stripeCustomers) /\ Cardinality(stripeCustomers) = 0
    BY <2>1, FS_EmptySet
  <2>3. QED
    BY <2>1, <2>2 DEF CustomersCounted
<1>11. SerialInv
  BY DEF Init, SerialInv, OneRow, OpenRows
<1>12. RowInv /\ SavedInv
  BY <1>2 DEF Init, RowInv, SavedInv
<1>13. QED
  BY <1>4, <1>5, <1>6, <1>7, <1>8, <1>9, <1>10, <1>11, <1>12 DEF IInv

LEMMA NextIInv ==
    ASSUME IInv, [Next]_vars
    PROVE  IInv'
<1> USE DEF IInv
<1>1. ASSUME NEW c \in Checkout, Requests(c)
      PROVE  IInv'
  <2>1. /\ UNCHANGED <<subscription, provider, pending, handlerVars>>
        /\ sent' = sent /\ hpc' = hpc /\ hevent' = hevent /\ UNCHANGED <<localRows, observed>>
    BY <1>1, RequestShape DEF Aside, stripeVars, handlerVars, localRows
  <2>2. TypeOK'
    BY <1>1, RequestType
  <2>3. HandlerInv'
    BY <2>1, HandlersApart
  <2>4. HistoryInv' /\ StripeInv'
    BY <1>1, RequestHistory
  <2>5. PaidPlanIsBacked'
    BY <2>1, <2>4, BackedApart
  <2>6. CustomerInv' /\ CustomersCounted'
    BY <1>1, CustomersByRequest
  <2>7. InOrder => SerialInv'
    BY <2>1, SerialApart
  <2>8. RowInv' /\ SavedInv'
    BY <2>1, SavedApart DEF RowInv
  <2>9. QED
    BY <2>2, <2>3, <2>4, <2>5, <2>6, <2>7, <2>8
<1>2. ASSUME NEW c \in Checkout, Pay(c) \/ ChangeAtStripe(c)
      PROVE  IInv'
  <2>1. /\ UNCHANGED <<subscription, provider, handlerVars>> /\ hpc' = hpc /\ hevent' = hevent
        /\ UNCHANGED <<localRows, observed>>
    BY <1>2 DEF Pay, ChangeAtStripe, handlerVars, localRows
  <2>2. PICK kind \in Kind, cancel \in BOOLEAN : Emit(kind, c, cancel)
    <3>1. CASE Pay(c)
      BY <3>1 DEF Pay, Kind
    <3>2. CASE ChangeAtStripe(c)
      <4>1. (~stripe[c].cancel) \in BOOLEAN
        BY DEF TypeOK
      <4>2. QED
        BY <3>2, <4>1 DEF ChangeAtStripe, Kind
    <3>3. QED
      BY <1>2, <3>1, <3>2
  <2>3. sent \subseteq sent'
    BY <2>2 DEF Emit
  <2>4. TypeOK'
    BY <1>2, StripeType
  <2>5. HandlerInv'
    BY <2>1, <2>3, HandlersApart
  <2>6. HistoryInv' /\ StripeInv'
    BY <1>2, PayHistory, ChangeHistory
  <2>7. PaidPlanIsBacked'
    BY <2>1, <2>3, <2>6, BackedApart
  <2>8. CustomerInv' /\ CustomersCounted'
    BY <1>2, CustomersByStripe
  <2>9. InOrder => SerialInv'
    BY <2>1, SerialApart
  <2>10. RowInv' /\ SavedInv'
    BY <2>1, <2>2, SavedByStripe DEF RowInv
  <2>11. QED
    BY <2>4, <2>5, <2>6, <2>7, <2>8, <2>9, <2>10
<1>3. ASSUME NEW h \in Handler, HandlerStep(h)
      PROVE  IInv'
  <2>1. /\ UNCHANGED <<stripe, sent, cpc>> /\ UNCHANGED checkoutVars
        /\ failures' = failures \/ failures' = failures + 1
    BY <1>3, HandlerApart DEF Apart, stripeVars, checkoutVars, HandlerStep, HandlerNext,
       HandlerDies, Route, FindOpen, InsertRow, Activate, EndRow, Downgrade, MarkPastDue, bounds
  <2>2. TypeOK'
    BY <1>3, HandlerType
  <2>3. HandlerInv'
    BY <1>3, HandlersKept
  <2>4. HistoryInv' /\ StripeInv'
    BY <2>1, HistoryApart
  <2>5. PaidPlanIsBacked'
    BY <1>3, BackedByHandler
  <2>6. CustomerInv' /\ CustomersCounted'
    BY <2>1, CustomersApart
  <2>7. InOrder => SerialInv'
    BY <1>3, SerialByHandler
  <2>8. RowInv' /\ SavedInv'
    BY <1>3, RowAppears, SavedByHandler
  <2>9. QED
    BY <2>2, <2>3, <2>4, <2>5, <2>6, <2>7, <2>8
<1>4. ASSUME NEW h \in Handler, NEW event \in sent, Receive(h, event)
      PROVE  IInv'
  <2>1. /\ UNCHANGED <<stripe, sent, cpc>> /\ UNCHANGED checkoutVars
        /\ failures' = failures /\ sent \subseteq sent'
        /\ UNCHANGED <<subscription, provider, pending, localRows, observed>>
    BY <1>4 DEF Receive, stripeVars, checkoutVars, localRows
  <2>2. TypeOK'
    BY <1>4, ReceiveType
  <2>3. HandlerInv'
    BY <1>4, ReceiveHandlers
  <2>4. HistoryInv' /\ StripeInv'
    BY <2>1, HistoryApart
  <2>5. PaidPlanIsBacked'
    BY <2>1, <2>4, BackedApart
  <2>6. CustomerInv' /\ CustomersCounted'
    BY <2>1, CustomersApart
  <2>7. InOrder => SerialInv'
    BY <1>4, SerialByReceive
  <2>8. RowInv' /\ SavedInv'
    BY <2>1, SavedApart DEF RowInv
  <2>9. QED
    BY <2>2, <2>3, <2>4, <2>5, <2>6, <2>7, <2>8
<1>5. CASE UNCHANGED vars
  <2>1. /\ UNCHANGED <<stripe, sent, cpc, hpc, hevent, subscription, provider, pending>>
        /\ UNCHANGED checkoutVars /\ UNCHANGED handlerVars /\ failures' = failures
        /\ sent \subseteq sent' /\ UNCHANGED <<localRows, observed>>
    BY <1>5 DEF vars, stripeVars, checkoutVars, handlerVars, bounds, localRows
  <2>2. TypeOK'
    BY <1>5 DEF vars, stripeVars, checkoutVars, handlerVars, bounds, localRows, observed, TypeOK
  <2>3. HandlerInv'
    BY <2>1, HandlersApart
  <2>4. HistoryInv' /\ StripeInv'
    BY <2>1, HistoryApart
  <2>5. PaidPlanIsBacked'
    BY <2>1, <2>4, BackedApart
  <2>6. CustomerInv' /\ CustomersCounted'
    BY <2>1, CustomersApart
  <2>7. InOrder => SerialInv'
    BY <2>1, SerialApart
  <2>8. RowInv' /\ SavedInv'
    BY <2>1, SavedApart DEF RowInv
  <2>9. QED
    BY <2>2, <2>3, <2>4, <2>5, <2>6, <2>7, <2>8
<1>6. QED
  BY <1>1, <1>2, <1>3, <1>4, <1>5 DEF Next, Requests, HandlerStep

\* Every reachable state satisfies the inductive invariant; the theorems below
\* follow from it.
THEOREM IInvHolds == Spec => []IInv
<1>1. Init => IInv
  BY InitIInv
<1>2. IInv /\ [Next]_vars => IInv'
  BY NextIInv
<1>3. QED
  BY <1>1, <1>2, PTL DEF Spec

-----------------------------------------------------------------------------
(* The theorems.                                                           *)

\* Every variable stays within its type: the handlers save no plan and no status
\* but those of the model, and work on events that Stripe has sent.
THEOREM TypeCorrect == Spec => []TypeOK
<1>1. IInv => TypeOK
  BY DEF IInv
<1>2. QED
  BY <1>1, IInvHolds, PTL

\* Whatever is lost, repeated, reordered or killed, a user holds Pro only with a
\* recorded subscription that was paid, and never while the subscription reads
\* canceled (the handlers of apps/billing, whose saves commit one by one).
THEOREM PaidPlanIsBackedHolds == Spec => []PaidPlanIsBacked
<1>1. IInv => PaidPlanIsBacked
  BY DEF IInv
<1>2. QED
  BY <1>1, IInvHolds, PTL

\* Stripe has at most one customer of the user more than processes were killed
\* and calls failed, however many checkouts run at once
\* (billing_customer_get_or_create_stripe under its unique index).
THEOREM CustomersByFailures == Spec => [](Cardinality(stripeCustomers) <= failures + 1)
<1>1. IInv => Cardinality(stripeCustomers) <= failures + 1
  <2>1. SUFFICES ASSUME IInv
                 PROVE  Cardinality(stripeCustomers) <= failures + 1
    OBVIOUS
  <2>2. failures \in 0..MaxFailures /\ Cardinality(stripeCustomers) \in Nat
    BY <2>1, FS_CardinalityType DEF IInv, TypeOK, CustomersCounted
  <2>3. \/ Cardinality(stripeCustomers) <= failures + 1
        \/ Cardinality(stripeCustomers) <= failures + 0
    BY <2>1 DEF IInv, CustomersCounted
  <2>4. QED
    BY <2>2, <2>3, Constants
<1>2. QED
  BY <1>1, IInvHolds, PTL

\* Without failures the user has one Stripe customer.
THEOREM OneStripeCustomerHolds ==
    ASSUME MaxFailures = 0
    PROVE  Spec => []OneStripeCustomer
<1>1. TypeOK /\ Cardinality(stripeCustomers) <= failures + 1 => OneStripeCustomer
  <2>1. ASSUME TypeOK, Cardinality(stripeCustomers) <= failures + 1
        PROVE  OneStripeCustomer
    <3>1. failures \in 0..MaxFailures
      BY <2>1 DEF TypeOK
    <3>2. failures = 0
      BY <3>1
    <3>3. QED
      BY <2>1, <3>2 DEF OneStripeCustomer
  <2>2. QED
    BY <2>1
<1>2. QED
  BY <1>1, TypeCorrect, CustomersByFailures, PTL

\* When events come one at a time and in order, even if handlers are killed and
\* events repeated, one ProviderSubscription row is open at most
\* (provider_subscription_create ends the one it found).
THEOREM OneOpenRowHolds ==
    ASSUME InOrder
    PROVE  Spec => []OneOpenRow
<1>1. IInv => OneOpenRow
  <2>1. SUFFICES ASSUME IInv
                 PROVE  OneOpenRow
    OBVIOUS
  <2>2. \A c, d \in OpenRows : c = d
    BY <2>1 DEF IInv, SerialInv, OneRow
  <2>3. CASE OpenRows = {}
    BY <2>3, FS_EmptySet DEF OneOpenRow
  <2>4. CASE OpenRows # {}
    <3>1. PICK c : OpenRows = {c}
      BY <2>2, <2>4
    <3>2. QED
      BY <3>1, FS_Singleton DEF OneOpenRow
  <2>5. QED
    BY <2>3, <2>4
<1>2. QED
  BY <1>1, IInvHolds, PTL

\* Whenever every event is answered, the user has the plan and the cancellation flag
\* of the subscription that lives at Stripe, for any number of subscriptions one
\* after the other, whatever was killed between two saves, reordered or repeated;
\* unless an event newer than the row was answered with a warning, or an older one
\* was saved after it (the handlers of apps/billing answer only after their saves).
THEOREM InSyncHolds == Spec => []InSync
<1>1. IInv => InSync
  <2>1. SUFFICES ASSUME IInv, Quiet, ~Overlapped, UpToDate
                 PROVE  /\ subscription.plan = "pro" <=> \E c \in Checkout : Live(c)
                        /\ \A c \in Checkout : Live(c) => subscription.cancel = stripe[c].cancel
    BY DEF InSync
  <2> USE <2>1 DEF IInv
  <2>2. \A e \in sent : e.kind # "payment failed" => e.n <= newest
    BY DEF Quiet, UpToDate, SavedInv
  <2>3. ASSUME NEW c \in Checkout
        PROVE  Live(c) <=> Began(sent, c) /\ ~Ended(sent, c)
    <3>1. stripe[c].status \in StripeStatus /\ StripeOf(c)
      BY DEF TypeOK, StripeInv
    <3>2. QED
      BY <3>1 DEF StripeOf, StripeStatus, Live
  <2>4. CASE last = 0 /\ subscription.plan # "pro"
    <3>1. \A e \in sent : e.kind = "payment failed"
      <4>1. SUFFICES ASSUME NEW e \in sent, e.kind # "payment failed"
                     PROVE  FALSE
        OBVIOUS
      <4>2. e.n <= 0 /\ e.n # 0
        BY <2>2, <2>4, <4>1 DEF HistoryInv, UpToDate
      <4>3. QED
        BY <4>2, Numbers
    <3>2. \A c : ~Began(sent, c)
      BY <3>1 DEF Began
    <3>3. QED
      BY <2>3, <2>4, <3>2
  <2>5. ASSUME NEW e \in sent, e.n = last, SavedFrom(e)
        PROVE  /\ subscription.plan = "pro" <=> \E c \in Checkout : Live(c)
               /\ \A c \in Checkout : Live(c) => subscription.cancel = stripe[c].cancel
    <3>1. /\ e.kind # "payment failed" /\ e.of \in Checkout
          /\ e.kind # "deleted" => /\ e.kind \in Sets /\ subscription.plan = "pro"
                                   /\ subscription.cancel = e.cancel
          /\ e.kind = "deleted" => subscription.plan = "free"
      BY <2>5, Numbers DEF SavedFrom, Sets
    <3>2. \A c \in Checkout : Live(c) <=> c = e.of /\ e.kind # "deleted"
      BY <2>2, <2>3, <2>5, <3>1, LastTells DEF UpToDate
    <3>3. ASSUME NEW c \in Checkout, Live(c)
          PROVE  subscription.cancel = stripe[c].cancel
      <4>1. c = e.of /\ e.kind \in Sets /\ subscription.cancel = e.cancel
        BY <3>1, <3>2, <3>3
      <4>2. LastSays(sent, c, stripe[c].cancel)
        BY <3>3 DEF StripeInv, StripeOf, Live
      <4>3. PICK g \in sent : /\ g.kind \in Sets /\ g.of = c /\ g.cancel = stripe[c].cancel
                              /\ \A f \in sent : f.kind \in Sets /\ f.of = c => f.n <= g.n
        BY <4>2 DEF LastSays
      <4>4. e.n <= g.n /\ g.n <= e.n
        BY <2>2, <2>5, <4>1, <4>3 DEF Sets, UpToDate
      <4>5. e = g
        BY <4>4, Numbers DEF HistoryInv
      <4>6. QED
        BY <4>1, <4>3, <4>5
    <3>4. QED
      BY <3>1, <3>2, <3>3
  <2>6. QED
    BY <2>4, <2>5 DEF SavedInv
<1>2. QED
  BY <1>1, IInvHolds, PTL
=============================================================================
