---------------------------- MODULE StripeBilling ----------------------------
(***************************************************************************)
(* The billing of one user: checkouts that create the Stripe customer, the *)
(* subscriptions paid at Stripe, and the handlers of the events Stripe     *)
(* posts, which keep ProviderSubscription rows and the plan of the local   *)
(* Subscription.  Rows of different users never meet.                      *)
(*                                                                         *)
(* A handler runs in a web request without a transaction of its own: each  *)
(* of its saves commits alone, except provider_subscription_create.        *)
(***************************************************************************)
EXTENDS Naturals, FiniteSets

CONSTANTS
    Checkout,       \* checkout requests; a paid one names its Stripe subscription
    Handler,        \* web processes that receive Stripe events
    MaxChanges,     \* bound on the changes of paid subscriptions at Stripe
    MaxDuplicates,  \* bound on the events Stripe posts once more
    InOrder,        \* whether events come one at a time, in their order
    MaxFailures,    \* bound on the processes killed and Stripe calls failed
    Configured      \* whether the user has a Subscription row, the Free plan is
                    \* active, and the price a session was opened with that of Pro

NoOne == "no one"

ASSUME BillingAssumption ==
    /\ NoOne \notin Checkout
    /\ MaxChanges \in Nat /\ MaxDuplicates \in Nat
    /\ MaxFailures \in Nat /\ InOrder \in BOOLEAN /\ Configured \in BOOLEAN

VARIABLES
    subscription,     \* the Subscription row: plan, status, cancel_at_period_end
    provider,         \* [Checkout -> its ProviderSubscription row]
    customer,         \* provider_customer_id of the committed BillingCustomer, or NoOne
    inserting,        \* the checkout whose INSERT of the BillingCustomer is uncommitted
    stripeCustomers,  \* the customers created at Stripe, named by their checkout
    cpc,              \* [Checkout -> next step of billing_checkout_session_create]
    stripe,           \* [Checkout -> the subscription at Stripe]
    sent, pending,    \* events emitted / not yet answered with 200
    changes, duplicates, failures,  \* the bounded counters
    hpc, hevent, hfound,        \* [Handler -> next step / event / open row it found]
    \* They only observe: the events answered with a warning and no effect, the
    \* number of the event that set the plan last, and of the newest one that has.
    ignored, last, newest

observed     == <<ignored, last, newest>>
localRows    == <<subscription, provider>>
checkoutVars == <<customer, inserting, stripeCustomers, cpc>>
stripeVars   == <<stripe, sent, changes>>
handlerVars  == <<hpc, hevent, hfound>>
bounds       == <<duplicates, failures>>
vars == <<localRows, checkoutVars, stripeVars, pending, bounds, handlerVars, observed>>

-----------------------------------------------------------------------------
(* Rows and events.                                                        *)

SubscriptionRow == [plan: {"free", "pro"}, status: {"active", "past_due", "canceled"},
                    cancel: BOOLEAN]

\* subscription_create_default; who signs up at allauth's own page has no row.
FreeSubscription == [plan |-> "free", status |-> "active", cancel |-> FALSE]
NoSubscription   == [plan |-> "none", status |-> "none", cancel |-> FALSE]

\* subscription_activate_plan of a paid subscription, whatever its status at
\* Stripe, and of an ended one. Only Pro has a price at Stripe.
\* The mutant saves every field but the plan.
PlanNotSaved(event) == [subscription EXCEPT !.status = "active", !.cancel = event.cancel]
Activated(event) == [plan |-> "pro", status |-> "active", cancel |-> event.cancel]
OnlyCanceled     == [subscription EXCEPT !.status = "canceled"]   \* mutant: the plan is kept
Downgraded       == [plan |-> "free", status |-> "canceled", cancel |-> FALSE]

\* subscription_update_status saves the status only; the mutant saves the
\* word of Stripe.
InvoiceStatus == [subscription EXCEPT !.status = "past due"]
PastDue       == [subscription EXCEPT !.status = "past_due"]

Kind  == {"created", "updated", "deleted", "payment failed"}
Event == [kind: Kind, of: Checkout, cancel: BOOLEAN, n: Nat]
NoEvent == [kind |-> "none", of |-> NoOne, cancel |-> FALSE, n |-> 0]

StripeStatus == {"none", "active", "past due", "canceled"}
Live(c)      == stripe[c].status \in {"active", "past due"}

Init ==
    /\ subscription \in {FreeSubscription, NoSubscription}
    /\ Configured => subscription = FreeSubscription
    /\ provider = [c \in Checkout |-> "none"]
    /\ customer = NoOne
    /\ inserting = NoOne
    /\ stripeCustomers = {}
    /\ cpc = [c \in Checkout |-> "idle"]
    /\ stripe = [c \in Checkout |-> [status |-> "none", cancel |-> FALSE]]
    /\ sent = {}
    /\ pending = {}
    /\ changes = 0
    /\ duplicates = 0
    /\ failures = 0
    /\ hpc = [h \in Handler |-> "idle"]
    /\ hevent = [h \in Handler |-> NoEvent]
    /\ hfound = [h \in Handler |-> NoOne]
    /\ ignored = {}
    /\ last = 0
    /\ newest = 0

\* The admin may deactivate and activate the Free plan, and sync_stripe_prices
\* replace the price of Pro, at any time: a query for such a row finds it or not.
Found == IF Configured THEN {TRUE} ELSE BOOLEAN

-----------------------------------------------------------------------------
(* billing_checkout_session_create.                                        *)

CGoto(c, step) == cpc' = [cpc EXCEPT ![c] = step]

CheckPlan(c) ==
    /\ cpc[c] = "idle"
    /\ CGoto(c, IF subscription.plan = "pro" THEN "refused" ELSE "customer")
    /\ UNCHANGED <<localRows, customer, inserting, stripeCustomers, stripeVars, pending,
                   bounds, handlerVars, observed>>

\* billing_customer_get_or_create_stripe: a committed customer always has its
\* id, for the row and the id are committed together.
FindCustomer(c) ==
    /\ cpc[c] = "customer"
    /\ CGoto(c, IF customer # NoOne THEN "session" ELSE "insert")
    /\ UNCHANGED <<localRows, customer, inserting, stripeCustomers, stripeVars, pending, bounds,
                   handlerVars, observed>>

\* The unique index makes the INSERT wait for another one, and fail on its row.
\* The mutant has no such index.
NoIndex   == TRUE
MayInsert == inserting = NoOne

InsertCustomer(c) ==
    /\ cpc[c] = "insert"
    /\ MayInsert
    /\ IF customer # NoOne
       THEN CGoto(c, "failed") /\ UNCHANGED inserting
       ELSE CGoto(c, "create") /\ inserting' = c
    /\ UNCHANGED <<localRows, customer, stripeCustomers, stripeVars, pending,
                   bounds, handlerVars, observed>>

\* stripe_customer_create; the idempotency key is the id of the uncommitted
\* row, so that every attempt makes a customer of its own.
CreateCustomer(c) ==
    /\ cpc[c] = "create"
    /\ stripeCustomers' = stripeCustomers \cup {c}
    /\ CGoto(c, "save")
    /\ UNCHANGED <<localRows, customer, inserting, stripeVars, pending,
                   bounds, handlerVars, observed>>

SaveCustomer(c) ==
    /\ cpc[c] = "save"
    /\ customer' = c
    /\ inserting' = NoOne
    /\ CGoto(c, "session")
    /\ UNCHANGED <<localRows, stripeCustomers, stripeVars, pending, bounds,
                   handlerVars, observed>>

\* Without a price for the plan a RuntimeError.
CreateSession(c) ==
    /\ cpc[c] = "session"
    /\ \E found \in Found : CGoto(c, IF found THEN "open" ELSE "failed")
    /\ UNCHANGED <<localRows, customer, inserting, stripeCustomers, stripeVars, pending, bounds,
                   handlerVars, observed>>

\* The process is killed or Stripe answers with an error: a transaction that
\* is open is rolled back, what Stripe did stays.
CheckoutFails(c) ==
    /\ failures < MaxFailures
    /\ failures' = failures + 1
    /\ cpc[c] \in {"customer", "insert", "create", "save", "session"}
    /\ inserting' = IF inserting = c THEN NoOne ELSE inserting
    /\ CGoto(c, "failed")
    /\ UNCHANGED <<localRows, customer, stripeCustomers, stripeVars, pending,
                   duplicates, handlerVars, observed>>

-----------------------------------------------------------------------------
(* Stripe and the user's actions there.                                    *)

Emit(kind, c, cancel) ==
    LET event == [kind |-> kind, of |-> c, cancel |-> cancel, n |-> Cardinality(sent) + 1] IN
    /\ sent' = sent \cup {event}
    /\ pending' = pending \cup {event}

Pay(c) ==
    /\ cpc[c] = "open"
    /\ CGoto(c, "paid")
    /\ stripe' = [stripe EXCEPT ![c].status = "active"]
    /\ Emit("created", c, FALSE)
    /\ UNCHANGED <<localRows, customer, inserting, stripeCustomers, changes,
                   bounds, handlerVars, observed>>

\* The user cancels at the end of the period, or takes that back; a payment
\* fails; the subscription ends.
ChangeAtStripe(c) ==
    /\ Live(c)
    /\ changes < MaxChanges
    /\ changes' = changes + 1
    /\ \/ /\ stripe' = [stripe EXCEPT ![c].cancel = ~@]
          /\ Emit("updated", c, ~stripe[c].cancel)
       \/ /\ stripe' = [stripe EXCEPT ![c].status = "past due"]
          /\ Emit("payment failed", c, FALSE)
       \/ /\ stripe' = [stripe EXCEPT ![c].status = "canceled"]
          /\ Emit("deleted", c, FALSE)
    /\ UNCHANGED <<localRows, checkoutVars, bounds, handlerVars, observed>>

-----------------------------------------------------------------------------
(* StripeWebhookAPIView and the handlers. An event Stripe got no 200 for is *)
(* posted again.                                                           *)

HGoto(h, step) == hpc' = [hpc EXCEPT ![h] = step]

\* The request ends, with a 200 or without.
EndRequest(h) ==
    /\ HGoto(h, "idle")
    /\ hevent' = [hevent EXCEPT ![h] = NoEvent]
    /\ hfound' = [hfound EXCEPT ![h] = NoOne]
\* The mutants answer an exception with a 200, or never answer (Fail).
Swallowed(h)   == EndRequest(h) /\ pending' = pending \ {hevent[h]}
Fail(h)        == EndRequest(h) /\ UNCHANGED pending
Acknowledge(h) == EndRequest(h) /\ pending' = pending \ {hevent[h]}

\* A warning is logged, and the event answered like any other.
Forget(h) ==
    /\ Acknowledge(h)
    /\ ignored' = ignored \cup {hevent[h]}
    /\ UNCHANGED <<last, newest>>

\* The plan is what the event says.
Save(row, event) ==
    /\ subscription' = row
    /\ last' = event.n
    /\ newest' = IF event.n > newest THEN event.n ELSE newest
    /\ UNCHANGED ignored

Handled(event) == \E h \in Handler : hevent[h] = event

\* An event once more: after its 200, or while another process works on it.
Again(event) == event \notin pending \/ Handled(event)

Receive(h, event) ==
    /\ hpc[h] = "idle"
    /\ InOrder => /\ \A g \in Handler : hpc[g] = "idle"
                  /\ \A e \in pending : event.n <= e.n
    /\ Again(event) => duplicates < MaxDuplicates
    /\ duplicates' = IF Again(event) THEN duplicates + 1 ELSE duplicates
    /\ hevent' = [hevent EXCEPT ![h] = event]
    /\ HGoto(h, "route")
    /\ UNCHANGED <<failures, localRows, checkoutVars, stripeVars, pending, hfound, observed>>

\* The rows the handlers look for before they save anything: the created one needs
\* the Subscription (the customer of a paid session is committed) and the price of
\* the subscription, the others the ProviderSubscription, and an update the price
\* again. Without one of them the event is forgotten.
Known(event, priceFound) ==
    /\ event.kind = "created" => customer # NoOne /\ subscription # NoSubscription
    /\ event.kind # "created" => provider[event.of] # "none"
    /\ event.kind \in {"created", "updated"} => priceFound

FirstStep(kind) ==
    CASE kind = "created"        -> "find open"
      [] kind = "updated"        -> "activate"
      [] kind = "deleted"        -> "end"
      [] kind = "payment failed" -> "past due"

Route(h) ==
    /\ hpc[h] = "route"
    /\ \E priceFound \in Found :
          IF Known(hevent[h], priceFound)
          THEN /\ HGoto(h, FirstStep(hevent[h].kind))
               /\ UNCHANGED <<hevent, hfound, pending, observed>>
          ELSE Forget(h)
    /\ UNCHANGED <<localRows, checkoutVars, stripeVars, bounds>>

OpenRows == {c \in Checkout : provider[c] = "open"}

\* provider_subscription_create: the open row is read ...
FindOpen(h) ==
    /\ hpc[h] = "find open"
    /\ IF OpenRows = {} THEN UNCHANGED hfound
       ELSE \E c \in OpenRows : hfound' = [hfound EXCEPT ![h] = c]
    /\ HGoto(h, "insert")
    /\ UNCHANGED <<localRows, checkoutVars, stripeVars, pending, bounds, hevent, observed>>

\* ... ended, and the new one inserted, in one transaction. A second row for
\* the same subscription is an IntegrityError: no 200.
\* The mutant leaves the old row open.
NotClosed(found)  == provider
Superseded(found) == [c \in Checkout |-> IF c = found THEN "ended" ELSE provider[c]]

InsertRow(h) ==
    LET c == hevent[h].of IN
    /\ hpc[h] = "insert"
    /\ IF provider[c] = "none"
       THEN /\ provider' = [Superseded(hfound[h]) EXCEPT ![c] = "open"]
            /\ HGoto(h, "activate")
            /\ UNCHANGED <<hevent, hfound, pending>>
       ELSE Fail(h) /\ UNCHANGED provider
    /\ UNCHANGED <<subscription, checkoutVars, stripeVars, bounds, observed>>

\* The plan is activated in a transaction of its own.
Activate(h) ==
    /\ hpc[h] = "activate"
    /\ Save(Activated(hevent[h]), hevent[h])
    /\ Acknowledge(h)
    /\ UNCHANGED <<provider, checkoutVars, stripeVars, bounds>>

EndRow(h) ==
    /\ hpc[h] = "end"
    /\ provider' = [provider EXCEPT ![hevent[h].of] = "ended"]
    /\ HGoto(h, "downgrade")
    /\ UNCHANGED <<subscription, checkoutVars, stripeVars, pending, bounds,
                   hevent, hfound, observed>>

\* Without an active Free plan the user keeps the plan.
Downgrade(h) ==
    /\ hpc[h] = "downgrade"
    /\ \E freePlan \in Found :
          IF freePlan THEN Save(Downgraded, hevent[h]) /\ Acknowledge(h)
          ELSE Forget(h) /\ UNCHANGED subscription
    /\ UNCHANGED <<provider, checkoutVars, stripeVars, bounds>>

MarkPastDue(h) ==
    /\ hpc[h] = "past due"
    /\ subscription' = PastDue
    /\ Acknowledge(h)
    /\ UNCHANGED <<provider, checkoutVars, stripeVars, bounds, observed>>

HandlerDies(h) ==
    /\ failures < MaxFailures
    /\ failures' = failures + 1
    /\ hpc[h] # "idle"
    /\ Fail(h)
    /\ UNCHANGED <<localRows, checkoutVars, stripeVars, duplicates, observed>>

-----------------------------------------------------------------------------
CheckoutNext(c) ==
    \/ FindCustomer(c) \/ InsertCustomer(c) \/ CreateCustomer(c) \/ SaveCustomer(c)
    \/ CreateSession(c)

HandlerNext(h) ==
    \/ Route(h) \/ FindOpen(h) \/ InsertRow(h) \/ Activate(h) \/ EndRow(h) \/ Downgrade(h)
    \/ MarkPastDue(h)

Next ==
    \/ \E c \in Checkout : \/ CheckPlan(c) \/ CheckoutNext(c) \/ CheckoutFails(c)
                           \/ Pay(c) \/ ChangeAtStripe(c)
    \/ \E h \in Handler : HandlerNext(h) \/ HandlerDies(h)
    \/ \E h \in Handler, event \in sent : Receive(h, event)

Spec == Init /\ [][Next]_vars

\* Requests go on, and Stripe posts every event until it gets a 200.
Fairness ==
    /\ \A c \in Checkout : WF_vars(CheckoutNext(c))
    /\ \A h \in Handler : WF_vars(HandlerNext(h))
    /\ SF_vars(\E h \in Handler, event \in pending : ~Again(event) /\ Receive(h, event))

FairSpec == Spec /\ Fairness

-----------------------------------------------------------------------------
(* Properties.                                                             *)

TypeOK ==
    /\ subscription \in SubscriptionRow \cup {NoSubscription}
    /\ provider \in [Checkout -> {"none", "open", "ended"}]
    /\ customer \in Checkout \cup {NoOne}
    /\ inserting \in Checkout \cup {NoOne}
    /\ stripeCustomers \subseteq Checkout
    /\ cpc \in [Checkout -> {"idle", "refused", "customer", "insert", "create", "save",
                             "session", "open", "paid", "failed"}]
    /\ stripe \in [Checkout -> [status: StripeStatus, cancel: BOOLEAN]]
    /\ sent \subseteq Event /\ pending \subseteq sent
    /\ changes \in 0..MaxChanges
    /\ duplicates \in 0..MaxDuplicates /\ failures \in 0..MaxFailures
    /\ hpc \in [Handler -> {"idle", "route", "find open", "insert", "activate", "end",
                            "downgrade", "past due"}]
    /\ hevent \in [Handler -> Event \cup {NoEvent}]
    /\ hfound \in [Handler -> Checkout \cup {NoOne}]
    /\ ignored \subseteq sent /\ last \in Nat /\ newest \in Nat

\* Whatever is lost, repeated, reordered or killed: Pro is only ever held by a
\* user with a recorded subscription that was really paid, and a user whose
\* subscription reads canceled does not hold it.
PaidPlanIsBacked ==
    /\ subscription.plan = "pro" =>
          \E c \in Checkout : provider[c] # "none" /\ stripe[c].status # "none"
    /\ subscription.status = "canceled" => subscription.plan = "free" /\ ~subscription.cancel

\* A user has one Stripe customer, however many checkouts run at once.
OneStripeCustomer == Cardinality(stripeCustomers) <= 1

\* A user is not subscribed twice ("You are already subscribed to this plan.").
NotSubscribedTwice == Cardinality({c \in Checkout : Live(c)}) <= 1

\* provider_subscription_create leaves one row open.
OneOpenRow == Cardinality(OpenRows) <= 1

Quiet == pending = {} /\ \A h \in Handler : hpc[h] = "idle"

\* A subscription was paid before the one paid earlier had ended.
Overlapped ==
    \E old, new \in sent :
        /\ old.kind = "created" /\ new.kind = "created" /\ old.n < new.n
        /\ \A e \in sent : e.of = old.of /\ e.kind = "deleted" => e.n > new.n

\* The plan was set last by the newest event that set it, and no newer one was
\* forgotten.
UpToDate ==
    last = newest /\ \A e \in ignored : e.kind # "payment failed" => e.n <= newest

\* When every event is answered the user has the plan, and the cancellation flag,
\* of the subscription that lives at Stripe, and no Pro when none does: whatever was
\* killed, reordered and repeated on the way. Only three things excuse a
\* difference: the user paid twice, an event newer than the row was answered with a
\* warning, or one older than the row was saved last.
InSync ==
    Quiet /\ ~Overlapped /\ UpToDate =>
             /\ subscription.plan = "pro" <=> \E c \in Checkout : Live(c)
             /\ \A c \in Checkout : Live(c) => subscription.cancel = stripe[c].cancel

\* The deletion of the user's last subscription downgrades to Free.
DeletedMeansFree ==
    Quiet /\ (\A c \in Checkout : ~Live(c)) => subscription.plan = "free"

\* The creation of a subscription activates its plan, unless it ends, another one
\* is paid, or the event is answered with a warning.
CreatedActivates ==
    \A c \in Checkout :
        Live(c) ~> \/ subscription.plan = "pro" \/ ~Live(c) \/ Overlapped
                   \/ \E e \in ignored : e.of = c

\* A subscription with a payment issue is past due locally as well.
PastDueShown ==
    Quiet => \A c \in Checkout :
                stripe[c].status = "past due" => subscription.status = "past_due"

\* Every event is answered in the end (their number is bounded).
EveryEventAnswered == []<>(pending = {})
=============================================================================
