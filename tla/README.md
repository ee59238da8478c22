# TLA+ model of the Choto backend

Choto is a URL shortener: a Django REST application with PostgreSQL, Redis (as
cache and as Celery broker), Celery workers, webhooks for its users and paid
plans at Stripe. This directory holds TLA+ modules of its core logic, the TLC
configurations that check them on small instances and the proofs, checked by
TLAPS, of what holds for every value of the constants. Paths below are relative
to the repository.

## 1. The system and its parts

| Part | State | Operations | Talks to |
|---|---|---|---|
| Creation (`apps/links/services.py`, `views.py`; `apps/core/services.py`; `webhook_endpoint_create`) | `ShortLink`, `IdempotencyRecord`, `WebhookEndpoint` | POST of a link with alias or generated code; claim, replay and completion of an `Idempotency-Key`; cleanup of expired records; POST of an endpoint; both quotas | locks subscription and plan (billing); after commit clears the redirect cache and dispatches a webhook event |
| Redirect, update, delete, deactivation (`apps/links/selectors.py`, `cache.py`, `services.py`, `tasks.py`) | `ShortLink`, redirect entries in Redis | `GET /{code}`, PATCH, DELETE, Celery beat task, admin edits | on commit deletes the entry; a redirect queues a click task |
| Webhooks (`apps/webhooks/services.py`, `tasks.py`) | `WebhookEndpoint`, `WebhookDelivery`, Celery messages | fan-out of an event, publication, delivery attempt, retry, endpoint update, admin deletions | called by links and analytics; posts to the users' URLs |
| Billing (`apps/billing`) | `Plan`, `Subscription`, `BillingCustomer`, `ProviderSubscription` | checkout, the handlers of four Stripe events | Stripe calls; the plan limits creation |
| Accounts (`apps/accounts`) | `User`, `APIKey` | registration (with the default subscription), profile, API keys, JWT, Google login | authentication of every view |
| Analytics (`apps/analytics`) | `ClickEvent` | task that stores a click, daily counts, summary | webhook event of a click |
| Around them | none of their own | serializers, request hashes, signing and encryption of webhooks, health, metrics, admin, settings | |

What is hard about it: requests, Celery tasks and Stripe events run
concurrently and meet in the database at READ COMMITTED; side effects (cache,
broker, Stripe) happen after or inside a transaction and fail on their own;
rows are read, kept for seconds and saved again with a few `update_fields`;
messages are acknowledged early; several moves are check-then-act.

What makes each part correct:

* creation: one link per idempotency key and life of its record, a true answer
  to every retry, no trace of a refused request, never more links or endpoints than
  the plan allows, no deadlock among its locks;
* redirect: a stale answer is bounded in time, and the cache recovers;
* webhooks: one sender per delivery, a bounded number of attempts, the columns
  agree, a settled delivery is final, and nothing is lost without a fault; a row
  never promises what nobody will do, even when tasks overwrite each other's saves;
* analytics: a click is stored once, then announced, and given up only after
  its retries; the parts of a report agree;
* accounts: an address is registered once and with its subscription, a profile
  update touches what it names, an issued key is kept, a revoked one refused;
* billing: a paid plan rests on a payment, plan and Stripe agree, one customer
  and one open row per user.

## 2. Modules

| Module | Contents |
|---|---|
| `DeliveryLifecycle` | what a delivery promises: the phases a user sees and the moves among them |
| `WebhookDelivery` | dispatch, delivery task, broker, endpoint changes; implements `DeliveryLifecycle` |
| `WebhookDelivery_proofs` | theorems about `WebhookDelivery` |
| `WebhookLifecycle_proofs` | theorem that `WebhookDelivery` implements `DeliveryLifecycle` |
| `IdempotentCreation` | what a client with an `Idempotency-Key` is promised, in atomic steps |
| `ShortLinkCreation` | the POST transactions of links and endpoints, statement by statement; implements `IdempotentCreation` |
| `ShortLinkCreation_proofs` | theorems about `ShortLinkCreation`, the refinement among them |
| `ShortLinkRedirect` | the cached lookup against every writer of a link |
| `ShortLinkRedirect_proofs` | theorems about `ShortLinkRedirect` |
| `StripeBilling` | checkouts, Stripe and the event handlers of one user |
| `StripeBilling_proofs` | theorems about `StripeBilling` |
| `ClickAnalytics` | the click task, the deletion of the link and the analytics request |
| `ClickAnalytics_proofs` | theorems about `ClickAnalytics` |
| `Accounts` | registration, profile and API keys behind one e-mail address |
| `Accounts_proofs` | theorems about `Accounts` |
| `MC<module>` | the sets TLC instantiates the constants with |

One action is one statement that other processes can interleave with: a query
with the lock it takes, a save, a commit, a call to Redis, the broker, Stripe or
an endpoint. What a process computes between two statements belongs to the
action. A transaction's writes are kept apart (in `claim`, `draft`, `inserting`)
until its commit; a unique index or row lock is a guard that waits. A handful of
operators named in comments as *mutants* (`NoUniqueIndex`, `TrustTTL`, ...) are
not used by the specifications: each is a plausible bug in the definition below
it, and replacing that definition by it must break the property it is paired
with in `PROJECT.json`.

### WebhookDelivery

`rows` is the `WebhookDelivery` table (status, attempt_count, next_attempt_at
and delivered_at as set or not), `queue` counts the Celery messages of a
delivery, `dispatch` the progress of `webhook_event_dispatch`, `pc`, `task` and
`copy` are a worker's task, its delivery and the model object it read. `posts`
counts the HTTP requests made and `lost` the deliveries whose message or task a
fault destroyed; both only observe. `ListEndpoints`, `CreateDeliveries`,
`Publish` and `DispatchFails` are `webhook_event_dispatch`; `Receive`,
`GetDelivery`, `SaveInactive`, `SaveProcessing`, `Post`, `SaveOutcome`,
`ScheduleRetry` and `TaskDies` are `webhook_delivery_send` with its task.
`AfterResponse` is what the response makes of the object; the three `...Saved`
operators are the `update_fields` of the three saves. `EndpointUpdate` is the
PATCH of an endpoint, `EndpointDelete` and `DeliveryDelete` are the admin, and
`Redeliver` is a message the broker hands out a second time (external): the worker's
connection is lost before its acknowledgement arrives, or the message was prefetched
and stayed behind other tasks for the visibility timeout. The messages are
acknowledged when they are received (Celery's default, which the settings keep), and
the delays of 60 and 300 seconds end before that timeout.

The refinement maps a row to a phase of `DeliveryLifecycle`: no row is "none"
while the event may still be dispatched, and "gone" after.

### ShortLinkCreation

A request is a process whose `pc` is its next SQL statement. `Key` stands for a
pair of owner and `Idempotency-Key`. `record` and `rows` are committed rows (`rows` of links and of endpoints),
`lock` gives the holder of every row lock and uncommitted index entry. The
action `Lookup` is the `SELECT ... FOR UPDATE` snapshot and `LockRecord` the
lock with PostgreSQL's re-check, `GetRecord` and `LockExisting` the same for the
`.get()` after an IntegrityError, which raises when the record was deleted
meanwhile; `FindSubscription`, `LockSubscription` and
`LockPlan` do the same for the joined query of
`subscription_get_for_user_for_update`. `made` and `reply` observe. A link is
its code and its maker; titles, URLs and expiry dates are in `Body` (the request hash).
`webhook_endpoint_create` takes the same locks and counts against the other limit
of the plan; it has no key, no code and no event (`InsertEndpoint`).

The refinement maps the committed records to the holders of the keys: in
`IdempotentCreation` a request creates in one step, and only if the key was free
when it began; other requests are answered with the holder's link if their
body is the same, or with a conflict.

### ShortLinkRedirect

`rows` maps a code to its committed row, `cache` a cache key to its entry (a
link, a miss, nothing) with its remaining TTL. `Reader` slots run the lookup
(`GetCached`, `DropExpired`, `ReadRow`, `StoreEntry`, `Finish`), `Writer`s
run PATCH, DELETE or POST and then `ClearCache`, the task lists, updates and
clears. Times count down with `Tick`, longer than one redirect. A failed Redis
call does nothing (`IGNORE_EXCEPTIONS`). `since` observes how long ago a row
changed. The staleness runs use one code per cache key (`Fold` is injective);
`redirect_case` uses two.

### Accounts

One e-mail address. `user`, `social`, `subscribed` and `keys` are the committed
rows, `entry` the uncommitted entries of the unique indexes on e-mail and prefix,
`copy` and `keyCopy` the model objects a request read and will save. A request is
a call of `user_create` (no view of the repository calls it), a login with Google,
or a view behind `JWTAuthentication` (`LoadUser`) or `APIKeyAuthentication`
(`FindKey`, `MarkUsed`). `UpdateFields`, `ProfileSaved`, `MarkedUsed` and
`Revoked` say which columns a save writes. `Generate` to `AnswerKey` are
`api_key_create` and its view, where a taken prefix marks the transaction for
rollback (`TryAgain`). `SetActive`, `EditUser`, `LoadForm`, `SaveForm` and
`DeleteKey` are `user_deactivate`, `user_activate` and the admin: a form saves every column of the
object it loaded, and brings a deleted row back. `Signup` is allauth's own page
(external). The form race lies within one POST: Django reads the object again when
the form arrives (`LoadForm`), only `is_active` is as old as the page, and between
that read and the save others may write the row. A key's secret is named by the request that made it; `late`, `shown`
and `touched` observe.

### StripeBilling

One user. `subscription` and `provider` are the rows, `customer`, `inserting`
and `stripeCustomers` the Stripe customer; `stripe`, `sent` and `pending` the
external side, where a user pays open sessions and changes the subscription. `Receive`
starts the webhook view for an event, `Route` makes the lookups of the four
handlers, and each later step is one commit. Where a row is missing the handlers log
a warning and answer 200, and the event is forgotten: the `BillingCustomer`, the
`Subscription` (a user of allauth's own sign-up page has none: `NoSubscription`), the
`ProviderSubscription`, the price of the subscription (`Known`), and, with the row
already ended, an active Free plan (`Downgrade`). Prices and the Free plan are edited
at any time, so a query finds the row or not (`Found`); with `Configured` the user
has a row, the Free plan stays active and the price the session was opened with stays
known. Only Pro has a price.
A checkout without a price fails (`CreateSession`). `ignored`, `last` and `newest`
only observe: the events forgotten, the number of the event that set the plan last,
and of the newest one that has. Stripe is modelled from how
`src/apps/billing` uses it: it repeats events without a 200, in any order unless
`InOrder`, may post an answered event again (`MaxDuplicates`), and a failed payment
posts `invoice.payment_failed`. The current period is left out.

### ClickAnalytics

One link. `message`, `pc`, `task`, `tries` and `clickedAt` are the queued and
running tasks, `clicks` the committed `ClickEvent` rows, `lost` observes why a
click will not be stored. The foreign key is checked when the click commits, as
Django creates it on PostgreSQL (deferred), and the check waits for a DELETE of
the link that has not committed. `ClearClicks`, `RemoveLink` and `CommitDelete`
are the cascade of `link.delete()`. `StartReport`, `ReadSummary` and `ReadDaily`
are the analytics view, whose queries share no transaction; the chart is a function from days
to counts, and `Charted` has a member for each click it shows. A COMMIT either happens
and is known to, or does not: that one succeeds and its acknowledgement is lost, upon
which the retried task stores the click a second time, is left out.

## 3. Runs

Deadlock checking is off wherever the system may simply be done (every request
answered, every event handled); the liveness properties say that nothing is
left hanging.

| Run | Shows | Instance and why it is enough |
|---|---|---|
| `delivery_faults` | all invariants, `SettledIsFinal`, the refinement `ImplementsLifecycle` and `EventuallySettled` of the delivery pipeline under every fault | 1 event, 2 endpoints (a fan-out that fails in the middle), 2 workers (tasks of two deliveries and stale objects), 3 attempts with 2 delays (first, middle and last attempt differ), each message handed out once |
| `delivery_repeated` | `NeverStranded`: a row that is PROCESSING, pending or due again has a task or message that will move it, although tasks hold the same row and overwrite each other's saves | 1 delivery, whose message is handed out up to 3 times, to 3 workers: two tasks that race and a third that comes between their saves; all faults, 3 attempts with 2 delays |
| `creation_idempotency` | `OneLinkPerKey`, `ClaimAndLinkTogether`, `RefusedLeavesNothing` and the refinement `ImplementsPromise` | 3 requests (first, concurrent retry, late retry) with equal or different bodies, 2 codes of which one is reserved, 2 generations, record expiry within the clock bound, crashes |
| `creation_contention` | `WithinLimit`, and `EveryRequestEnds`: locks of records, claims, subscriptions, plans and codes never form a cycle, and a crash frees them | 2 requests of 1 or 2 owners for links and endpoints that need every pair of locks, 2 plans whose limits (1 link and no endpoint, or 2 and 1) are edited and exchanged during the requests, crashes. A quota is broken, and a cycle closed, by two requests |
| `accounts` | `RegisteredHasSubscription`, `RegisteredOnce`, `OmittedKept`, `RevokedIsRefused`, `IssuedKeysKept`, `UseIsMarked` | 3 requests (a use, a revocation that overtakes it, and a later use), in three mixes: registrations and Google logins; profile changes of one field each; creation, use and revocation of keys. 2 prefixes, so that a generated one may be taken; 2 edits by administrators (the POST of a form and a deletion within it) |
| `redirect_staleness` | `StalenessBounded`, `AnswersRecent`, `EventuallyCoherent` | a redirect slot reused without bound, a writer, an admin edit, the task, failing Redis calls; cache timeout 2 and miss timeout 1, so the two differ; links that expire sooner and later than the timeout, or never. A second slot adds no kind of stale entry: redirects meet only in the entry they store |
| `clicks` | `CountedOnce`, `AnnouncedIsStored`, `NotGivenUpEarly`, `ReportConsistent`, `EveryClickStored` | 2 clicks, 2 workers, 1 retry and 2 database errors (one click can use up its retries), 3 days with a chart of 2 (a day before, in and after the chart), kills and lost messages |
| `billing_backed` | `PaidPlanIsBacked` and `InSync` under loss, repetition, reordering, a kill, a missing `Subscription`, and prices and a Free plan that come and go | 2 checkouts, 2 handlers, 2 changes at Stripe, 1 repeated event, 1 failure anywhere: a stale event that is saved after a newer one, two handlers at once, and a user who subscribes again |
| `billing_in_order` | `OneOpenRow`, `OneStripeCustomer`, `CreatedActivates`, `EveryEventAnswered` when events come one at a time | 2 concurrent checkouts, 3 changes at Stripe, the same rows missing |
| `creation_subscription`, `redirect_case`, `billing_interrupted` | violations, section 6 | |

Bounds: `MaxClock`, `MaxDay`, `MaxErrors`, `MaxEdits`, `MaxChanges`, `MaxDuplicates`,
`MaxFailures` and `MaxRedeliveries` bound counters that only limit how often the environment
acts; `MaxAttempts`, `MaxRetries` and `MaxGenerations` are the code's own limits made small.
Symmetry is used for requests, prefixes, checkouts and handlers, in runs
of invariants and step properties only.

### Fairness

* `WebhookDelivery`: a worker executes the next statement of its task, a
  dispatch goes on, and a queued message is received in the end (weak fairness):
  workers poll their queues, and a request to an endpoint has a timeout. Faults,
  owners and administrators owe nothing.
* `ShortLinkCreation`: a statement that need not wait is executed (weak
  fairness). No one has to send a request, and no lock is assumed to be granted
  in any order.
* `ShortLinkRedirect`: requests that began and the task go on, and time passes.
* `ClickAnalytics`: workers go on with their tasks and empty the queue; a DELETE
  that began goes on. Kills and lost messages need no fairness: `lost` records them.
* `StripeBilling`: requests go on, and Stripe posts an unanswered event as long as
  there is one (strong fairness, for a busy process cannot take it): Stripe
  documents that it repeats an event until it gets a 2xx. `MaxFailures` bounds
  how many kills may disturb that.

## 4. Proofs

TLAPS proves every safety invariant and every step property of the passing runs, and
both refinements, for all values of the constants that satisfy the `ASSUME`s of the
modules. A theorem that needs more states it as a premise:

| Premise | Theorems | Why, and what happens without it |
|---|---|---|
| `MaxRedeliveries = 0`: a message is handed out once | all of `WebhookDelivery` but `TypeCorrect` and `NeverStrandedHolds` | a repeated message needs a lost connection or a long queue; `delivery_redelivered` breaks `SucceededIsNotResent` |
| `OwnKey`: no two codes share a cache key | `StalenessBounded`, `AnswersRecent` | the finding of `redirect_case`: the answer for one code may be the other's link, however old |
| `MissTimeout <= Timeout` | `AnswersRecent` | 30 seconds (`selectors.py`) and 300 (`settings.py`); the property bounds both by the latter |
| `InOrder`: events come one at a time, oldest first | `OneOpenRow` | `billing_two_handlers` |
| `MaxFailures = 0`: nothing fails and no process is killed | `OneStripeCustomer` | `billing_orphan`; with failures, `CustomersByFailures` bounds the customers by one more than the failures |

### WebhookDelivery

`WebhookDelivery_proofs` proves, for all sets of events, endpoints and workers,
every `MaxAttempts`, every table of delays and every set of faults:

* without a premise `TypeCorrect` and `NeverStrandedHolds`;
* under the premise `MaxRedeliveries = 0`: `Inductive`, `SingleTokenHolds`,
  `AttemptsBoundedHolds`, `DeliveredIffSucceededHolds`, `NothingForgottenHolds`
  and the step property `SettledIsFinalHolds`.

None of the invariants is inductive: that a save does not revive a settled delivery
depends on what the worker read earlier. `IInv` adds to `TypeOK`, for every worker,
`TaskInv` (its copy has not become stale in the columns it will save; what the copy
holds at each step), and for every delivery `TokenInv` (at most one of: a place in a
dispatch list, a message, a task holds it; an unsettled delivery that no fault
destroyed has one) and `RowInv` (the columns agree with each other and with the
requests made). The key of the argument is the token: because a message is handed
out once, the worker that holds a delivery is the only one that writes its row, a
deletion excepted. One lemma per action shows `IInv /\ action => IInv'`; `OwnStep`
and the frame lemmas carry the invariant over to the workers and deliveries the
action does not touch. The premise is needed: with redelivery, `SingleToken` and
`SucceededIsNotResent` fail.

`NeverStranded` holds with redelivery too, where the token is not single any more.
Its invariant `PromiseInv` asks not who holds a row but that each promise of the row
has somebody (`Unstranded`): a task that leaves the step that backs a
promise either changes the row in the same step, or hands the promise to the next one
(a save of "failed" to the retry it schedules, the publication to a message). A save of
another task cannot break it, as each writes the promise together with the step that
keeps it. `ObjectInv` says what the copies hold that those saves write.

`WebhookLifecycle_proofs` proves, under the same premise, `ImplementsLifecycleHolds`
(`Spec => ImplementsLifecycle`) and `SucceededIsNotResentHolds`, which no run checks: with
one task per row it restates a guard, and with two it fails (section 6). The refinement
needs two facts more: `Cascaded` (a deleted endpoint has no rows, so a phase that is
"gone" stays so) and `Requested` (who is about to save an outcome has sent a
request, so no verdict is reached without one). Each action is shown to be a move of
the phase of one delivery, of several that are deleted or dispatched together, or a
stutter.

### ShortLinkCreation

`ShortLinkCreation_proofs` proves, without a premise, `TypeCorrect`,
`OneLinkPerKeyHolds`, `ClaimAndLinkTogetherHolds`, `RefusedLeavesNothingHolds`,
`NoDeadlockHolds`, the step property `WithinLimitHolds` and the refinement
`ImplementsPromiseHolds`, for any number of requests, owners, plans, keys, codes and
attempts, with kills, edits of plans and a clock.

The argument is about locks. `ClaimInv`: a transaction past its claim holds the
index entry of its key, and the key has no record, or one that has expired and that
it has locked and deleted. So two transactions cannot both commit a claim of one key
before the first has expired (`RecordInv`). `CountInv`: from the count to the commit
the subscription and its plan are locked, so nobody else adds a row of the owner and
no limit moves; the count is still true when the row is committed, which is
`WithinLimit`. `TimeInv` ties `made`, `reply` and `now` to the step of the request.
For the refinement, a commit maps to the creating step of `IdempotentCreation`, the
end of a replayed, conflicting or refused request to its answer, the cleanup to
`Forget`, and the statements in between to a stutter.

`NoDeadlock` says that no set of requests waits for itself: `WaitsFor` reads the
guards of the six statements that wait. `HeldInv` lists what may be held at each
statement, and `RankGrows` shows that whoever holds what a request waits for is at a
statement of higher `Rank`; with seven ranks, no chain of waits closes.
`creation_waits.cfg` checks both `NoDeadlock` and, as it needs ENABLED,
`WaitsAreForLocks`: a request can go on exactly if it waits for nobody.

### ShortLinkRedirect

`ShortLinkRedirect_proofs` proves `TypeCorrect`, and under the premises above
`StalenessBoundedHolds` and `AnswersRecentHolds`, for any number of redirects and
writers, any timeouts, and with Redis failing at will.

`AgeInv` says how stale a thing may be at each place. `EntryInv`: an entry agrees
with the row, or the time since the row changed and the entry's remaining TTL add up
to no more than its timeout and one tick, the tick in which a slow redirect may
store what it read before the change. A tick of the clock moves one unit from the
TTL to the age, which keeps the sum; a change of a row resets the age. `ReaderInv`
says the same of the link a redirect has read or hit. Lost invalidations need no
case: `ClearCache` only helps, and the bound does not rest on it.

### ClickAnalytics

`ClickAnalytics_proofs` proves, without a premise, `TypeCorrect`,
`CountedOnceHolds`, `AnnouncedIsStoredHolds`, `NotGivenUpEarlyHolds` and
`ReportConsistentHolds`, for any number of redirects, workers, retries and days and
any length of the chart.

`TokenInv`: a redirect has one token, its message, its task or its row, so a retry
never finds its click stored. `RetryInv` counts retries against errors. For the
report, what was counted stays counted while the link lives (`ReportInv`,
`TotalInv`), and the chart is read after the summary: `SinceSplit` divides the
clicks since today, and `WindowSplit` all clicks, into those inside and outside the
chart. That a sum over the days covers them needs no induction, as `Charted` is a
set: numbering the rows of each day gives an injection into it (`ChartShows`).

### StripeBilling

`StripeBilling_proofs` proves `TypeCorrect`, `PaidPlanIsBackedHolds`, `InSyncHolds` and
`CustomersByFailures` without a premise (whatever is lost, repeated, reordered,
forgotten or killed), and under those above `OneStripeCustomerHolds` and
`OneOpenRowHolds`, for any number of checkouts, handlers, changes and failures.

`InSync` cannot say that plan and Stripe always agree in the end: handlers neither
compare the order of events nor keep one they cannot place. It says that nothing else
breaks the agreement. The excuses are a user who paid for a subscription before an
earlier one had ended (`Overlapped`: there is one row for two), an event newer than the
row that was answered with a warning, and an older event saved last (`UpToDate`).
`billing_reordered` is such a case. In particular neither a kill nor a repeated
event is an excuse of its own.

`HandlerInv` says which event a handler at a step works on, `HistoryInv` how the
events of a subscription are ordered (its creation first, its deletion last), and
`StripeInv` that they tell its state at Stripe. `SavedInv` says that the plan is what
the event named by `last` makes of it, and that every event that was answered and not
forgotten is no newer than `newest`; `RowInv` that without a `Subscription` no row
belongs to it. When nothing is pending and the row is up to date, `last` is the newest
event that sets a plan of all that were sent, and without overlap that event tells
Stripe's state (`LastTells`): no other subscription lives, and this one is as the event
says. An event whose handler died is pending, so it blocks the conclusion until Stripe
posts it again. A repeated update or deletion does all its saves again; a
repeated creation does not, it fails on the unique row and is never answered, which
leaves the user without the plan (`billing_interrupted`) and `Quiet` false for good: `InSync`
says nothing of that case, `CreatedActivates` does.

With events in order, `SerialInv` leaves one handler at work, so the open row it found
is still the one. `CustomersCounted` charges every customer but one to a failure.

### Accounts

`Accounts_proofs` proves, for all sets of requests, whatever they ask for, all sets
of prefixes and any number of edits, the seven properties of the run `accounts`:
`TypeCorrect`, `RegisteredHasSubscriptionHolds`, `RegisteredOnceHolds`,
`IssuedKeysKeptHolds`, `RevokedIsRefusedHolds`, `UseIsMarkedHolds` and
`OmittedKeptHolds`. They need no premise but `AccountAssumption`: what combinations
of requests exist, and that no prefix is the name of the index on e-mail.

That an answered revocation is obeyed is not inductive: it depends on what other
requests have read and reserved. `IInv` adds to `TypeOK` `UserInv` (keys and forms
exist only for a user), and for each request `SessionInv` (whoever is authenticated
works for a user that exists; who inserts the user holds the index entry, and there
is none yet), `KeyInv` (a creation has no row before its commit, which fills a
prefix it holds the entry of, and the key is shown only when it is over) and
`UseInv` (the key of an answered revocation is `Dead`: the admin acted on it, or all
its rows are inactive), and for each key `RowInv` (one row at most until the admin
acts on it). The argument: a key that was shown gets no other row (`ShownRows`), and
every save keeps a mark of use and a revocation (`RowsKept`), so a dead key stays
dead. `Others` and `Own` say what a statement leaves alone; each invariant has a
lemma for the statements of the request itself and one for all other steps.

### Only model-checked

The liveness properties `EventuallySettled`, `EveryRequestEnds`,
`EventuallyCoherent`, `EveryClickStored`, `CreatedActivates` and
`EveryEventAnswered`: liveness under fairness, and ENABLED, are out of the prover's
reach. So are induction over data and modules with RECURSIVE operators; no property
here needs either. The properties of section 6 are refuted.

## 5. Not modelled

* Accounts: the deletion of a user and its cascade over every table; tokens, which
  keep no row (`SIMPLET_JWT` in the settings is not a name that simplejwt
  reads, so its defaults hold); throttling.
* Unique visitors and recent clicks in a report.
* Signing, encryption, payload layout, serializers, validators: pure functions
  whose results no modelled property distinguishes.
* Metrics, logging, health, settings and deployment: no state of the program.
  `SHORT_LINK_CACHE_TIMEOUT` is a number in the model, as its default is; read
  from the environment it is a string (`config/settings.py:230`).
* Admin: only the edits that disturb a modelled component (links, endpoints,
  deliveries, plans, users, keys).
* `title` and ownership in PATCH: no redirect depends on them.

## 6. Disagreements between code and tests

Three are runs that end in a violation, with a finding in `PROJECT.json`:

* `creation_subscription`: a plan change between the snapshot and the lock of
  the joined `FOR UPDATE` query makes it return no row, and the creation fails
  with "User does not have a subscription".
* `redirect_case`: the cache key folds the case of a code, the database does
  not; of two codes that differ in case, one is answered with the other's link.
* `billing_interrupted`: a process killed between the new row and the plan
  leaves every later attempt failing on the unique row; the plan is never activated.

The other configurations (`creation_waits` excepted, see section 4) end in a
counterexample as well. They are kept to show
why the properties above are stated with a bound or a premise:

| Configuration | Property it refutes | Cause |
|---|---|---|
| `delivery_redelivered` | `SucceededIsNotResent` | two workers hold one redelivered message (`docker-compose.yml` starts a process per CPU); the status is checked without a lock |
| `redirect_invalidation` | `InvalidationHolds` | a redirect stores what it read before the invalidation |
| `redirect_deactivation` | `OnlyExpiredDeactivated` | the UPDATE does not look at `expires_at` again |
| `redirect_patch` | `PatchApplied` | PATCH compares its body with a stale object |
| `billing_two_handlers` | `OneOpenRow` | the open row is read without a lock |
| `billing_orphan` | `OneStripeCustomer` | a rollback loses the idempotency key of a customer Stripe has created |
| `billing_reordered` | `DeletedMeansFree` | a deletion before its creation is forgotten, and the creation then gives Pro; for `InSync` this is an excuse |
| `billing_past_due` | `PastDueShown` | an update always saves ACTIVE |
| `billing_resubscribed` | `NotSubscribedTwice` | the plan is checked when the session opens |
| `accounts_signup` | `EveryUserHasSubscription` | allauth's sign-up page under `auth/` runs no adapter that creates the subscription; such a user can pay, and `stripe_subscription_created_handle` forgets the event |
| `accounts_collision` | `CollisionIsRetried` | the loop of `API_KEY_GENERATION_ATTEMPTS` is inside an atomic block without a savepoint |
| `accounts_revoked_twice` | `RevokedAtKept` | two revocations read the active key, the second overwrites the time of the first (`test_api_key_revoke_endpoint_is_idempotent` tries them one after the other) |
| `accounts_admin_form` | `RevocationStands` | the POST of a form reads the key before a revocation and saves every column after it, or sends the `is_active` of an older page |

## 7. Plan

Done: `DeliveryLifecycle`, `WebhookDelivery`, `IdempotentCreation`,
`ShortLinkCreation` with both quotas, `ShortLinkRedirect`, `StripeBilling`,
`ClickAnalytics` and `Accounts`, the proofs of their safety properties and of both
refinements.

Next, in this order:

1. A COMMIT of `ClickAnalytics` whose acknowledgement is lost, with the second row it
   leads to counted against it.
2. An abstract specification of a cache with bounded staleness, which
   `ShortLinkRedirect` implements, and the proof of the refinement.
3. The deletion of a user, with its cascade over links, endpoints and keys.
