-------------------------- MODULE ShortLinkCreation --------------------------
(***************************************************************************)
(* POST /links and POST /webhooks/endpoints: the idempotency claim, the    *)
(* plan quotas and the unique code, taken in one database transaction,     *)
(* against concurrent requests of the same and of other owners, plan       *)
(* changes, deletions and the cleanup of expired idempotency records.      *)
(*                                                                         *)
(* PostgreSQL runs at READ COMMITTED: a statement reads the rows that are  *)
(* committed when it starts; a row lock or an uncommitted entry of a       *)
(* unique index makes it wait for the transaction that holds it.  What a   *)
(* transaction wrote is in claim and draft until it commits.               *)
(***************************************************************************)
EXTENDS Naturals, FiniteSets

CONSTANTS
    Request,         \* HTTP requests; a retry of the client is another request
    Owner, Plan, Key, Body, Code,
    RequestData,     \* the requests clients send, a subset of Data
    Reserved,        \* RESERVED_SHORT_CODES
    Limits,          \* values of a plan's short_link_limit and webhook_endpoint_limit
    MaxGenerations,  \* MAX_GENERATION_ATTEMPTS
    TTL,             \* IDEMPOTENCY_RECORD_TTL, in ticks of clock
    MaxClock,        \* bound on clock
    CanCrash         \* whether the web process may be killed

NoKey     == "no key"
Generated == "generated"
NoPlan    == "no subscription"
Nobody    == "nobody"

What == {"link", "endpoint"}

Data == [what: What, owner: Owner, key: Key \cup {NoKey}, body: Body,
         alias: Code \cup {Generated}]

\* The serializer refuses a reserved alias before any of this starts; an endpoint
\* has neither an idempotency key nor a code.
ASSUME RequestAssumption ==
    /\ RequestData \subseteq {q \in Data : q.alias \notin Reserved}
    /\ \A q \in RequestData : q.what = "endpoint" => q.key = NoKey /\ q.alias = Generated
    /\ Limits \subseteq [What -> Nat]
    /\ Nobody \notin Request /\ NoPlan \notin Plan
    /\ NoKey \notin Key /\ Generated \notin Code
ASSUME NumbersAssumption ==
    /\ MaxGenerations \in Nat
    /\ TTL \in Nat \ {0}
    /\ MaxClock \in Nat
    /\ CanCrash \in BOOLEAN

VARIABLES
    clock,     \* the time, in units longer than a request
    plan,      \* [Owner -> the plan of the subscription]
    limit,     \* [Plan -> its two limits]
    rows,      \* committed ShortLink and WebhookEndpoint rows
    record,    \* [Key -> committed IdempotencyRecord]
    lock,      \* [LockName -> transaction that holds it]
    request,   \* [Request -> Data]
    pc,        \* [Request -> next statement]
    now,       \* [Request -> clock when the request began]
    seen,      \* [Request -> the record row a SELECT FOR UPDATE found]
    planSeen,  \* [Request -> the plan it found joined to the subscription]
    code,      \* [Request -> candidate short code]
    tries,     \* [Request -> codes generated so far]
    claim,     \* [Request -> its uncommitted IdempotencyRecord]
    draft,     \* [Request -> its uncommitted row]
    reply,     \* [Request -> the answer, and the row it shows]
    made       \* requests that committed a row, an observation

localVars == <<seen, planSeen, code, tries, claim, draft>>
worldVars == <<clock, plan, limit, rows, record>>
vars == <<clock, plan, limit, rows, record, lock, request, pc, now, seen,
          planSeen, code, tries, claim, draft, reply, made>>

-----------------------------------------------------------------------------
(* Rows, locks and answers.                                                *)

\* A link, an endpoint and a record are named by the request that created them.
Row      == [owner: Owner, code: Code \cup {Generated}, by: Request]
NoRow    == [owner |-> Nobody, code |-> Generated, by |-> Nobody]
Record   == [by: Request, body: Body, status: {"processing", "completed"},
             link: Request \cup {Nobody}, expires: Nat]
NoRecord == [by |-> Nobody, body |-> Nobody, status |-> "none",
             link |-> Nobody, expires |-> 0]

\* Row locks on records, subscriptions and plans, and the uncommitted entries
\* of the unique indexes on (owner, key) and short_code.
LockName ==
    ({"record", "claim"} \X Key) \cup ({"subscription"} \X Owner)
    \cup ({"plan"} \X Plan) \cup ({"code"} \X Code)

Step == {"idle", "lookup", "lock record", "insert claim", "get record", "lock existing",
         "existing", "subscription", "lock subscription", "lock plan", "count", "pick code",
         "insert link", "insert endpoint", "complete", "commit", "announce", "done"}
Kind == {"none", "created", "replayed", "conflict", "in progress", "alias taken",
         "limit reached", "no subscription", "exhausted", "error"}

NoReply == [kind |-> "none", link |-> Nobody]

OwnerOf(r)    == request[r].owner
WhatOf(r)     == request[r].what
KeyOf(r)      == request[r].key
Free(l)       == lock[l] = Nobody
NotAcquired(l, r) == UNCHANGED lock   \* mutant: the query has no FOR UPDATE
Acquire(l, r) == lock' = [lock EXCEPT ![l] = r]
Goto(r, step) == pc' = [pc EXCEPT ![r] = step]
OwnedBy(w, o) == {l \in rows[w] : l.owner = o}
InTransaction(r) == pc[r] \notin {"idle", "announce", "done"}

\* A transaction that holds the record row and went on has deleted it.
Dropping(r, k) == lock[<<"record", k>>] = r /\ pc[r] # "existing"

\* The unique index on (owner, key): an insert waits for uncommitted claims and
\* deletions of the key. The mutant has no such index.
NoUniqueIndex(r) == TRUE
ClaimFree(r) ==
    /\ Free(<<"claim", KeyOf(r)>>)
    /\ \A q \in Request \ {r} : ~Dropping(q, KeyOf(r))

\* request_hash, which the mutant does not compare.
AnyBody(r)  == TRUE
SameBody(r) == record[KeyOf(r)].body = request[r].body

\* MAX_GENERATION_ATTEMPTS, with an off-by-one.
OneMoreTry(r)  == tries[r] <= MaxGenerations
MayGenerate(r) == tries[r] < MaxGenerations

\* The view completes its claim before it commits. The mutant forgets to.
NotCompleted(r) == "commit"
AfterInsert(r)  == IF KeyOf(r) = NoKey THEN "commit" ELSE "complete"

-----------------------------------------------------------------------------
Init ==
    /\ clock = 0
    /\ plan \in [Owner -> Plan \cup {NoPlan}]
    /\ limit \in [Plan -> Limits]
    /\ rows = [w \in What |-> {}]
    /\ record = [k \in Key |-> NoRecord]
    /\ lock = [l \in LockName |-> Nobody]
    /\ request \in [Request -> RequestData]
    /\ pc = [r \in Request |-> "idle"]
    /\ now = [r \in Request |-> 0]
    /\ seen = [r \in Request |-> Nobody]
    /\ planSeen = [r \in Request |-> NoPlan]
    /\ code = [r \in Request |-> Generated]
    /\ tries = [r \in Request |-> 0]
    /\ claim = [r \in Request |-> NoRecord]
    /\ draft = [r \in Request |-> NoRow]
    /\ reply = [r \in Request |-> NoReply]
    /\ made = {}

\* COMMIT or ROLLBACK: the locks go and nothing local is left.
EndTransaction(r) ==
    /\ lock' = [l \in LockName |-> IF lock[l] = r THEN Nobody ELSE lock[l]]
    /\ seen' = [seen EXCEPT ![r] = Nobody]
    /\ planSeen' = [planSeen EXCEPT ![r] = NoPlan]
    /\ code' = [code EXCEPT ![r] = Generated]
    /\ tries' = [tries EXCEPT ![r] = 0]
    /\ claim' = [claim EXCEPT ![r] = NoRecord]
    /\ draft' = [draft EXCEPT ![r] = NoRow]

Answer(r, kind, link) == reply' = [reply EXCEPT ![r] = [kind |-> kind, link |-> link]]

\* Mutant: the exception is caught inside the transaction and the response is
\* sent with the locks still held.
RefuseWithoutRollback(r, kind) ==
    /\ Answer(r, kind, Nobody)
    /\ Goto(r, "done")
    /\ UNCHANGED <<lock, localVars>>

\* An exception leaves the view: everything is rolled back.
Refuse(r, kind) ==
    /\ EndTransaction(r)
    /\ Answer(r, kind, Nobody)
    /\ Goto(r, "done")

-----------------------------------------------------------------------------
(* idempotency_record_claim.                                               *)

Begin(r) ==
    /\ pc[r] = "idle"
    /\ now' = [now EXCEPT ![r] = clock]
    /\ Goto(r, IF KeyOf(r) = NoKey THEN "subscription" ELSE "lookup")
    /\ UNCHANGED <<worldVars, lock, request, localVars, reply, made>>

\* SELECT ... FOR UPDATE, the rows it finds ...
Lookup(r) ==
    /\ pc[r] = "lookup"
    /\ seen' = [seen EXCEPT ![r] = record[KeyOf(r)].by]
    /\ Goto(r, IF record[KeyOf(r)] = NoRecord THEN "insert claim" ELSE "lock record")
    /\ UNCHANGED <<worldVars, lock, request, now, planSeen, code, tries, claim, draft,
                   reply, made>>

\* ... and the lock, for which it waits. A row that was deleted meanwhile is no
\* result; one that expired is deleted to make room.
LockRecord(r) ==
    LET k == KeyOf(r) IN
    /\ pc[r] = "lock record"
    /\ \/ /\ record[k].by # seen[r]
          /\ Goto(r, "insert claim")
          /\ UNCHANGED lock
       \/ /\ record[k].by = seen[r]
          /\ Free(<<"record", k>>)
          /\ Acquire(<<"record", k>>, r)
          /\ Goto(r, IF record[k].expires > now[r] THEN "existing" ELSE "insert claim")
    /\ UNCHANGED <<worldVars, request, now, localVars, reply, made>>

\* INSERT in a savepoint: it waits for an uncommitted claim or deletion of the
\* same key, and fails on a committed record.
InsertClaim(r) ==
    LET k == KeyOf(r) IN
    /\ pc[r] = "insert claim"
    /\ ClaimFree(r)
    /\ IF record[k] = NoRecord \/ Dropping(r, k)
       THEN /\ Acquire(<<"claim", k>>, r)
            /\ claim' = [claim EXCEPT ![r] =
                            [by |-> r, body |-> request[r].body, status |-> "processing",
                             link |-> Nobody, expires |-> now[r] + TTL]]
            /\ Goto(r, "subscription")
       ELSE Goto(r, "get record") /\ UNCHANGED <<lock, claim>>
    /\ UNCHANGED <<worldVars, request, now, seen, planSeen, code, tries, draft, reply, made>>

\* After IntegrityError the record is fetched, whatever its age, ...
GetRecord(r) ==
    LET k == KeyOf(r) IN
    /\ pc[r] = "get record"
    /\ IF record[k] = NoRecord
       THEN Refuse(r, "error")
       ELSE /\ seen' = [seen EXCEPT ![r] = record[k].by]
            /\ Goto(r, "lock existing")
            /\ UNCHANGED <<lock, planSeen, code, tries, claim, draft, reply>>
    /\ UNCHANGED <<worldVars, request, now, made>>

\* ... and locked; .get() raises DoesNotExist when it finds none, or the one it
\* found was deleted while it waited.
LockExisting(r) ==
    LET k == KeyOf(r) IN
    /\ pc[r] = "lock existing"
    /\ \/ /\ record[k].by # seen[r]
          /\ Refuse(r, "error")
       \/ /\ record[k].by = seen[r]
          /\ Free(<<"record", k>>)
          /\ Acquire(<<"record", k>>, r)
          /\ Goto(r, "existing")
          /\ UNCHANGED <<localVars, reply>>
    /\ UNCHANGED <<worldVars, request, now, made>>

\* The view answers from the record of another request.
AnswerFromRecord(r) ==
    LET found == record[KeyOf(r)] IN
    /\ pc[r] = "existing"
    /\ EndTransaction(r)
    /\ Goto(r, "done")
    /\ \/ ~SameBody(r) /\ Answer(r, "conflict", Nobody)
       \/ /\ SameBody(r)
          /\ found.status = "completed"
          /\ Answer(r, "replayed", found.link)
       \/ /\ SameBody(r)
          /\ found.status = "processing"
          /\ Answer(r, "in progress", Nobody)
    /\ UNCHANGED <<worldVars, request, now, made>>

-----------------------------------------------------------------------------
(* short_link_create and webhook_endpoint_create.                          *)

\* SELECT ... FOR UPDATE of the subscription joined with its plan.
FindSubscription(r) ==
    /\ pc[r] = "subscription"
    /\ IF plan[OwnerOf(r)] = NoPlan
       THEN Refuse(r, "no subscription")
       ELSE /\ planSeen' = [planSeen EXCEPT ![r] = plan[OwnerOf(r)]]
            /\ Goto(r, "lock subscription")
            /\ UNCHANGED <<lock, seen, code, tries, claim, draft, reply>>
    /\ UNCHANGED <<worldVars, request, now, made>>

\* The lock is granted on the current version of the row. If its plan is no
\* longer the one it was joined with, the join is checked again, fails, and
\* the query returns nothing: RuntimeError("User does not have a subscription").
LockSubscription(r) ==
    LET o == OwnerOf(r) IN
    /\ pc[r] = "lock subscription"
    /\ Free(<<"subscription", o>>)
    /\ IF plan[o] # planSeen[r]
       THEN Refuse(r, "no subscription")
       ELSE /\ Acquire(<<"subscription", o>>, r)
            /\ Goto(r, "lock plan")
            /\ UNCHANGED <<localVars, reply>>
    /\ UNCHANGED <<worldVars, request, now, made>>

\* select_related makes FOR UPDATE lock the plan as well, shared by its owners.
LockPlan(r) ==
    /\ pc[r] = "lock plan"
    /\ Free(<<"plan", planSeen[r]>>)
    /\ Acquire(<<"plan", planSeen[r]>>, r)
    /\ Goto(r, "count")
    /\ UNCHANGED <<worldVars, request, now, localVars, reply, made>>

\* subscription_can_create_short_link, subscription_can_create_webhook_endpoint.
Below(r) == Cardinality(OwnedBy(WhatOf(r), OwnerOf(r))) < limit[planSeen[r]][WhatOf(r)]

CountRows(r) ==
    /\ pc[r] = "count"
    /\ IF Below(r)
       THEN /\ Goto(r, IF WhatOf(r) = "link" THEN "pick code" ELSE "insert endpoint")
            /\ UNCHANGED <<lock, localVars, reply>>
       ELSE Refuse(r, "limit reached")
    /\ UNCHANGED <<worldVars, request, now, made>>

\* The alias, or a generated code: a reserved one costs an attempt.
PickCode(r) ==
    /\ pc[r] = "pick code"
    /\ \/ /\ request[r].alias # Generated
          /\ code' = [code EXCEPT ![r] = request[r].alias]
          /\ Goto(r, "insert link")
          /\ UNCHANGED <<lock, seen, planSeen, tries, claim, draft, reply>>
       \/ /\ request[r].alias = Generated
          /\ MayGenerate(r)
          /\ tries' = [tries EXCEPT ![r] = @ + 1]
          /\ \E c \in Code :
                /\ code' = [code EXCEPT ![r] = c]
                /\ Goto(r, IF c \in Reserved THEN "pick code" ELSE "insert link")
          /\ UNCHANGED <<lock, seen, planSeen, claim, draft, reply>>
       \/ /\ request[r].alias = Generated
          /\ ~MayGenerate(r)
          /\ Refuse(r, "exhausted")
    /\ UNCHANGED <<worldVars, request, now, made>>

\* INSERT in a savepoint: it waits for an uncommitted link with the code. A
\* taken alias is an error, a taken generated code another attempt.
InsertLink(r) ==
    /\ pc[r] = "insert link"
    /\ Free(<<"code", code[r]>>)
    /\ \/ /\ \A l \in rows["link"] : l.code # code[r]
          /\ Acquire(<<"code", code[r]>>, r)
          /\ draft' = [draft EXCEPT ![r] =
                          [owner |-> OwnerOf(r), code |-> code[r], by |-> r]]
          /\ Goto(r, AfterInsert(r))
          /\ UNCHANGED <<seen, planSeen, code, tries, claim, reply>>
       \/ /\ \E l \in rows["link"] : l.code = code[r]
          /\ request[r].alias = Generated
          /\ Goto(r, "pick code")
          /\ UNCHANGED <<lock, localVars, reply>>
       \/ /\ \E l \in rows["link"] : l.code = code[r]
          /\ request[r].alias # Generated
          /\ Refuse(r, "alias taken")
    /\ UNCHANGED <<worldVars, request, now, made>>

\* An endpoint has no unique column.
InsertEndpoint(r) ==
    /\ pc[r] = "insert endpoint"
    /\ draft' = [draft EXCEPT ![r] = [owner |-> OwnerOf(r), code |-> Generated, by |-> r]]
    /\ Goto(r, "commit")
    /\ UNCHANGED <<worldVars, lock, request, now, seen, planSeen, code, tries, claim,
                   reply, made>>

-----------------------------------------------------------------------------
(* idempotency_record_complete, COMMIT and the on_commit handler.          *)

Complete(r) ==
    /\ pc[r] = "complete"
    /\ claim' = [claim EXCEPT ![r].status = "completed", ![r].link = draft[r].by]
    /\ Goto(r, "commit")
    /\ UNCHANGED <<worldVars, lock, request, now, seen, planSeen, code, tries, draft,
                   reply, made>>

Commit(r) ==
    /\ pc[r] = "commit"
    /\ rows' = [rows EXCEPT ![WhatOf(r)] = @ \cup {draft[r]}]
    /\ record' = [k \in Key |-> IF k = KeyOf(r) THEN claim[r] ELSE record[k]]
    /\ made' = made \cup {r}
    /\ EndTransaction(r)
    /\ Goto(r, "announce")
    /\ UNCHANGED <<clock, plan, limit, request, now, reply>>

\* _handle_short_link_created clears the cache entry and dispatches the event;
\* only then does the client get its answer. An endpoint is answered at once.
Announce(r) ==
    /\ pc[r] = "announce"
    /\ Answer(r, "created", r)
    /\ Goto(r, "done")
    /\ UNCHANGED <<worldVars, lock, request, now, localVars, made>>

\* The process is killed: the server rolls back what is not committed and the
\* client gets no answer.
Crash(r) ==
    /\ CanCrash
    /\ pc[r] \notin {"idle", "done"}
    /\ EndTransaction(r)
    /\ Goto(r, "done")
    /\ UNCHANGED <<worldVars, request, now, reply, made>>

-----------------------------------------------------------------------------
(* Everybody else.                                                         *)

\* subscription_activate_plan updates the subscription; its foreign key takes
\* a lock on the new plan that a creation under that plan excludes.
ChangePlan(o, p) ==
    /\ plan[o] \notin {NoPlan, p}
    /\ Free(<<"subscription", o>>)
    /\ Free(<<"plan", p>>)
    /\ plan' = [plan EXCEPT ![o] = p]
    /\ UNCHANGED <<clock, limit, rows, record, lock, request, pc, now, localVars, reply, made>>

\* An administrator edits the limits of a plan.
EditPlan(p) ==
    /\ Free(<<"plan", p>>)
    /\ \E n \in Limits \ {limit[p]} : limit' = [limit EXCEPT ![p] = n]
    /\ UNCHANGED <<clock, plan, rows, record, lock, request, pc, now, localVars, reply, made>>

\* short_link_delete, where the foreign key of the records is set to null and
\* their stored response stays; the deletion of an endpoint in the admin.
DeleteRow(w, l) ==
    /\ rows' = [rows EXCEPT ![w] = @ \ {l}]
    /\ UNCHANGED <<clock, plan, limit, record, lock, request, pc, now, localVars, reply, made>>

\* idempotency_record_delete_expired: one DELETE, which waits for row locks.
DeleteExpired ==
    LET expired == {k \in Key : record[k] # NoRecord /\ record[k].expires <= clock} IN
    /\ expired # {}
    /\ \A k \in expired : Free(<<"record", k>>)
    /\ record' = [k \in Key |-> IF k \in expired THEN NoRecord ELSE record[k]]
    /\ UNCHANGED <<clock, plan, limit, rows, lock, request, pc, now, localVars, reply, made>>

\* A request is much shorter than IDEMPOTENCY_RECORD_TTL: it ends within the
\* tick after the one it began in.
Tick ==
    /\ clock < MaxClock
    /\ \A r \in Request : InTransaction(r) => now[r] = clock
    /\ clock' = clock + 1
    /\ UNCHANGED <<plan, limit, rows, record, lock, request, pc, now, localVars, reply, made>>

-----------------------------------------------------------------------------
Statement(r) ==
    \/ Lookup(r) \/ LockRecord(r) \/ InsertClaim(r) \/ GetRecord(r) \/ LockExisting(r)
    \/ AnswerFromRecord(r)
    \/ FindSubscription(r) \/ LockSubscription(r) \/ LockPlan(r) \/ CountRows(r)
    \/ PickCode(r) \/ InsertLink(r) \/ InsertEndpoint(r) \/ Complete(r) \/ Commit(r) \/ Announce(r)

Next ==
    \/ \E r \in Request : Begin(r) \/ Statement(r) \/ Crash(r)
    \/ \E o \in Owner, p \in Plan : ChangePlan(o, p)
    \/ \E p \in Plan : EditPlan(p)
    \/ \E w \in What : \E l \in rows[w] : DeleteRow(w, l)
    \/ DeleteExpired
    \/ Tick

Spec == Init /\ [][Next]_vars

\* A statement that need not wait is executed. Nobody has to send a request.
FairSpec == Spec /\ \A r \in Request : WF_vars(Statement(r))

-----------------------------------------------------------------------------
(* Properties.                                                             *)

TypeOK ==
    /\ clock \in Nat
    /\ plan \in [Owner -> Plan \cup {NoPlan}]
    /\ limit \in [Plan -> [What -> Nat]]
    /\ rows \in [What -> SUBSET Row]
    /\ record \in [Key -> Record \cup {NoRecord}]
    /\ lock \in [LockName -> Request \cup {Nobody}]
    /\ request \in [Request -> RequestData]
    /\ pc \in [Request -> Step]
    /\ now \in [Request -> Nat]
    /\ seen \in [Request -> Request \cup {Nobody}]
    /\ planSeen \in [Request -> Plan \cup {NoPlan}]
    /\ code \in [Request -> Code \cup {Generated}]
    /\ tries \in [Request -> 0..MaxGenerations]
    /\ claim \in [Request -> Record \cup {NoRecord}]
    /\ draft \in [Request -> Row \cup {NoRow}]
    /\ reply \in [Request -> [kind: Kind, link: Request \cup {Nobody}]]
    /\ made \subseteq Request

\* A step that adds a link or an endpoint leaves its owner within the limit of
\* the plan in force at that moment, whatever other creations, plan changes and
\* edits of the plan happened since the count was taken.
WithinLimit ==
    [][\A w \in What : \A l \in rows'[w] \ rows[w] :
          /\ plan[l.owner] # NoPlan
          /\ Cardinality(OwnedBy(w, l.owner)') <= limit[plan[l.owner]][w]]_vars

\* Requests with one key create one link: another is made only by a request
\* that began (up to the length of a request) after the first claim expired.
OneLinkPerKey ==
    \A q, r \in made :
        (q # r /\ KeyOf(q) = KeyOf(r) /\ KeyOf(q) # NoKey /\ now[q] <= now[r])
            => now[q] + TTL <= now[r] + 1

\* The transaction implements the promise of one atomic, repeatable creation
\* per key: an answer that shows a link shows that of the request which holds
\* the key, made for the same body; a key changes hands only after its time.
Promise == INSTANCE IdempotentCreation WITH
    begun  <- {r \in Request : pc[r] # "idle"},
    began  <- now,
    holder <- [k \in Key |-> [by |-> record[k].by, until |-> record[k].expires]],
    answer <- reply
ImplementsPromise == Promise!Spec

\* A claim is never visible before its link: committed records are completed
\* and name a link that was committed with them, so that a retry is replayed
\* or starts afresh and never meets a request in progress.
ClaimAndLinkTogether ==
    /\ \A k \in Key : record[k] # NoRecord =>
          /\ record[k].status = "completed"
          /\ record[k].link = record[k].by
          /\ record[k].by \in made
    /\ \A r \in Request : reply[r].kind # "in progress"

\* A request that was refused left nothing behind.
RefusedLeavesNothing ==
    \A r \in Request : reply[r].kind \notin {"none", "created"} =>
        /\ r \notin made
        /\ \A k \in Key : record[k].by # r
        /\ \A l \in LockName : lock[l] # r

\* No request waits for ever: locks are always taken in the order record,
\* subscription, plan, code, and every wait ends.
EveryRequestEnds ==
    \A r \in Request : pc[r] # "idle" ~> pc[r] = "done"

\* The statement of r waits for a lock that q holds.
WaitsFor(r, q) ==
    \/ /\ pc[r] \in {"lock record", "lock existing"} /\ record[KeyOf(r)].by = seen[r]
       /\ lock[<<"record", KeyOf(r)>>] = q
    \/ /\ pc[r] = "insert claim"
       /\ lock[<<"claim", KeyOf(r)>>] = q \/ (q # r /\ Dropping(q, KeyOf(r)))
    \/ pc[r] = "lock subscription" /\ lock[<<"subscription", OwnerOf(r)>>] = q
    \/ pc[r] = "lock plan" /\ lock[<<"plan", planSeen[r]>>] = q
    \/ pc[r] = "insert link" /\ lock[<<"code", code[r]>>] = q

\* Requests never wait for each other in a cycle, whatever they ask for: in any
\* set of them one waits for none of the others, nor for itself.
NoDeadlock ==
    \A S \in (SUBSET Request) \ {{}} : \E r \in S : \A q \in S : ~WaitsFor(r, q)

\* A request that waits for no other can go on.
WaitsAreForLocks ==
    \A r \in Request : pc[r] \notin {"idle", "done"} =>
        (ENABLED Statement(r) <=> \A q \in Request : ~WaitsFor(r, q))

\* "User does not have a subscription" is raised for owners without one.
NoSubscriptionMeansNone ==
    \A r \in Request : reply[r].kind = "no subscription" => plan[OwnerOf(r)] = NoPlan
=============================================================================
