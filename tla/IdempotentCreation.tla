-------------------------- MODULE IdempotentCreation --------------------------
(***************************************************************************)
(* What POST /links promises to a client that sends an Idempotency-Key:    *)
(* each request takes effect in one step or not at all, the first one with *)
(* a key holds the key until its time is over, and as long as it does the  *)
(* others get its link (same body) or a conflict (another body).           *)
(* ShortLinkCreation implements it with records, locks and transactions.   *)
(***************************************************************************)
EXTENDS Naturals

CONSTANTS Request, Key, NoKey, Nobody, TTL

VARIABLES
    clock,
    request,  \* [Request -> its key and body]
    begun,    \* requests that arrived
    began,    \* [Request -> when it did]
    made,     \* requests that created what they ask for
    holder,   \* [Key -> the request that holds it, and until when]
    answer    \* [Request -> the kind of its answer and the request whose link it shows]

vars == <<clock, request, begun, began, made, holder, answer>>

None     == [kind |-> "none", link |-> Nobody]
Unheld   == [by |-> Nobody, until |-> 0]
KeyOf(r) == request[r].key
Open(r)  == r \in begun \ made /\ answer[r] = None

Refusal == {"alias taken", "limit reached", "no subscription", "exhausted", "error"}

\* A key is free for a request that began after the time of its holder.
Available(r) == holder[KeyOf(r)] = Unheld \/ holder[KeyOf(r)].until <= began[r]

Init ==
    /\ clock = 0
    /\ begun = {}
    /\ began = [r \in Request |-> 0]
    /\ made = {}
    /\ holder = [k \in Key |-> Unheld]
    /\ answer = [r \in Request |-> None]

Begin(r) ==
    /\ r \notin begun
    /\ begun' = begun \cup {r}
    /\ began' = [began EXCEPT ![r] = clock]
    /\ UNCHANGED <<clock, request, made, holder, answer>>

Create(r) ==
    /\ Open(r)
    /\ made' = made \cup {r}
    /\ \/ KeyOf(r) = NoKey /\ UNCHANGED holder
       \/ /\ KeyOf(r) # NoKey
          /\ Available(r)
          /\ holder' = [holder EXCEPT ![KeyOf(r)] = [by |-> r, until |-> began[r] + TTL]]
    /\ UNCHANGED <<clock, request, begun, began, answer>>

Answer(r, kind, link) ==
    /\ answer' = [answer EXCEPT ![r] = [kind |-> kind, link |-> link]]
    /\ UNCHANGED <<clock, request, begun, began, made, holder>>

Confirm(r) == r \in made /\ answer[r] = None /\ Answer(r, "created", r)

Refuse(r) == Open(r) /\ \E kind \in Refusal : Answer(r, kind, Nobody)

AnswerForHolder(r) ==
    LET q == holder[KeyOf(r)].by IN
    /\ Open(r)
    /\ KeyOf(r) # NoKey /\ q # Nobody
    /\ \/ request[q].body = request[r].body /\ Answer(r, "replayed", q)
       \/ request[q].body # request[r].body /\ Answer(r, "conflict", Nobody)

\* Keys whose time is over may be given up.
Forget ==
    /\ \E old \in SUBSET {k \in Key : holder[k].until <= clock} :
          holder' = [k \in Key |-> IF k \in old THEN Unheld ELSE holder[k]]
    /\ UNCHANGED <<clock, request, begun, began, made, answer>>

Tick ==
    /\ clock' = clock + 1
    /\ UNCHANGED <<request, begun, began, made, holder, answer>>

Next ==
    \/ \E r \in Request :
          Begin(r) \/ Create(r) \/ Confirm(r) \/ Refuse(r) \/ AnswerForHolder(r)
    \/ Forget
    \/ Tick

Spec == Init /\ [][Next]_vars
=============================================================================
