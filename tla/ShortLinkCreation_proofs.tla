---------------------- MODULE ShortLinkCreation_proofs ----------------------
(***************************************************************************)
(* Proofs about ShortLinkCreation for every set of requests, owners,       *)
(* plans, keys and codes, any limits, any number of attempts and any TTL,  *)
(* whether or not the process can be killed.                               *)
(***************************************************************************)
EXTENDS ShortLinkCreation, FiniteSetTheorems, TLAPS

Keyed      == {"lookup", "lock record", "insert claim", "get record", "lock existing",
               "existing"}
Counted    == {"pick code", "insert link", "insert endpoint", "complete", "commit"}
Planned    == Counted \cup {"count"}
Subscribed == Planned \cup {"lock plan"}
Claiming   == Subscribed \cup {"subscription", "lock subscription"}

\* A request sees the time of its arrival and is answered once, at its end;
\* those that committed are waiting for their answer or had it.
TimeInv(r) ==
    /\ now[r] <= clock
    /\ InTransaction(r) => clock <= now[r] + 1
    /\ pc[r] # "done" => reply[r] = NoReply
    /\ reply[r].kind # "in progress"
    /\ r \in made => pc[r] \in {"announce", "done"} /\ reply[r].kind \in {"none", "created"}
    /\ pc[r] = "announce" => r \in made
    /\ \A l \in LockName : lock[l] = r => InTransaction(r)

\* The claim of a transaction as the commit will leave it.
ClaimOf(r, status, link) ==
    [by |-> r, body |-> request[r].body, status |-> status, link |-> link,
     expires |-> now[r] + TTL]

\* A transaction that is past its claim holds the index entry of the key, and
\* either there is no record or it holds an expired one that it deleted.
ClaimInv(r) ==
    /\ pc[r] \in Keyed \cup {"complete"} => KeyOf(r) # NoKey
    /\ pc[r] \in {"lock record", "lock existing"} => seen[r] # Nobody
    /\ pc[r] \in {"lookup", "lock record"} => lock[<<"record", KeyOf(r)>>] # r
    /\ pc[r] = "existing" => lock[<<"record", KeyOf(r)>>] = r
    /\ pc[r] = "insert claim" /\ lock[<<"record", KeyOf(r)>>] = r =>
          record[KeyOf(r)].expires <= now[r]
    /\ pc[r] \in Claiming /\ KeyOf(r) # NoKey =>
          /\ lock[<<"claim", KeyOf(r)>>] = r
          /\ \/ record[KeyOf(r)] = NoRecord
             \/ /\ lock[<<"record", KeyOf(r)>>] = r
                /\ record[KeyOf(r)].expires <= now[r]
          /\ claim[r] = IF pc[r] = "commit" THEN ClaimOf(r, "completed", r)
                                            ELSE ClaimOf(r, "processing", Nobody)

\* What was counted stays true: the subscription and its plan are locked.
CountInv(r) ==
    /\ pc[r] \in Subscribed \cup {"lock subscription"} => planSeen[r] # NoPlan
    /\ pc[r] \in Subscribed =>
          /\ lock[<<"subscription", OwnerOf(r)>>] = r
          /\ plan[OwnerOf(r)] = planSeen[r]
    /\ pc[r] \in Planned => lock[<<"plan", planSeen[r]>>] = r
    /\ pc[r] \in Counted => Below(r)
    /\ pc[r] = "insert endpoint" => KeyOf(r) = NoKey
    /\ pc[r] \in {"complete", "commit"} =>
          draft[r] \in Row /\ draft[r].owner = OwnerOf(r) /\ draft[r].by = r

\* A committed record names its request; the time of all others is over.
RecordInv(k) ==
    /\ lock[<<"record", k>>] # Nobody => record[k] # NoRecord
    /\ record[k] # NoRecord =>
          /\ record[k].by \in made
          /\ KeyOf(record[k].by) = k
          /\ record[k] = ClaimOf(record[k].by, "completed", record[k].by)
    /\ \A q \in made : KeyOf(q) = k /\ q # record[k].by => now[q] + TTL <= clock

IInv ==
    /\ TypeOK
    /\ \A w \in What : IsFiniteSet(rows[w])
    /\ \A r \in Request : TimeInv(r) /\ ClaimInv(r) /\ CountInv(r)
    /\ \A k \in Key : RecordInv(k)
    /\ OneLinkPerKey

-----------------------------------------------------------------------------
(* Type correctness.                                                       *)

LEMMA Constants ==
    /\ RequestData \subseteq Data
    /\ \A q \in RequestData : q.what = "endpoint" => q.key = NoKey
    /\ Limits \subseteq [What -> Nat]
    /\ Nobody \notin Request
    /\ NoPlan \notin Plan
    /\ NoKey \notin Key
    /\ MaxGenerations \in Nat
    /\ TTL \in Nat
    /\ TTL > 0
  BY RequestAssumption, NumbersAssumption

\* What a request asks for.
LEMMA Asked ==
    ASSUME TypeOK, NEW r \in Request
    PROVE  /\ OwnerOf(r) \in Owner
           /\ WhatOf(r) \in What
           /\ KeyOf(r) \in Key \cup {NoKey}
           /\ request[r].body \in Body
           /\ request[r].alias \in Code \cup {Generated}
           /\ WhatOf(r) = "endpoint" => KeyOf(r) = NoKey
<1>1. request[r] \in Data /\ (request[r].what = "endpoint" => request[r].key = NoKey)
  BY Constants DEF TypeOK
<1>2. QED
  BY <1>1 DEF Data, OwnerOf, WhatOf, KeyOf

\* What a query for the record of a key finds.
LEMMA Found ==
    ASSUME TypeOK, NEW k \in Key
    PROVE  /\ record[k] \in Record \cup {NoRecord}
           /\ record[k].by \in Request \cup {Nobody}
           /\ record[k].link \in Request \cup {Nobody}
           /\ record[k].expires \in Nat
           /\ record[k] = NoRecord <=> record[k].by = Nobody
<1>1. record[k] \in Record \cup {NoRecord}
  BY DEF TypeOK
<1>2. QED
  BY <1>1, Constants DEF Record, NoRecord

LEMMA EndType ==
    ASSUME TypeOK, NEW r \in Request, EndTransaction(r)
    PROVE  /\ lock' \in [LockName -> Request \cup {Nobody}]
           /\ seen' \in [Request -> Request \cup {Nobody}]
           /\ planSeen' \in [Request -> Plan \cup {NoPlan}]
           /\ code' \in [Request -> Code \cup {Generated}]
           /\ tries' \in [Request -> 0..MaxGenerations]
           /\ claim' \in [Request -> Record \cup {NoRecord}]
           /\ draft' \in [Request -> Row \cup {NoRow}]
  BY Constants DEF TypeOK, EndTransaction

LEMMA AnswerType ==
    ASSUME TypeOK, NEW r \in Request, NEW kind \in Kind, NEW link \in Request \cup {Nobody},
           Answer(r, kind, link)
    PROVE  reply' \in [Request -> [kind: Kind, link: Request \cup {Nobody}]]
  BY DEF TypeOK, Answer

LEMMA RefuseType ==
    ASSUME TypeOK, NEW r \in Request, NEW kind \in Kind, Refuse(r, kind)
    PROVE  /\ lock' \in [LockName -> Request \cup {Nobody}]
           /\ seen' \in [Request -> Request \cup {Nobody}]
           /\ planSeen' \in [Request -> Plan \cup {NoPlan}]
           /\ code' \in [Request -> Code \cup {Generated}]
           /\ tries' \in [Request -> 0..MaxGenerations]
           /\ claim' \in [Request -> Record \cup {NoRecord}]
           /\ draft' \in [Request -> Row \cup {NoRow}]
           /\ reply' \in [Request -> [kind: Kind, link: Request \cup {Nobody}]]
           /\ pc' \in [Request -> Step]
<1>1. EndTransaction(r) /\ Answer(r, kind, Nobody) /\ Goto(r, "done")
  BY DEF Refuse
<1>2. pc' \in [Request -> Step]
  BY <1>1 DEF TypeOK, Goto, Step
<1>3. QED
  BY <1>1, <1>2, EndType, AnswerType

\* Moving on, with or without a lock, keeps the types.
LEMMA GotoType ==
    ASSUME TypeOK, NEW r \in Request, NEW step \in Step, Goto(r, step)
    PROVE  pc' \in [Request -> Step]
  BY DEF TypeOK, Goto

LEMMA AcquireType ==
    ASSUME TypeOK, NEW r \in Request, NEW l, Acquire(l, r)
    PROVE  lock' \in [LockName -> Request \cup {Nobody}]
  BY DEF TypeOK, Acquire

LEMMA ClaimType ==
    ASSUME TypeOK, NEW r \in Request, NEW status \in {"processing", "completed"},
           NEW link \in Request \cup {Nobody}
    PROVE  ClaimOf(r, status, link) \in Record
  BY Asked, Constants DEF TypeOK, ClaimOf, Record

\* The statements of the claim.
LEMMA ClaimingType ==
    ASSUME IInv, NEW r \in Request,
           Begin(r) \/ Lookup(r) \/ LockRecord(r) \/ InsertClaim(r) \/ GetRecord(r)
              \/ LockExisting(r) \/ AnswerFromRecord(r)
    PROVE  TypeOK'
<1> USE DEF worldVars, localVars
<1>0. TypeOK /\ ClaimInv(r)
  BY DEF IInv
<1>1. CASE Begin(r)
  <2>1. pc' \in [Request -> Step]
    BY <1>0, <1>1 DEF Begin, Goto, TypeOK, Step
  <2>2. QED
    BY <1>0, <1>1, <2>1 DEF Begin, TypeOK
<1>2. CASE Lookup(r)
  <2>1. pc' \in [Request -> Step]
    BY <1>0, <1>2 DEF Lookup, Goto, TypeOK, Step
  <2>2. record[KeyOf(r)].by \in Request \cup {Nobody}
    BY <1>0, <1>2, Asked, Found DEF Lookup, ClaimInv, Keyed
  <2>3. QED
    BY <1>0, <1>2, <2>1, <2>2 DEF Lookup, TypeOK
<1>3. CASE LockRecord(r)
  <2>1. pc' \in [Request -> Step]
    <3>1. \E step \in {"insert claim", "existing"} : Goto(r, step)
      BY <1>3 DEF LockRecord
    <3>2. QED
      BY <1>0, <3>1, GotoType DEF Step
  <2>2. lock' \in [LockName -> Request \cup {Nobody}]
    BY <1>0, <1>3 DEF LockRecord, Acquire, TypeOK
  <2>3. QED
    BY <1>0, <1>3, <2>1, <2>2 DEF LockRecord, TypeOK
<1>4. CASE InsertClaim(r)
  <2>1. pc' \in [Request -> Step]
    <3>1. \E step \in {"subscription", "get record"} : Goto(r, step)
      BY <1>4 DEF InsertClaim
    <3>2. QED
      BY <1>0, <3>1, GotoType DEF Step
  <2>2. lock' \in [LockName -> Request \cup {Nobody}]
    BY <1>0, <1>4 DEF InsertClaim, Acquire, TypeOK
  <2>3. claim' \in [Request -> Record \cup {NoRecord}]
    <3>1. claim' = claim \/ claim' = [claim EXCEPT ![r] = ClaimOf(r, "processing", Nobody)]
      BY <1>4 DEF InsertClaim, ClaimOf
    <3>2. ClaimOf(r, "processing", Nobody) \in Record
      BY <1>0, ClaimType
    <3>3. QED
      BY <1>0, <3>1, <3>2 DEF TypeOK
  <2>4. QED
    BY <1>0, <1>4, <2>1, <2>2, <2>3 DEF InsertClaim, TypeOK
<1>5. CASE GetRecord(r)
  <2>1. CASE record[KeyOf(r)] = NoRecord
    <3>1. Refuse(r, "error") /\ "error" \in Kind
      BY <1>5, <2>1 DEF GetRecord, Kind
    <3>2. QED
      BY <1>0, <1>5, <3>1, RefuseType DEF GetRecord, TypeOK
  <2>2. CASE record[KeyOf(r)] # NoRecord
    <3>1. record[KeyOf(r)].by \in Request \cup {Nobody}
      BY <1>0, <1>5, Asked, Found DEF GetRecord, ClaimInv, Keyed
    <3>2. QED
      BY <1>0, <1>5, <2>2, <3>1, GotoType DEF GetRecord, TypeOK, Step
  <2>3. QED
    BY <2>1, <2>2
<1>5a. CASE LockExisting(r)
  <2>1. CASE Refuse(r, "error")
    <3>1. "error" \in Kind
      BY DEF Kind
    <3>2. QED
      BY <1>0, <1>5a, <2>1, <3>1, RefuseType DEF LockExisting, TypeOK
  <2>2. CASE ~Refuse(r, "error")
    BY <1>0, <1>5a, <2>2, AcquireType, GotoType DEF LockExisting, TypeOK, Step
  <2>3. QED
    BY <2>1, <2>2
<1>6. CASE AnswerFromRecord(r)
  <2>1. EndTransaction(r) /\ Goto(r, "done") /\ "done" \in Step
    BY <1>6 DEF AnswerFromRecord, Step
  <2>2. record[KeyOf(r)].link \in Request \cup {Nobody}
    BY <1>0, <1>6, Asked, Found DEF AnswerFromRecord, ClaimInv, Keyed
  <2>3. reply' \in [Request -> [kind: Kind, link: Request \cup {Nobody}]]
    BY <1>0, <1>6, <2>2, AnswerType DEF AnswerFromRecord, Kind
  <2>4. QED
    BY <1>0, <1>6, <2>1, <2>3, EndType, GotoType DEF AnswerFromRecord, TypeOK
<1>7. QED
  BY <1>1, <1>2, <1>3, <1>4, <1>5, <1>5a, <1>6

\* The statements of the creation, the commit, the answer and the crash.
LEMMA CreatingType ==
    ASSUME IInv, NEW r \in Request,
           FindSubscription(r) \/ LockSubscription(r) \/ LockPlan(r) \/ CountRows(r)
              \/ PickCode(r) \/ InsertLink(r) \/ InsertEndpoint(r)
    PROVE  TypeOK'
<1> USE DEF worldVars, localVars
<1>0. TypeOK /\ OwnerOf(r) \in Owner
  BY Asked DEF IInv
<1>1. CASE FindSubscription(r)
  <2>1. CASE plan[OwnerOf(r)] = NoPlan
    <3>1. Refuse(r, "no subscription") /\ "no subscription" \in Kind
      BY <1>1, <2>1 DEF FindSubscription, Kind
    <3>2. QED
      BY <1>0, <1>1, <3>1, RefuseType DEF FindSubscription, TypeOK
  <2>2. CASE plan[OwnerOf(r)] # NoPlan
    <3>1. Goto(r, "lock subscription") /\ "lock subscription" \in Step
      BY <1>1, <2>2 DEF FindSubscription, Step
    <3>2. QED
      BY <1>0, <1>1, <2>2, <3>1, GotoType DEF FindSubscription, TypeOK
  <2>3. QED
    BY <2>1, <2>2
<1>2. CASE LockSubscription(r)
  <2>1. CASE plan[OwnerOf(r)] # planSeen[r]
    <3>1. Refuse(r, "no subscription") /\ "no subscription" \in Kind
      BY <1>2, <2>1 DEF LockSubscription, Kind
    <3>2. QED
      BY <1>0, <1>2, <3>1, RefuseType DEF LockSubscription, TypeOK
  <2>2. CASE plan[OwnerOf(r)] = planSeen[r]
    <3>1. Goto(r, "lock plan") /\ "lock plan" \in Step
      BY <1>2, <2>2 DEF LockSubscription, Step
    <3>2. QED
      BY <1>0, <1>2, <2>2, <3>1, GotoType, AcquireType DEF LockSubscription, TypeOK
  <2>3. QED
    BY <2>1, <2>2
<1>3. CASE LockPlan(r)
  <2>1. Goto(r, "count") /\ "count" \in Step
    BY <1>3 DEF LockPlan, Step
  <2>2. QED
    BY <1>0, <1>3, <2>1, GotoType, AcquireType DEF LockPlan, TypeOK
<1>4. CASE CountRows(r)
  <2>1. CASE Below(r)
    <3>1. \E step \in {"pick code", "insert endpoint"} : Goto(r, step)
      BY <1>4, <2>1 DEF CountRows
    <3>2. pc' \in [Request -> Step]
      BY <1>0, <3>1, GotoType DEF Step
    <3>3. QED
      BY <1>0, <1>4, <2>1, <3>2 DEF CountRows, TypeOK
  <2>2. CASE ~Below(r)
    <3>1. Refuse(r, "limit reached") /\ "limit reached" \in Kind
      BY <1>4, <2>2 DEF CountRows, Kind
    <3>2. QED
      BY <1>0, <1>4, <3>1, RefuseType DEF CountRows, TypeOK
  <2>3. QED
    BY <2>1, <2>2
<1>5. CASE PickCode(r)
  <2>1. CASE request[r].alias # Generated
    <3>1. Goto(r, "insert link") /\ "insert link" \in Step
      BY <1>5, <2>1 DEF PickCode, Step
    <3>2. request[r].alias \in Code \cup {Generated}
      BY <1>0, Asked
    <3>3. QED
      BY <1>0, <1>5, <2>1, <3>1, <3>2, GotoType DEF PickCode, TypeOK
  <2>2. CASE request[r].alias = Generated /\ MayGenerate(r)
    <3>1. \E step \in {"pick code", "insert link"} : Goto(r, step)
      BY <1>5, <2>2 DEF PickCode
    <3>2. pc' \in [Request -> Step]
      BY <1>0, <3>1, GotoType DEF Step
    <3>3. tries' \in [Request -> 0..MaxGenerations]
      <4>1. tries[r] \in 0..MaxGenerations /\ tries[r] < MaxGenerations
        BY <1>0, <2>2 DEF MayGenerate, TypeOK
      <4>2. tries[r] + 1 \in 0..MaxGenerations
        BY <4>1, Constants
      <4>3. tries' = [tries EXCEPT ![r] = tries[r] + 1]
        BY <1>5, <2>2 DEF PickCode
      <4>4. QED
        BY <1>0, <4>2, <4>3 DEF TypeOK
    <3>4. code' \in [Request -> Code \cup {Generated}]
      BY <1>0, <1>5, <2>2 DEF PickCode, TypeOK
    <3>5. QED
      BY <1>0, <1>5, <2>2, <3>2, <3>3, <3>4 DEF PickCode, TypeOK
  <2>3. CASE request[r].alias = Generated /\ ~MayGenerate(r)
    <3>1. Refuse(r, "exhausted") /\ "exhausted" \in Kind
      BY <1>5, <2>3 DEF PickCode, Kind
    <3>2. QED
      BY <1>0, <1>5, <3>1, RefuseType DEF PickCode, TypeOK
  <2>4. QED
    BY <2>1, <2>2, <2>3
<1>6. CASE InsertLink(r)
  <2>1. CASE \A l \in rows["link"] : l.code # code[r]
    <3>1. Goto(r, AfterInsert(r)) /\ AfterInsert(r) \in Step
      BY <1>6, <2>1 DEF InsertLink, AfterInsert, Step
    <3>2. [owner |-> OwnerOf(r), code |-> code[r], by |-> r] \in Row
      BY <1>0 DEF Row, TypeOK
    <3>3. draft' \in [Request -> Row \cup {NoRow}]
      BY <1>0, <1>6, <2>1, <3>2 DEF InsertLink, TypeOK
    <3>4. QED
      BY <1>0, <1>6, <2>1, <3>1, <3>3, GotoType, AcquireType DEF InsertLink, TypeOK
  <2>2. CASE /\ \E l \in rows["link"] : l.code = code[r]
             /\ request[r].alias = Generated
    <3>1. Goto(r, "pick code") /\ "pick code" \in Step
      BY <1>6, <2>2 DEF InsertLink, Step
    <3>2. QED
      BY <1>0, <1>6, <2>2, <3>1, GotoType DEF InsertLink, TypeOK
  <2>3. CASE /\ \E l \in rows["link"] : l.code = code[r]
             /\ request[r].alias # Generated
    <3>1. Refuse(r, "alias taken") /\ "alias taken" \in Kind
      BY <1>6, <2>3 DEF InsertLink, Kind
    <3>2. QED
      BY <1>0, <1>6, <3>1, RefuseType DEF InsertLink, TypeOK
  <2>4. QED
    BY <2>1, <2>2, <2>3
<1>7. CASE InsertEndpoint(r)
  <2>1. Goto(r, "commit") /\ "commit" \in Step
    BY <1>7 DEF InsertEndpoint, Step
  <2>2. [owner |-> OwnerOf(r), code |-> Generated, by |-> r] \in Row
    BY <1>0 DEF Row
  <2>3. QED
    BY <1>0, <1>7, <2>1, <2>2, GotoType DEF InsertEndpoint, TypeOK
<1>8. QED
  BY <1>1, <1>2, <1>3, <1>4, <1>5, <1>6, <1>7

LEMMA EndingType ==
    ASSUME IInv, NEW r \in Request,
           Complete(r) \/ Commit(r) \/ Announce(r) \/ Crash(r)
    PROVE  TypeOK'
<1> USE DEF worldVars, localVars
<1>0. TypeOK /\ ClaimInv(r) /\ CountInv(r)
  BY DEF IInv
<1>1. CASE Complete(r)
  <2>1. Goto(r, "commit") /\ "commit" \in Step
    BY <1>1 DEF Complete, Step
  <2>2. claim[r] \in Record /\ draft[r].by = r
    BY <1>0, <1>1, ClaimType
       DEF Complete, ClaimInv, CountInv, Claiming, Subscribed, Planned, Counted
  <2>3. [claim[r] EXCEPT !.status = "completed", !.link = draft[r].by] \in Record
    BY <2>2 DEF Record
  <2>4. claim' = [claim EXCEPT ![r] = [claim[r] EXCEPT !.status = "completed",
                                                       !.link = draft[r].by]]
    BY <1>0, <1>1, <2>2 DEF Complete, TypeOK, Record
  <2>5. claim' \in [Request -> Record \cup {NoRecord}]
    BY <1>0, <2>3, <2>4 DEF TypeOK
  <2>6. QED
    BY <1>0, <1>1, <2>1, <2>5, GotoType DEF Complete, TypeOK
<1>2. CASE Commit(r)
  <2>1. EndTransaction(r) /\ Goto(r, "announce") /\ "announce" \in Step
    BY <1>2 DEF Commit, Step
  <2>2. draft[r] \in Row
    BY <1>0, <1>2 DEF Commit, CountInv
  <2>3. rows' \in [What -> SUBSET Row]
    BY <1>0, <1>2, <2>2 DEF Commit, TypeOK
  <2>4. record' \in [Key -> Record \cup {NoRecord}]
    BY <1>0, <1>2 DEF Commit, TypeOK
  <2>5. made' \subseteq Request
    BY <1>0, <1>2 DEF Commit, TypeOK
  <2>6. QED
    BY <1>0, <1>2, <2>1, <2>3, <2>4, <2>5, EndType, GotoType DEF Commit, TypeOK
<1>3. CASE Announce(r)
  <2>1. Answer(r, "created", r) /\ "created" \in Kind /\ Goto(r, "done") /\ "done" \in Step
    BY <1>3 DEF Announce, Kind, Step
  <2>2. QED
    BY <1>0, <1>3, <2>1, AnswerType, GotoType DEF Announce, TypeOK
<1>4. CASE Crash(r)
  <2>1. EndTransaction(r) /\ Goto(r, "done") /\ "done" \in Step
    BY <1>4 DEF Crash, Step
  <2>2. QED
    BY <1>0, <1>4, <2>1, EndType, GotoType DEF Crash, TypeOK
<1>5. QED
  BY <1>1, <1>2, <1>3, <1>4

\* Everybody else: plan changes, deletions, the cleanup and the clock.
Others ==
    \/ \E o \in Owner, p \in Plan : ChangePlan(o, p)
    \/ \E p \in Plan : EditPlan(p)
    \/ \E w \in What : \E l \in rows[w] : DeleteRow(w, l)
    \/ DeleteExpired
    \/ Tick

LEMMA OthersType ==
    ASSUME TypeOK, Others
    PROVE  TypeOK'
<1> USE DEF localVars
<1>1. ASSUME NEW o \in Owner, NEW p \in Plan, ChangePlan(o, p)
      PROVE  TypeOK'
  BY <1>1 DEF ChangePlan, TypeOK
<1>2. ASSUME NEW p \in Plan, EditPlan(p)
      PROVE  TypeOK'
  BY <1>2, Constants DEF EditPlan, TypeOK
<1>3. ASSUME NEW w \in What, NEW l \in rows[w], DeleteRow(w, l)
      PROVE  TypeOK'
  BY <1>3 DEF DeleteRow, TypeOK
<1>4. CASE DeleteExpired
  BY <1>4 DEF DeleteExpired, TypeOK
<1>5. CASE Tick
  BY <1>5 DEF Tick, TypeOK
<1>6. QED
  BY <1>1, <1>2, <1>3, <1>4, <1>5 DEF Others

LEMMA InitType == Init => TypeOK
<1> SUFFICES ASSUME Init PROVE TypeOK
  OBVIOUS
<1>1. limit \in [Plan -> [What -> Nat]]
  BY Constants DEF Init
<1>2. reply \in [Request -> [kind: Kind, link: Request \cup {Nobody}]]
  BY DEF Init, NoReply, Kind
<1>3. tries \in [Request -> 0..MaxGenerations]
  BY Constants DEF Init
<1>4. pc \in [Request -> Step]
  BY DEF Init, Step
<1>5. QED
  BY <1>1, <1>2, <1>3, <1>4 DEF Init, TypeOK

-----------------------------------------------------------------------------
(* What the step of one request leaves alone.                              *)

Move(r) == Begin(r) \/ Statement(r) \/ Crash(r)

\* What a request holds in its own variables ...
KeptLocal(q) ==
    /\ code'[q] = code[q]
    /\ seen'[q] = seen[q]
    /\ planSeen'[q] = planSeen[q]
    /\ claim'[q] = claim[q]
    /\ draft'[q] = draft[q]

\* ... where it stands, what it was answered, and the locks it has.
Kept(q) ==
    /\ KeptLocal(q)
    /\ pc'[q] = pc[q]
    /\ now'[q] = now[q]
    /\ reply'[q] = reply[q]
    /\ q \in made' <=> q \in made
    /\ \A l \in LockName : lock'[l] = q <=> lock[l] = q

LEMMA EndKept ==
    ASSUME TypeOK, NEW r \in Request, NEW q \in Request, q # r, EndTransaction(r)
    PROVE  /\ KeptLocal(q)
           /\ \A l \in LockName : lock'[l] = q <=> lock[l] = q
  BY Constants DEF TypeOK, EndTransaction, KeptLocal

LEMMA AcquireKept ==
    ASSUME TypeOK, NEW r \in Request, NEW q \in Request, q # r, NEW l, Free(l), Acquire(l, r)
    PROVE  \A m \in LockName : lock'[m] = q <=> lock[m] = q
  BY Constants DEF TypeOK, Acquire, Free

LEMMA GotoKept ==
    ASSUME TypeOK, NEW r \in Request, NEW q \in Request, q # r, NEW step, Goto(r, step)
    PROVE  pc'[q] = pc[q]
  BY DEF TypeOK, Goto

LEMMA AnswerKept ==
    ASSUME TypeOK, NEW r \in Request, NEW q \in Request, q # r, NEW kind, NEW link,
           Answer(r, kind, link)
    PROVE  reply'[q] = reply[q]
  BY DEF TypeOK, Answer

LEMMA RefuseKept ==
    ASSUME TypeOK, NEW r \in Request, NEW q \in Request, q # r, NEW kind, Refuse(r, kind),
           now' = now, made' = made
    PROVE  Kept(q)
  BY EndKept, GotoKept, AnswerKept DEF Refuse, Kept

LEMMA MoveKept ==
    ASSUME TypeOK, NEW r \in Request, NEW q \in Request, q # r, Move(r)
    PROVE  Kept(q)
<1> USE DEF worldVars, localVars
<1>1. CASE Begin(r)
  BY <1>1 DEF Begin, Goto, Kept, KeptLocal, TypeOK
<1>2. CASE Lookup(r)
  BY <1>2 DEF Lookup, Goto, Kept, KeptLocal, TypeOK
<1>3. CASE LockRecord(r)
  <2>1. pc'[q] = pc[q]
    BY <1>3, GotoKept DEF LockRecord
  <2>2. \A m \in LockName : lock'[m] = q <=> lock[m] = q
    BY <1>3, AcquireKept DEF LockRecord
  <2>3. QED
    BY <1>3, <2>1, <2>2 DEF LockRecord, Kept, KeptLocal
<1>4. CASE InsertClaim(r)
  <2>1. pc'[q] = pc[q]
    BY <1>4, GotoKept DEF InsertClaim
  <2>2. \A m \in LockName : lock'[m] = q <=> lock[m] = q
    BY <1>4, AcquireKept DEF InsertClaim, ClaimFree
  <2>3. claim'[q] = claim[q]
    BY <1>4 DEF InsertClaim, TypeOK
  <2>4. QED
    BY <1>4, <2>1, <2>2, <2>3 DEF InsertClaim, Kept, KeptLocal
<1>5. CASE GetRecord(r)
  <2>1. CASE record[KeyOf(r)] = NoRecord
    BY <1>5, <2>1, RefuseKept DEF GetRecord
  <2>2. CASE record[KeyOf(r)] # NoRecord
    BY <1>5, <2>2, GotoKept DEF GetRecord, Kept, KeptLocal, TypeOK
  <2>3. QED
    BY <2>1, <2>2
<1>5a. CASE LockExisting(r)
  <2>1. CASE Refuse(r, "error")
    BY <1>5a, <2>1, RefuseKept DEF LockExisting
  <2>2. CASE ~Refuse(r, "error")
    BY <1>5a, <2>2, AcquireKept, GotoKept DEF LockExisting, Kept, KeptLocal
  <2>3. QED
    BY <2>1, <2>2
<1>6. CASE AnswerFromRecord(r)
  <2>1. reply'[q] = reply[q]
    BY <1>6, AnswerKept DEF AnswerFromRecord
  <2>2. QED
    BY <1>6, <2>1, EndKept, GotoKept DEF AnswerFromRecord, Kept
<1>7. CASE FindSubscription(r)
  <2>1. CASE plan[OwnerOf(r)] = NoPlan
    BY <1>7, <2>1, RefuseKept DEF FindSubscription
  <2>2. CASE plan[OwnerOf(r)] # NoPlan
    <3>1. planSeen'[q] = planSeen[q]
      BY <1>7, <2>2 DEF FindSubscription, TypeOK
    <3>2. QED
      BY <1>7, <2>2, <3>1, GotoKept DEF FindSubscription, Kept, KeptLocal
  <2>3. QED
    BY <2>1, <2>2
<1>8. CASE LockSubscription(r)
  <2>1. CASE plan[OwnerOf(r)] # planSeen[r]
    BY <1>8, <2>1, RefuseKept DEF LockSubscription
  <2>2. CASE plan[OwnerOf(r)] = planSeen[r]
    BY <1>8, <2>2, AcquireKept, GotoKept DEF LockSubscription, Kept, KeptLocal
  <2>3. QED
    BY <2>1, <2>2
<1>9. CASE LockPlan(r)
  BY <1>9, AcquireKept, GotoKept DEF LockPlan, Kept, KeptLocal
<1>10. CASE CountRows(r)
  <2>1. CASE Below(r)
    BY <1>10, <2>1, GotoKept DEF CountRows, Kept, KeptLocal
  <2>2. CASE ~Below(r)
    BY <1>10, <2>2, RefuseKept DEF CountRows
  <2>3. QED
    BY <2>1, <2>2
<1>11. CASE PickCode(r)
  <2>1. CASE Refuse(r, "exhausted")
    BY <1>11, <2>1, RefuseKept DEF PickCode
  <2>2. CASE ~Refuse(r, "exhausted")
    <3>1. pc'[q] = pc[q]
      BY <1>11, <2>2, GotoKept DEF PickCode
    <3>2. code'[q] = code[q]
      <4>1. \E c : code' = [code EXCEPT ![r] = c]
        BY <1>11, <2>2 DEF PickCode
      <4>2. QED
        BY <4>1 DEF TypeOK
    <3>3. QED
      BY <1>11, <2>2, <3>1, <3>2 DEF PickCode, Kept, KeptLocal
  <2>3. QED
    BY <2>1, <2>2
<1>12. CASE InsertLink(r)
  <2>1. CASE Refuse(r, "alias taken")
    BY <1>12, <2>1, RefuseKept DEF InsertLink
  <2>2. CASE ~Refuse(r, "alias taken")
    <3>1. pc'[q] = pc[q]
      BY <1>12, <2>2, GotoKept DEF InsertLink
    <3>2. \A m \in LockName : lock'[m] = q <=> lock[m] = q
      BY <1>12, <2>2, AcquireKept DEF InsertLink
    <3>3. draft'[q] = draft[q]
      BY <1>12, <2>2 DEF InsertLink, TypeOK
    <3>4. QED
      BY <1>12, <2>2, <3>1, <3>2, <3>3 DEF InsertLink, Kept, KeptLocal
  <2>3. QED
    BY <2>1, <2>2
<1>13. CASE InsertEndpoint(r)
  BY <1>13 DEF InsertEndpoint, Goto, Kept, KeptLocal, TypeOK
<1>14. CASE Complete(r)
  BY <1>14 DEF Complete, Goto, Kept, KeptLocal, TypeOK
<1>15. CASE Commit(r)
  BY <1>15, EndKept, GotoKept DEF Commit, Kept
<1>16. CASE Announce(r)
  BY <1>16, AnswerKept, GotoKept DEF Announce, Kept, KeptLocal
<1>17. CASE Crash(r)
  BY <1>17, EndKept, GotoKept DEF Crash, Kept
<1>18. QED
  BY <1>1, <1>2, <1>3, <1>4, <1>5, <1>5a, <1>6, <1>7, <1>8, <1>9, <1>10, <1>11, <1>12,
     <1>13, <1>14, <1>15, <1>16, <1>17 DEF Move, Statement

\* Requests change neither the clock nor the plans, and only a commit changes
\* what the others read.
LEMMA MoveWorld ==
    ASSUME NEW r \in Request, Move(r)
    PROVE  /\ request' = request
           /\ clock' = clock
           /\ plan' = plan
           /\ limit' = limit
           /\ (rows' = rows /\ record' = record /\ made' = made) \/ Commit(r)
  BY DEF Move, Statement, worldVars, Begin, Lookup, LockRecord, InsertClaim, GetRecord,
         LockExisting, AnswerFromRecord, FindSubscription, LockSubscription, LockPlan, CountRows,
         PickCode, InsertLink, InsertEndpoint, Complete, Commit, Announce, Crash

-----------------------------------------------------------------------------
(* The shapes of a step: how a request goes on, and how it ends.           *)

Refusals == {"alias taken", "limit reached", "no subscription", "exhausted", "error"}

Advance(r) ==
    /\ InTransaction(r)
    /\ pc'[r] \notin {"idle", "announce", "done"}
    /\ UNCHANGED <<worldVars, request, now, reply, made>>

Refused(r) ==
    /\ InTransaction(r)
    /\ \E kind \in Refusals : Refuse(r, kind)
    /\ UNCHANGED <<worldVars, request, now, made>>

LEMMA AdvanceShape ==
    ASSUME TypeOK, NEW r \in Request, NEW from \in Step, NEW step, pc[r] = from,
           from \notin {"idle", "announce", "done"},
           Goto(r, step), step \notin {"idle", "announce", "done"},
           UNCHANGED <<worldVars, request, now, reply, made>>
    PROVE  Advance(r)
  BY DEF TypeOK, Goto, Advance, InTransaction

LEMMA Shape ==
    ASSUME TypeOK, NEW r \in Request, Move(r)
    PROVE  \/ Begin(r)
           \/ Advance(r)
           \/ Refused(r)
           \/ AnswerFromRecord(r) \/ Commit(r) \/ Announce(r) \/ Crash(r)
<1> USE DEF localVars, InTransaction
<1>1. CASE Lookup(r)
  BY <1>1 DEF Lookup, Goto, TypeOK, Advance
<1>2. CASE LockRecord(r)
  BY <1>2 DEF LockRecord, Goto, TypeOK, Advance
<1>3. CASE InsertClaim(r)
  <2>1. \E step \in {"subscription", "get record"} : Goto(r, step)
    BY <1>3 DEF InsertClaim
  <2>2. pc[r] = "insert claim" /\ UNCHANGED <<worldVars, request, now, reply, made>>
    BY <1>3 DEF InsertClaim
  <2>3. QED
    BY <2>1, <2>2 DEF Goto, TypeOK, Advance
<1>4. CASE GetRecord(r)
  <2>1. pc[r] = "get record" /\ UNCHANGED <<worldVars, request, now, made>>
    BY <1>4 DEF GetRecord
  <2>2. Refuse(r, "error") \/ (Goto(r, "lock existing") /\ reply' = reply)
    BY <1>4 DEF GetRecord
  <2>3. QED
    BY <2>1, <2>2 DEF Goto, TypeOK, Advance, Refused, Refusals
<1>4a. CASE LockExisting(r)
  <2>1. pc[r] = "lock existing" /\ UNCHANGED <<worldVars, request, now, made>>
    BY <1>4a DEF LockExisting
  <2>2. Refuse(r, "error") \/ (Goto(r, "existing") /\ reply' = reply)
    BY <1>4a DEF LockExisting
  <2>3. QED
    BY <2>1, <2>2 DEF Goto, TypeOK, Advance, Refused, Refusals
<1>5. CASE FindSubscription(r)
  <2>1. pc[r] = "subscription" /\ UNCHANGED <<worldVars, request, now, made>>
    BY <1>5 DEF FindSubscription
  <2>2. Refuse(r, "no subscription") \/ (Goto(r, "lock subscription") /\ reply' = reply)
    BY <1>5 DEF FindSubscription
  <2>3. QED
    BY <2>1, <2>2 DEF Goto, TypeOK, Advance, Refused, Refusals
<1>6. CASE LockSubscription(r)
  <2>1. pc[r] = "lock subscription" /\ UNCHANGED <<worldVars, request, now, made>>
    BY <1>6 DEF LockSubscription
  <2>2. Refuse(r, "no subscription") \/ (Goto(r, "lock plan") /\ reply' = reply)
    BY <1>6 DEF LockSubscription
  <2>3. QED
    BY <2>1, <2>2 DEF Goto, TypeOK, Advance, Refused, Refusals
<1>7. CASE LockPlan(r)
  BY <1>7 DEF LockPlan, Goto, TypeOK, Advance
<1>8. CASE CountRows(r)
  <2>1. pc[r] = "count" /\ UNCHANGED <<worldVars, request, now, made>>
    BY <1>8 DEF CountRows
  <2>2. \/ Refuse(r, "limit reached")
        \/ /\ \E step \in {"pick code", "insert endpoint"} : Goto(r, step)
           /\ reply' = reply
    BY <1>8 DEF CountRows
  <2>3. QED
    BY <2>1, <2>2 DEF Goto, TypeOK, Advance, Refused, Refusals
<1>9. CASE PickCode(r)
  <2>1. pc[r] = "pick code" /\ UNCHANGED <<worldVars, request, now, made>>
    BY <1>9 DEF PickCode
  <2>2. \/ Refuse(r, "exhausted")
        \/ /\ \E step \in {"pick code", "insert link"} : Goto(r, step)
           /\ reply' = reply
    BY <1>9 DEF PickCode
  <2>3. QED
    BY <2>1, <2>2 DEF Goto, TypeOK, Advance, Refused, Refusals
<1>10. CASE InsertLink(r)
  <2>1. pc[r] = "insert link" /\ UNCHANGED <<worldVars, request, now, made>>
    BY <1>10 DEF InsertLink
  <2>2. \/ Refuse(r, "alias taken")
        \/ /\ \E step \in {"pick code", "complete", "commit"} : Goto(r, step)
           /\ reply' = reply
    BY <1>10 DEF InsertLink, AfterInsert
  <2>3. QED
    BY <2>1, <2>2 DEF Goto, TypeOK, Advance, Refused, Refusals
<1>11. CASE InsertEndpoint(r)
  BY <1>11 DEF InsertEndpoint, Goto, TypeOK, Advance
<1>12. CASE Complete(r)
  BY <1>12 DEF Complete, Goto, TypeOK, Advance
<1>13. QED
  BY <1>1, <1>2, <1>3, <1>4, <1>4a, <1>5, <1>6, <1>7, <1>8, <1>9, <1>10, <1>11, <1>12
     DEF Move, Statement

LEMMA EndReleases ==
    ASSUME TypeOK, NEW r \in Request, EndTransaction(r)
    PROVE  \A l \in LockName : lock'[l] # r
  BY Constants DEF TypeOK, EndTransaction

LEMMA GotoPC ==
    ASSUME TypeOK, NEW r \in Request, NEW step, Goto(r, step)
    PROVE  pc'[r] = step
  BY DEF TypeOK, Goto

LEMMA AnswerReply ==
    ASSUME TypeOK, NEW r \in Request, NEW kind, NEW link, Answer(r, kind, link)
    PROVE  /\ reply'[r] = [kind |-> kind, link |-> link]
           /\ reply'[r].kind = kind
           /\ reply'[r].link = link
<1>1. reply'[r] = [kind |-> kind, link |-> link]
  BY DEF TypeOK, Answer
<1>2. QED
  BY <1>1

LEMMA Unanswered == NoReply.kind = "none"
  BY DEF NoReply

-----------------------------------------------------------------------------
(* Times, answers and locks of the request that moves.                     *)

\* The answer of a record is never "in progress".
LEMMA ExistingRecord ==
    ASSUME IInv, NEW r \in Request, AnswerFromRecord(r)
    PROVE  /\ KeyOf(r) \in Key
           /\ record[KeyOf(r)] # NoRecord
           /\ \/ SameBody(r) /\ Answer(r, "replayed", record[KeyOf(r)].by)
              \/ ~SameBody(r) /\ Answer(r, "conflict", Nobody)
<1>1. TypeOK /\ ClaimInv(r) /\ pc[r] = "existing"
  BY DEF IInv, AnswerFromRecord
<1>2. KeyOf(r) \in Key /\ lock[<<"record", KeyOf(r)>>] = r
  BY <1>1, Asked DEF ClaimInv, Keyed
<1>3. RecordInv(KeyOf(r))
  BY <1>2 DEF IInv
<1>4. record[KeyOf(r)] # NoRecord
  BY <1>2, <1>3, Constants DEF RecordInv
<1>5. record[KeyOf(r)] = ClaimOf(record[KeyOf(r)].by, "completed", record[KeyOf(r)].by)
  BY <1>3, <1>4 DEF RecordInv
<1>6. /\ record[KeyOf(r)].status = "completed"
      /\ record[KeyOf(r)].link = record[KeyOf(r)].by
  <2> DEFINE b == record[KeyOf(r)].by
  <2>1. record[KeyOf(r)] = ClaimOf(b, "completed", b)
    BY <1>5
  <2>2. ClaimOf(b, "completed", b).status = "completed" /\ ClaimOf(b, "completed", b).link = b
    BY DEF ClaimOf
  <2>3. QED
    BY <2>1, <2>2
<1>7. QED
  BY <1>2, <1>4, <1>6 DEF AnswerFromRecord

LEMMA TimeSelf ==
    ASSUME IInv, NEW r \in Request, Move(r)
    PROVE  TimeInv(r)'
<1>0. TypeOK /\ TimeInv(r)
  BY DEF IInv
<1> USE DEF TimeInv, InTransaction
<1>1. CASE Begin(r)
  <2>1. pc'[r] \in {"subscription", "lookup"} /\ pc[r] = "idle"
    BY <1>0, <1>1, GotoPC DEF Begin
  <2>2. now'[r] = clock /\ clock' = clock /\ reply' = reply /\ made' = made /\ lock' = lock
    BY <1>0, <1>1 DEF Begin, TypeOK, worldVars
  <2>3. clock <= clock /\ clock <= clock + 1
    <3>1. clock \in Nat
      BY <1>0 DEF TypeOK
    <3>2. QED
      BY <3>1
  <2>4. r \notin made /\ \A l \in LockName : lock[l] # r
    BY <1>0, <2>1
  <2>5. reply[r] = NoReply
    BY <1>0, <2>1
  <2>6. QED
    BY <2>1, <2>2, <2>3, <2>4, <2>5, Unanswered
<1>2. CASE Advance(r)
  BY <1>0, <1>2 DEF Advance, worldVars, NoReply
<1>3. CASE Refused(r)
  <2>1. PICK kind \in Refusals : Refuse(r, kind)
    BY <1>3 DEF Refused
  <2>2. pc'[r] = "done" /\ reply'[r].kind = kind
    <3>1. Goto(r, "done") /\ Answer(r, kind, Nobody)
      BY <2>1 DEF Refuse
    <3>2. QED
      BY <1>0, <3>1, GotoPC, AnswerReply
  <2>3. \A l \in LockName : lock'[l] # r
    BY <1>0, <2>1, EndReleases DEF Refuse
  <2>4. QED
    BY <1>0, <1>3, <2>2, <2>3 DEF Refused, Refusals, worldVars
<1>4. CASE AnswerFromRecord(r)
  <2>1. pc'[r] = "done" /\ pc[r] = "existing"
    BY <1>0, <1>4, GotoPC DEF AnswerFromRecord
  <2>2. reply'[r].kind \in {"replayed", "conflict"}
    <3>1. Answer(r, "replayed", record[KeyOf(r)].by) \/ Answer(r, "conflict", Nobody)
      BY <1>4, ExistingRecord
    <3>2. QED
      BY <1>0, <3>1, AnswerReply
  <2>3. \A l \in LockName : lock'[l] # r
    BY <1>0, <1>4, EndReleases DEF AnswerFromRecord
  <2>4. QED
    BY <1>0, <1>4, <2>1, <2>2, <2>3 DEF AnswerFromRecord, worldVars
<1>5. CASE Commit(r)
  <2>1. pc'[r] = "announce" /\ pc[r] = "commit"
    BY <1>0, <1>5, GotoPC DEF Commit
  <2>2. \A l \in LockName : lock'[l] # r
    BY <1>0, <1>5, EndReleases DEF Commit
  <2>3. QED
    <3>1. now' = now /\ clock' = clock /\ reply' = reply /\ r \in made'
      BY <1>5 DEF Commit
    <3>2. reply[r] = NoReply
      BY <1>0, <2>1
    <3>3. QED
      BY <1>0, <2>1, <2>2, <3>1, <3>2, Unanswered
<1>6. CASE Announce(r)
  <2>1. pc'[r] = "done" /\ pc[r] = "announce" /\ reply'[r].kind = "created"
    <3>1. pc[r] = "announce" /\ Goto(r, "done") /\ Answer(r, "created", r)
      BY <1>6 DEF Announce
    <3>2. QED
      BY <1>0, <3>1, GotoPC, AnswerReply
  <2>2. QED
    BY <1>0, <1>6, <2>1 DEF Announce, worldVars
<1>7. CASE Crash(r)
  <2>1. pc'[r] = "done" /\ pc[r] \notin {"idle", "done"}
    BY <1>0, <1>7, GotoPC DEF Crash
  <2>2. \A l \in LockName : lock'[l] # r
    BY <1>0, <1>7, EndReleases DEF Crash
  <2>3. QED
    BY <1>0, <1>7, <2>1, <2>2, Unanswered DEF Crash, worldVars
<1>8. QED
  BY <1>0, <1>1, <1>2, <1>3, <1>4, <1>5, <1>6, <1>7, Shape

LEMMA TimeOther ==
    ASSUME IInv, NEW r \in Request, NEW q \in Request, q # r, Move(r)
    PROVE  TimeInv(q)'
<1>1. TypeOK /\ TimeInv(q)
  BY DEF IInv
<1>2. Kept(q) /\ clock' = clock
  BY <1>1, MoveKept, MoveWorld
<1>3. QED
  BY <1>1, <1>2 DEF TimeInv, Kept, InTransaction, NoReply

-----------------------------------------------------------------------------
(* Claims: what a transaction knows of the record of its key.              *)

LEMMA LockNames ==
    /\ \A k \in Key : <<"record", k>> \in LockName /\ <<"claim", k>> \in LockName
    /\ \A o \in Owner : <<"subscription", o>> \in LockName
    /\ \A p \in Plan : <<"plan", p>> \in LockName
  BY DEF LockName

LEMMA Granted ==
    ASSUME TypeOK, NEW r \in Request, NEW l \in LockName, Acquire(l, r)
    PROVE  lock'[l] = r /\ \A m \in LockName : lock[m] = r => lock'[m] = r
  BY DEF TypeOK, Acquire

LEMMA KeyedKey ==
    ASSUME TypeOK, NEW r \in Request, KeyOf(r) # NoKey
    PROVE  /\ KeyOf(r) \in Key
           /\ <<"record", KeyOf(r)>> \in LockName
           /\ <<"claim", KeyOf(r)>> \in LockName
  BY Asked, LockNames

\* Nobody replaces the record of a key that a request claims or has locked.
LEMMA RecordKept ==
    ASSUME IInv, NEW r \in Request, NEW q \in Request, q # r, Move(r), NEW k \in Key,
           lock[<<"record", k>>] = q \/ lock[<<"claim", k>>] = q
    PROVE  record'[k] = record[k]
<1>0. TypeOK /\ ClaimInv(r) /\ RecordInv(k)
  BY DEF IInv
<1>1. CASE record' = record
  BY <1>1
<1>2. CASE Commit(r)
  <2>1. record' = [j \in Key |-> IF j = KeyOf(r) THEN claim[r] ELSE record[j]]
    BY <1>2 DEF Commit
  <2>2. CASE KeyOf(r) # k
    BY <2>1, <2>2
  <2>3. CASE KeyOf(r) = k
    <3>1. pc[r] \in Claiming /\ KeyOf(r) # NoKey
      BY <1>2, <2>3, Constants DEF Commit, Claiming, Subscribed, Planned, Counted
    <3>2. /\ lock[<<"claim", k>>] = r
          /\ record[k] = NoRecord \/ lock[<<"record", k>>] = r
      BY <1>0, <3>1, <2>3 DEF ClaimInv
    <3>3. lock[<<"record", k>>] = q /\ record[k] # NoRecord
      BY <1>0, <3>2, Constants DEF RecordInv
    <3>4. QED
      BY <3>2, <3>3
  <2>4. QED
    BY <2>2, <2>3
<1>3. QED
  BY <1>1, <1>2, MoveWorld

LEMMA ClaimOther ==
    ASSUME IInv, NEW r \in Request, NEW q \in Request, q # r, Move(r)
    PROVE  ClaimInv(q)'
<1>0. TypeOK /\ ClaimInv(q)
  BY DEF IInv
<1>1. Kept(q) /\ request' = request
  BY <1>0, MoveKept, MoveWorld
<1>2. KeyOf(q)' = KeyOf(q)
  BY <1>1 DEF KeyOf
<1>3. CASE KeyOf(q) = NoKey
  BY <1>0, <1>1, <1>2, <1>3 DEF ClaimInv, Kept, KeptLocal, Keyed
<1>4. CASE KeyOf(q) # NoKey
  <2> DEFINE k == KeyOf(q)
  <2>1. k \in Key /\ <<"record", k>> \in LockName /\ <<"claim", k>> \in LockName
    BY <1>0, <1>4, KeyedKey
  <2>2. /\ lock'[<<"record", k>>] = q <=> lock[<<"record", k>>] = q
        /\ lock'[<<"claim", k>>] = q <=> lock[<<"claim", k>>] = q
    BY <1>1, <2>1 DEF Kept
  <2>3. lock[<<"record", k>>] = q \/ lock[<<"claim", k>>] = q => record'[k] = record[k]
    BY <2>1, RecordKept
  <2>4. \A status, link : ClaimOf(q, status, link)' = ClaimOf(q, status, link)
    BY <1>1 DEF ClaimOf, Kept
  <2>5. pc'[q] = pc[q] /\ seen'[q] = seen[q] /\ claim'[q] = claim[q] /\ now'[q] = now[q]
    BY <1>1 DEF Kept, KeptLocal
  <2>6. QED
    BY <1>0, <1>2, <1>4, <2>2, <2>3, <2>4, <2>5 DEF ClaimInv
<1>5. QED
  BY <1>3, <1>4

\* Once the claim is taken, the statements up to the insertion keep it.
LEMMA CreatingKeepsClaim ==
    ASSUME IInv, NEW r \in Request,
           FindSubscription(r) \/ LockSubscription(r) \/ LockPlan(r) \/ CountRows(r)
              \/ PickCode(r) \/ InsertLink(r) \/ InsertEndpoint(r)
    PROVE  \/ pc'[r] = "done"
           \/ /\ pc[r] \in Claiming \ {"commit"}
              /\ pc'[r] \in Claiming
              /\ pc'[r] = "complete" => KeyOf(r) # NoKey
              /\ pc'[r] = "commit" => KeyOf(r) = NoKey
              /\ claim' = claim
              /\ \A l \in LockName : lock[l] = r => lock'[l] = r
<1> USE DEF worldVars, localVars, Claiming, Subscribed, Planned, Counted
<1>0. TypeOK /\ CountInv(r)
  BY DEF IInv
<1>1. ASSUME NEW kind, Refuse(r, kind)
      PROVE  pc'[r] = "done"
  BY <1>0, <1>1, GotoPC DEF Refuse
<1>2. CASE FindSubscription(r)
  BY <1>0, <1>1, <1>2, GotoPC DEF FindSubscription
<1>3. ASSUME NEW l, Acquire(l, r)
      PROVE  \A m \in LockName : lock[m] = r => lock'[m] = r
  BY <1>0, <1>3 DEF Acquire, TypeOK
<1>4. CASE LockSubscription(r)
  BY <1>0, <1>1, <1>3, <1>4, GotoPC DEF LockSubscription
<1>5. CASE LockPlan(r)
  BY <1>0, <1>3, <1>5, GotoPC DEF LockPlan
<1>6. CASE CountRows(r)
  <2>1. \/ Refuse(r, "limit reached")
        \/ /\ \E step \in {"pick code", "insert endpoint"} : Goto(r, step)
           /\ lock' = lock /\ claim' = claim
    BY <1>6 DEF CountRows
  <2>2. pc[r] = "count"
    BY <1>6 DEF CountRows
  <2>3. QED
    BY <1>0, <1>1, <2>1, <2>2, GotoPC
<1>7. CASE PickCode(r)
  <2>1. \/ Refuse(r, "exhausted")
        \/ /\ \E step \in {"pick code", "insert link"} : Goto(r, step)
           /\ lock' = lock /\ claim' = claim
    BY <1>7 DEF PickCode
  <2>2. pc[r] = "pick code"
    BY <1>7 DEF PickCode
  <2>3. QED
    BY <1>0, <1>1, <2>1, <2>2, GotoPC
<1>8. CASE InsertLink(r)
  <2>1. \/ Refuse(r, "alias taken")
        \/ Goto(r, "pick code") /\ lock' = lock /\ claim' = claim
        \/ /\ Goto(r, AfterInsert(r)) /\ claim' = claim
           /\ Acquire(<<"code", code[r]>>, r)
    BY <1>8 DEF InsertLink
  <2>2. pc[r] = "insert link"
    BY <1>8 DEF InsertLink
  <2>3. CASE Goto(r, AfterInsert(r)) /\ claim' = claim /\ Acquire(<<"code", code[r]>>, r)
    <3>1. pc'[r] = AfterInsert(r)
      BY <1>0, <2>3, GotoPC
    <3>2. QED
      BY <1>3, <2>2, <2>3, <3>1 DEF AfterInsert
  <2>4. QED
    BY <1>0, <1>1, <2>1, <2>2, <2>3, GotoPC
<1>9. CASE InsertEndpoint(r)
  BY <1>0, <1>9, GotoPC DEF InsertEndpoint, CountInv
<1>10. QED
  BY <1>2, <1>4, <1>5, <1>6, <1>7, <1>8, <1>9

LEMMA ClaimSelf ==
    ASSUME IInv, NEW r \in Request, Move(r)
    PROVE  ClaimInv(r)'
<1> USE DEF worldVars, localVars
<1>0. TypeOK /\ ClaimInv(r) /\ CountInv(r) /\ request' = request
  BY MoveWorld DEF IInv
<1>1. KeyOf(r)' = KeyOf(r)
  BY <1>0 DEF KeyOf
<1>2. ASSUME pc'[r] \in {"done", "announce"}
      PROVE  ClaimInv(r)'
  BY <1>2 DEF ClaimInv, Keyed, Claiming, Subscribed, Planned, Counted
<1>3. CASE Begin(r)
  <2>1. pc'[r] = IF KeyOf(r) = NoKey THEN "subscription" ELSE "lookup"
    BY <1>0, <1>3, GotoPC DEF Begin
  <2>2. lock' = lock /\ pc[r] = "idle"
    BY <1>3 DEF Begin
  <2>3. KeyOf(r) # NoKey => lock[<<"record", KeyOf(r)>>] # r
    BY <1>0, <2>2, KeyedKey DEF IInv, TimeInv, InTransaction
  <2>4. QED
    BY <1>1, <2>1, <2>2, <2>3 DEF ClaimInv, Keyed, Claiming, Subscribed, Planned, Counted
<1>4. ASSUME pc[r] \in Keyed
      PROVE  /\ KeyOf(r) \in Key
             /\ KeyOf(r) # NoKey
             /\ <<"record", KeyOf(r)>> \in LockName
             /\ <<"claim", KeyOf(r)>> \in LockName
             /\ record[KeyOf(r)].by \in Request \cup {Nobody}
             /\ record[KeyOf(r)] = NoRecord <=> record[KeyOf(r)].by = Nobody
             /\ record[KeyOf(r)].expires \in Nat
             /\ now[r] \in Nat
             /\ lock[<<"record", KeyOf(r)>>] # Nobody => record[KeyOf(r)] # NoRecord
  <2>1. KeyOf(r) # NoKey
    BY <1>0, <1>4 DEF ClaimInv
  <2>2. RecordInv(KeyOf(r))
    BY <1>0, <2>1, KeyedKey DEF IInv
  <2>3. now[r] \in Nat
    BY <1>0 DEF TypeOK
  <2>4. QED
    BY <1>0, <2>1, <2>2, <2>3, KeyedKey, Found DEF RecordInv
<1>5. CASE Lookup(r)
  <2>1. /\ pc'[r] = IF record[KeyOf(r)] = NoRecord THEN "insert claim" ELSE "lock record"
        /\ seen'[r] = record[KeyOf(r)].by
        /\ pc[r] = "lookup" /\ lock' = lock
    BY <1>0, <1>5, GotoPC DEF Lookup, TypeOK
  <2>2. KeyOf(r) # NoKey /\ lock[<<"record", KeyOf(r)>>] # r
    BY <1>0, <1>4, <2>1 DEF ClaimInv, Keyed
  <2>3. record[KeyOf(r)] = NoRecord <=> record[KeyOf(r)].by = Nobody
    BY <1>4, <2>1 DEF Keyed
  <2>4. pc'[r] = "insert claim" \/ (pc'[r] = "lock record" /\ seen'[r] # Nobody)
    BY <2>1, <2>3
  <2>5. lock'[<<"record", KeyOf(r)'>>] # r /\ KeyOf(r)' # NoKey
    BY <1>1, <2>1, <2>2
  <2>6. QED
    BY <2>4, <2>5 DEF ClaimInv, Keyed, Claiming, Subscribed, Planned, Counted
<1>6. CASE LockRecord(r)
  <2> DEFINE k == KeyOf(r)
  <2>1. pc[r] = "lock record" /\ record' = record /\ now' = now
    BY <1>6 DEF LockRecord
  <2>2. KeyOf(r) # NoKey /\ seen[r] # Nobody
    BY <1>0, <1>4, <2>1 DEF ClaimInv, Keyed
  <2>3. CASE record[k].by # seen[r]
    <3>1. pc'[r] = "insert claim" /\ lock' = lock
      BY <1>0, <1>6, <2>3, GotoPC DEF LockRecord
    <3>2. lock[<<"record", k>>] # r
      BY <1>0, <2>1 DEF ClaimInv
    <3>3. QED
      BY <1>1, <2>1, <2>2, <3>1, <3>2
         DEF ClaimInv, Keyed, Claiming, Subscribed, Planned, Counted
  <2>4. CASE record[k].by = seen[r]
    <3>1. pc'[r] = IF record[k].expires > now[r] THEN "existing" ELSE "insert claim"
      BY <1>0, <1>6, <2>4, GotoPC DEF LockRecord
    <3>2. lock'[<<"record", k>>] = r
      <4>1. Acquire(<<"record", k>>, r)
        BY <1>6, <2>4 DEF LockRecord
      <4>2. QED
        BY <1>0, <1>4, <2>1, <4>1, Granted DEF Keyed
    <3>3. record[k].expires \in Nat /\ now[r] \in Nat
      BY <1>4, <2>1 DEF Keyed
    <3>4. \/ pc'[r] = "existing"
          \/ pc'[r] = "insert claim" /\ record[k].expires <= now[r]
      <4>1. \A m, n \in Nat : ~(m > n) => m <= n
        OBVIOUS
      <4>2. QED
        BY <3>1, <3>3, <4>1
    <3>5. QED
      BY <1>1, <2>1, <2>2, <3>2, <3>4
         DEF ClaimInv, Keyed, Claiming, Subscribed, Planned, Counted
  <2>5. QED
    BY <2>3, <2>4
<1>7. CASE InsertClaim(r)
  <2> DEFINE k == KeyOf(r)
  <2>1. pc[r] = "insert claim" /\ record' = record /\ now' = now
    BY <1>7 DEF InsertClaim
  <2>2. KeyOf(r) # NoKey /\ <<"record", k>> \in LockName /\ <<"claim", k>> \in LockName
    BY <1>4, <2>1 DEF Keyed
  <2>3. CASE record[k] = NoRecord \/ Dropping(r, k)
    <3>1. /\ Goto(r, "subscription")
          /\ Acquire(<<"claim", k>>, r)
          /\ claim' = [claim EXCEPT ![r] = ClaimOf(r, "processing", Nobody)]
      BY <1>7, <2>3 DEF InsertClaim, ClaimOf
    <3>2. pc'[r] = "subscription" /\ lock'[<<"claim", k>>] = r
      BY <1>0, <2>2, <3>1, GotoPC, Granted
    <3>3. claim'[r] = ClaimOf(r, "processing", Nobody)
      BY <1>0, <3>1 DEF TypeOK
    <3>4. ClaimOf(r, "processing", Nobody)' = ClaimOf(r, "processing", Nobody)
      BY <1>0, <2>1 DEF ClaimOf
    <3>5. lock[<<"record", k>>] = r => lock'[<<"record", k>>] = r /\ record[k].expires <= now[r]
      BY <1>0, <2>1, <2>2, <3>1, Granted DEF ClaimInv
    <3>6. record[k] = NoRecord \/ lock[<<"record", k>>] = r
      BY <2>3 DEF Dropping
    <3>7. QED
      BY <1>1, <2>1, <2>2, <3>2, <3>3, <3>4, <3>5, <3>6 DEF ClaimInv, Keyed
  <2>4. CASE ~(record[k] = NoRecord \/ Dropping(r, k))
    <3>1. pc'[r] = "get record"
      BY <1>0, <1>7, <2>4, GotoPC DEF InsertClaim
    <3>2. QED
      BY <1>1, <2>2, <3>1 DEF ClaimInv, Keyed, Claiming, Subscribed, Planned, Counted
  <2>5. QED
    BY <2>3, <2>4
<1>8. CASE GetRecord(r)
  <2>1. pc[r] = "get record"
    BY <1>8 DEF GetRecord
  <2>2. CASE record[KeyOf(r)] = NoRecord
    BY <1>0, <1>2, <1>8, <2>2, GotoPC DEF GetRecord, Refuse
  <2>3. CASE record[KeyOf(r)] # NoRecord
    <3>1. pc'[r] = "lock existing" /\ seen'[r] = record[KeyOf(r)].by
      BY <1>0, <1>8, <2>3, GotoPC DEF GetRecord, TypeOK
    <3>2. record[KeyOf(r)].by # Nobody /\ KeyOf(r) # NoKey
      BY <1>4, <2>1, <2>3 DEF Keyed
    <3>3. QED
      BY <1>1, <3>1, <3>2 DEF ClaimInv, Claiming, Subscribed, Planned, Counted
  <2>4. QED
    BY <2>2, <2>3
<1>8a. CASE LockExisting(r)
  <2>1. pc[r] = "lock existing"
    BY <1>8a DEF LockExisting
  <2>2. CASE Refuse(r, "error")
    BY <1>0, <1>2, <2>2, GotoPC DEF Refuse
  <2>3. CASE ~Refuse(r, "error")
    <3>1. Acquire(<<"record", KeyOf(r)>>, r) /\ Goto(r, "existing")
      BY <1>8a, <2>3 DEF LockExisting
    <3>2. pc'[r] = "existing" /\ lock'[<<"record", KeyOf(r)>>] = r /\ KeyOf(r) # NoKey
      BY <1>0, <1>4, <2>1, <3>1, GotoPC, Granted DEF Keyed
    <3>3. QED
      BY <1>1, <3>2 DEF ClaimInv, Claiming, Subscribed, Planned, Counted
  <2>4. QED
    BY <2>2, <2>3
<1>9. CASE AnswerFromRecord(r)
  BY <1>0, <1>2, <1>9, GotoPC DEF AnswerFromRecord
<1>10. CASE FindSubscription(r) \/ LockSubscription(r) \/ LockPlan(r) \/ CountRows(r)
              \/ PickCode(r) \/ InsertLink(r) \/ InsertEndpoint(r)
  <2>1. CASE pc'[r] = "done"
    BY <1>2, <2>1
  <2>2. CASE pc'[r] # "done"
    <3>1. /\ pc[r] \in Claiming \ {"commit"}
          /\ pc'[r] \in Claiming
          /\ pc'[r] = "complete" => KeyOf(r) # NoKey
          /\ pc'[r] = "commit" => KeyOf(r) = NoKey
          /\ claim' = claim
          /\ \A l \in LockName : lock[l] = r => lock'[l] = r
      BY <1>10, <2>2, CreatingKeepsClaim
    <3>2. record' = record /\ now' = now
      BY <1>10 DEF FindSubscription, LockSubscription, LockPlan, CountRows, PickCode,
                   InsertLink, InsertEndpoint
    <3>3. pc'[r] \notin Keyed
      BY <3>1 DEF Keyed, Claiming, Subscribed, Planned, Counted
    <3>4. CASE KeyOf(r) = NoKey
      BY <1>1, <3>1, <3>3, <3>4 DEF ClaimInv, Keyed
    <3>5. CASE KeyOf(r) # NoKey
      <4>1. <<"record", KeyOf(r)>> \in LockName /\ <<"claim", KeyOf(r)>> \in LockName
        BY <1>0, <3>5, KeyedKey
      <4>2. ClaimOf(r, "processing", Nobody)' = ClaimOf(r, "processing", Nobody)
        BY <1>0, <3>2 DEF ClaimOf
      <4>3. QED
        BY <1>0, <1>1, <3>1, <3>2, <3>3, <3>5, <4>1, <4>2 DEF ClaimInv, Keyed
    <3>6. QED
      BY <3>4, <3>5
  <2>3. QED
    BY <2>1, <2>2
<1>11. CASE Complete(r)
  <2>1. pc[r] = "complete" /\ pc'[r] = "commit"
    BY <1>0, <1>11, GotoPC DEF Complete
  <2>2. /\ KeyOf(r) # NoKey
        /\ lock[<<"claim", KeyOf(r)>>] = r
        /\ \/ record[KeyOf(r)] = NoRecord
           \/ lock[<<"record", KeyOf(r)>>] = r /\ record[KeyOf(r)].expires <= now[r]
        /\ claim[r] = ClaimOf(r, "processing", Nobody)
        /\ draft[r].by = r
    BY <1>0, <2>1 DEF ClaimInv, CountInv, Claiming, Subscribed, Planned, Counted
  <2>3. claim'[r] = ClaimOf(r, "completed", r)
    <3>1. claim' = [claim EXCEPT ![r] = [claim[r] EXCEPT !.status = "completed", !.link = r]]
      BY <1>11, <2>2 DEF Complete
    <3>2. claim'[r] = [claim[r] EXCEPT !.status = "completed", !.link = r]
      BY <1>0, <3>1 DEF TypeOK
    <3>3. [ClaimOf(r, "processing", Nobody) EXCEPT !.status = "completed", !.link = r]
             = ClaimOf(r, "completed", r)
      <4> DEFINE c == ClaimOf(r, "processing", Nobody)
      <4>1. [c EXCEPT !.status = "completed"] = ClaimOf(r, "completed", Nobody)
        BY DEF ClaimOf
      <4>2. [ClaimOf(r, "completed", Nobody) EXCEPT !.link = r] = ClaimOf(r, "completed", r)
        BY DEF ClaimOf
      <4> HIDE DEF c
      <4>3. [c EXCEPT !.status = "completed", !.link = r]
               = [[c EXCEPT !.status = "completed"] EXCEPT !.link = r]
        OBVIOUS
      <4>4. QED
        BY <4>1, <4>2, <4>3 DEF c
    <3>4. QED
      BY <2>2, <3>2, <3>3
  <2>4. ClaimOf(r, "completed", r)' = ClaimOf(r, "completed", r)
    BY <1>0, <1>11 DEF ClaimOf, Complete
  <2>5. record' = record /\ lock' = lock /\ now' = now
    BY <1>11 DEF Complete
  <2>6. QED
    BY <1>1, <2>1, <2>2, <2>3, <2>4, <2>5 DEF ClaimInv, Keyed
<1>12. CASE Commit(r) \/ Announce(r) \/ Crash(r)
  BY <1>0, <1>2, <1>12, GotoPC DEF Commit, Announce, Crash
<1>13. QED
  BY <1>3, <1>5, <1>6, <1>7, <1>8, <1>8a, <1>9, <1>10, <1>11, <1>12 DEF Move, Statement

-----------------------------------------------------------------------------
(* Counts: what a transaction counted stays true until it commits.         *)

LEMMA CountLocks ==
    ASSUME TypeOK, NEW r \in Request
    PROVE  /\ <<"subscription", OwnerOf(r)>> \in LockName
           /\ planSeen[r] # NoPlan => <<"plan", planSeen[r]>> \in LockName
<1>1. planSeen[r] \in Plan \cup {NoPlan}
  BY DEF TypeOK
<1>2. QED
  BY <1>1, Asked, LockNames

\* The rows of an owner change only under the lock of its subscription.
LEMMA OwnedKept ==
    ASSUME IInv, NEW r \in Request, Move(r), NEW o \in Owner, NEW w \in What,
           lock[<<"subscription", o>>] # r
    PROVE  OwnedBy(w, o)' = OwnedBy(w, o)
<1>1. CASE rows' = rows
  BY <1>1 DEF OwnedBy
<1>2. CASE Commit(r)
  <2>1. CountInv(r) /\ rows \in [What -> SUBSET Row]
    BY DEF IInv, TypeOK
  <2>2. draft[r].owner = OwnerOf(r) /\ lock[<<"subscription", OwnerOf(r)>>] = r
    BY <1>2, <2>1 DEF CountInv, Commit, Subscribed, Planned, Counted
  <2>3. rows'[w] = rows[w] \/ rows'[w] = rows[w] \cup {draft[r]}
    BY <1>2, <2>1 DEF Commit
  <2>4. QED
    BY <2>2, <2>3 DEF OwnedBy
<1>3. QED
  BY <1>1, <1>2, MoveWorld

LEMMA CountOther ==
    ASSUME IInv, NEW r \in Request, NEW q \in Request, q # r, Move(r)
    PROVE  CountInv(q)'
<1>0. TypeOK /\ CountInv(q)
  BY DEF IInv
<1>1. Kept(q) /\ request' = request /\ plan' = plan /\ limit' = limit
  BY <1>0, MoveKept, MoveWorld
<1>2. /\ pc'[q] = pc[q] /\ planSeen'[q] = planSeen[q] /\ draft'[q] = draft[q]
      /\ KeyOf(q)' = KeyOf(q) /\ OwnerOf(q)' = OwnerOf(q) /\ WhatOf(q)' = WhatOf(q)
  BY <1>1 DEF Kept, KeptLocal, KeyOf, OwnerOf, WhatOf
<1>3. /\ lock[<<"subscription", OwnerOf(q)>>] = q => lock'[<<"subscription", OwnerOf(q)>>] = q
      /\ planSeen[q] # NoPlan =>
            (lock[<<"plan", planSeen[q]>>] = q => lock'[<<"plan", planSeen[q]>>] = q)
  BY <1>0, <1>1, CountLocks DEF Kept
<1>4. pc[q] \in Counted => Below(q)'
  <2> SUFFICES ASSUME pc[q] \in Counted PROVE Below(q)'
    OBVIOUS
  <2>1. Below(q) /\ lock[<<"subscription", OwnerOf(q)>>] # r
    BY <1>0 DEF CountInv, Subscribed, Planned
  <2>2. OwnedBy(WhatOf(q), OwnerOf(q))' = OwnedBy(WhatOf(q), OwnerOf(q))
    <3>1. PICK o \in Owner, w \in What : o = OwnerOf(q) /\ w = WhatOf(q)
      BY <1>0, Asked
    <3>2. OwnedBy(w, o)' = OwnedBy(w, o)
      BY <2>1, <3>1, OwnedKept
    <3>3. o = OwnerOf(q)' /\ w = WhatOf(q)'
      BY <1>2, <3>1
    <3>4. QED
      BY <3>1, <3>2, <3>3 DEF OwnedBy
  <2>3. QED
    BY <1>1, <1>2, <2>1, <2>2 DEF Below
<1>5. QED
  BY <1>0, <1>2, <1>3, <1>4, <1>1 DEF CountInv, Subscribed, Planned

LEMMA CountSelf ==
    ASSUME IInv, NEW r \in Request, Move(r)
    PROVE  CountInv(r)'
<1> USE DEF worldVars, localVars, Subscribed, Planned, Counted
<1>0. TypeOK /\ CountInv(r) /\ request' = request
  BY MoveWorld DEF IInv
<1>1. KeyOf(r)' = KeyOf(r) /\ OwnerOf(r)' = OwnerOf(r) /\ WhatOf(r)' = WhatOf(r)
  BY <1>0 DEF KeyOf, OwnerOf, WhatOf
<1>2. ASSUME pc'[r] \notin Subscribed \cup {"lock subscription"}
      PROVE  CountInv(r)'
  BY <1>2 DEF CountInv
<1>3. ASSUME NEW kind, Refuse(r, kind)
      PROVE  CountInv(r)'
  BY <1>0, <1>2, <1>3, GotoPC DEF Refuse
<1>4. ASSUME rows' = rows, limit' = limit, planSeen'[r] = planSeen[r]
      PROVE  Below(r)' <=> Below(r)
  BY <1>1, <1>4 DEF Below, OwnedBy
<1>5. CASE Begin(r)
  BY <1>0, <1>2, <1>5, GotoPC DEF Begin
<1>6. CASE Lookup(r) \/ LockRecord(r) \/ InsertClaim(r) \/ AnswerFromRecord(r)
  <2>1. pc'[r] \in {"insert claim", "lock record", "existing", "subscription", "get record", "done"}
    BY <1>0, <1>6, GotoPC DEF Lookup, LockRecord, InsertClaim, AnswerFromRecord
  <2>2. QED
    BY <1>2, <2>1
<1>7. CASE GetRecord(r) \/ LockExisting(r)
  <2>1. Refuse(r, "error") \/ Goto(r, "lock existing") \/ Goto(r, "existing")
    BY <1>7 DEF GetRecord, LockExisting
  <2>2. QED
    BY <1>0, <1>2, <1>3, <2>1, GotoPC
<1>8. CASE FindSubscription(r)
  <2>1. CASE plan[OwnerOf(r)] = NoPlan
    BY <1>3, <1>8, <2>1 DEF FindSubscription
  <2>2. CASE plan[OwnerOf(r)] # NoPlan
    <3>1. pc'[r] = "lock subscription" /\ planSeen'[r] # NoPlan
      BY <1>0, <1>8, <2>2, GotoPC DEF FindSubscription, TypeOK
    <3>2. QED
      BY <3>1 DEF CountInv
  <2>3. QED
    BY <2>1, <2>2
<1>9. CASE LockSubscription(r)
  <2>1. CASE plan[OwnerOf(r)] # planSeen[r]
    BY <1>3, <1>9, <2>1 DEF LockSubscription
  <2>2. CASE plan[OwnerOf(r)] = planSeen[r]
    <3>1. /\ Acquire(<<"subscription", OwnerOf(r)>>, r) /\ Goto(r, "lock plan")
          /\ plan' = plan /\ planSeen' = planSeen
      BY <1>9, <2>2 DEF LockSubscription
    <3>2. lock'[<<"subscription", OwnerOf(r)>>] = r /\ pc'[r] = "lock plan"
      BY <1>0, <3>1, CountLocks, Granted, GotoPC
    <3>3. planSeen[r] # NoPlan
      BY <1>0, <1>9 DEF CountInv, LockSubscription
    <3>4. QED
      BY <1>1, <2>2, <3>1, <3>2, <3>3 DEF CountInv
  <2>3. QED
    BY <2>1, <2>2
<1>10. CASE LockPlan(r)
  <2>1. /\ Acquire(<<"plan", planSeen[r]>>, r) /\ Goto(r, "count") /\ pc[r] = "lock plan"
        /\ plan' = plan /\ planSeen' = planSeen
    BY <1>10 DEF LockPlan
  <2>2. /\ planSeen[r] # NoPlan /\ plan[OwnerOf(r)] = planSeen[r]
        /\ lock[<<"subscription", OwnerOf(r)>>] = r
    BY <1>0, <2>1 DEF CountInv
  <2>3. /\ lock'[<<"plan", planSeen[r]>>] = r /\ pc'[r] = "count"
        /\ lock'[<<"subscription", OwnerOf(r)>>] = r
    BY <1>0, <2>1, <2>2, CountLocks, Granted, GotoPC
  <2>4. QED
    BY <1>1, <2>1, <2>2, <2>3 DEF CountInv
<1>11. CASE CountRows(r)
  <2>1. CASE ~Below(r)
    BY <1>3, <1>11, <2>1 DEF CountRows
  <2>2. CASE Below(r)
    <3>1. /\ pc[r] = "count" /\ lock' = lock /\ planSeen' = planSeen /\ plan' = plan
          /\ rows' = rows /\ limit' = limit
          /\ Goto(r, IF WhatOf(r) = "link" THEN "pick code" ELSE "insert endpoint")
      BY <1>11, <2>2 DEF CountRows
    <3>2. \/ pc'[r] = "pick code"
          \/ pc'[r] = "insert endpoint" /\ KeyOf(r) = NoKey
      BY <1>0, <3>1, GotoPC, Asked DEF What
    <3>3. Below(r)'
      BY <1>4, <2>2, <3>1
    <3>4. QED
      BY <1>0, <1>1, <3>1, <3>2, <3>3 DEF CountInv
  <2>3. QED
    BY <2>1, <2>2
<1>12. CASE PickCode(r)
  <2>1. CASE Refuse(r, "exhausted")
    BY <1>3, <2>1
  <2>2. CASE ~Refuse(r, "exhausted")
    <3>1. /\ pc[r] = "pick code" /\ lock' = lock /\ planSeen' = planSeen /\ plan' = plan
          /\ rows' = rows /\ limit' = limit
          /\ \E step \in {"pick code", "insert link"} : Goto(r, step)
      BY <1>12, <2>2 DEF PickCode
    <3>2. pc'[r] \in {"pick code", "insert link"}
      BY <1>0, <3>1, GotoPC
    <3>3. Below(r)'
      BY <1>0, <1>4, <3>1 DEF CountInv
    <3>4. QED
      BY <1>0, <1>1, <3>1, <3>2, <3>3 DEF CountInv
  <2>3. QED
    BY <2>1, <2>2
<1>13. CASE InsertLink(r)
  <2> DEFINE row == [owner |-> OwnerOf(r), code |-> code[r], by |-> r]
  <2>1. /\ pc[r] = "insert link" /\ plan' = plan /\ rows' = rows /\ limit' = limit
    BY <1>13 DEF InsertLink
  <2>2. CASE Refuse(r, "alias taken")
    BY <1>3, <2>2
  <2>3. CASE Goto(r, "pick code") /\ lock' = lock /\ planSeen' = planSeen
    <3>1. pc'[r] = "pick code"
      BY <1>0, <2>3, GotoPC
    <3>2. Below(r)'
      BY <1>0, <1>4, <2>1, <2>3 DEF CountInv
    <3>3. QED
      BY <1>0, <1>1, <2>1, <2>3, <3>1, <3>2 DEF CountInv
  <2>4. CASE /\ Goto(r, AfterInsert(r)) /\ planSeen' = planSeen
             /\ Acquire(<<"code", code[r]>>, r)
             /\ draft' = [draft EXCEPT ![r] = row]
    <3>1. pc'[r] \in {"complete", "commit"}
      BY <1>0, <2>4, GotoPC DEF AfterInsert
    <3>2. row \in Row /\ row.owner = OwnerOf(r) /\ row.by = r
      BY <1>0, Asked DEF Row, TypeOK
    <3>3. draft'[r] = row
      BY <1>0, <2>4 DEF TypeOK
    <3>4. \A m \in LockName : lock[m] = r => lock'[m] = r
      BY <1>0, <2>4 DEF Acquire, TypeOK
    <3>5. /\ planSeen[r] # NoPlan /\ plan[OwnerOf(r)] = planSeen[r]
          /\ lock[<<"subscription", OwnerOf(r)>>] = r
          /\ lock[<<"plan", planSeen[r]>>] = r
          /\ Below(r)
      BY <1>0, <2>1 DEF CountInv
    <3>6. /\ lock'[<<"subscription", OwnerOf(r)>>] = r
          /\ lock'[<<"plan", planSeen[r]>>] = r
      BY <1>0, <3>4, <3>5, CountLocks
    <3>7. Below(r)'
      BY <1>4, <2>1, <2>4, <3>5
    <3> HIDE DEF row
    <3>8. QED
      BY <1>1, <2>1, <2>4, <3>1, <3>2, <3>3, <3>5, <3>6, <3>7 DEF CountInv
  <2>5. QED
    BY <1>13, <2>2, <2>3, <2>4 DEF InsertLink
<1>14. CASE InsertEndpoint(r)
  <2> DEFINE row == [owner |-> OwnerOf(r), code |-> Generated, by |-> r]
  <2>1. /\ pc[r] = "insert endpoint" /\ plan' = plan /\ rows' = rows /\ limit' = limit
        /\ planSeen' = planSeen /\ lock' = lock
    BY <1>14 DEF InsertEndpoint
  <2>2. pc'[r] = "commit"
    BY <1>0, <1>14, GotoPC DEF InsertEndpoint
  <2>3. row \in Row /\ row.owner = OwnerOf(r) /\ row.by = r
    BY <1>0, Asked DEF Row
  <2>4. draft'[r] = row
    BY <1>0, <1>14 DEF InsertEndpoint, TypeOK
  <2>5. Below(r)'
    BY <1>0, <1>4, <2>1 DEF CountInv
  <2> HIDE DEF row
  <2>6. QED
    BY <1>0, <1>1, <2>1, <2>2, <2>3, <2>4, <2>5 DEF CountInv
<1>15. CASE Complete(r)
  <2>1. /\ pc[r] = "complete" /\ plan' = plan /\ rows' = rows /\ limit' = limit
        /\ planSeen' = planSeen /\ lock' = lock /\ draft' = draft
    BY <1>15 DEF Complete
  <2>2. pc'[r] = "commit"
    BY <1>0, <1>15, GotoPC DEF Complete
  <2>3. Below(r)'
    BY <1>0, <1>4, <2>1 DEF CountInv
  <2>4. QED
    BY <1>0, <1>1, <2>1, <2>2, <2>3 DEF CountInv
<1>16. CASE Commit(r) \/ Announce(r) \/ Crash(r)
  BY <1>0, <1>2, <1>16, GotoPC DEF Commit, Announce, Crash
<1>17. QED
  BY <1>5, <1>6, <1>7, <1>8, <1>9, <1>10, <1>11, <1>12, <1>13, <1>14, <1>15, <1>16
     DEF Move, Statement

-----------------------------------------------------------------------------
(* Records: who holds a key, and since when.                               *)

\* The row lock of a record is only ever taken on a record that exists.
LEMMA RecordLocked ==
    ASSUME IInv, NEW r \in Request, Move(r), NEW k \in Key, lock'[<<"record", k>>] = r
    PROVE  lock[<<"record", k>>] = r \/ record[k] # NoRecord
<1> USE DEF worldVars, localVars
<1>0. TypeOK /\ ClaimInv(r) /\ <<"record", k>> \in LockName
  BY LockNames DEF IInv
<1>1. CASE lock' = lock
  BY <1>1
<1>2. CASE EndTransaction(r)
  BY <1>0, <1>2, EndReleases
<1>3. ASSUME NEW l, Acquire(l, r), l # <<"record", k>>
      PROVE  lock[<<"record", k>>] = r
  BY <1>0, <1>3 DEF Acquire, TypeOK
<1>4. CASE LockRecord(r)
  <2>1. CASE Acquire(<<"record", KeyOf(r)>>, r) /\ KeyOf(r) # k
    BY <1>3, <2>1
  <2>2. CASE record[KeyOf(r)].by = seen[r] /\ KeyOf(r) = k
    BY <1>0, <1>4, <2>2, Found DEF ClaimInv, LockRecord
  <2>3. QED
    BY <1>1, <1>4, <2>1, <2>2 DEF LockRecord
<1>5. CASE InsertClaim(r)
  <2>1. CASE Acquire(<<"claim", KeyOf(r)>>, r)
    <3>1. <<"claim", KeyOf(r)>> # <<"record", k>>
      OBVIOUS
    <3>2. QED
      BY <1>3, <2>1, <3>1
  <2>2. QED
    BY <1>1, <1>5, <2>1 DEF InsertClaim
<1>6. CASE GetRecord(r)
  BY <1>1, <1>2, <1>6 DEF GetRecord, Refuse
<1>6a. CASE LockExisting(r)
  <2>1. CASE Acquire(<<"record", KeyOf(r)>>, r) /\ KeyOf(r) # k
    BY <1>3, <2>1
  <2>2. CASE record[KeyOf(r)].by = seen[r] /\ KeyOf(r) = k
    BY <1>0, <1>6a, <2>2, Found DEF ClaimInv, LockExisting
  <2>3. QED
    BY <1>2, <1>6a, <2>1, <2>2 DEF LockExisting, Refuse
<1>7. CASE LockSubscription(r)
  <2>1. CASE Acquire(<<"subscription", OwnerOf(r)>>, r)
    <3>1. <<"subscription", OwnerOf(r)>> # <<"record", k>>
      OBVIOUS
    <3>2. QED
      BY <1>3, <2>1, <3>1
  <2>2. QED
    BY <1>2, <1>7, <2>1 DEF LockSubscription, Refuse
<1>8. CASE LockPlan(r)
  <2>1. <<"plan", planSeen[r]>> # <<"record", k>>
    OBVIOUS
  <2>2. QED
    BY <1>3, <1>8, <2>1 DEF LockPlan
<1>9. CASE InsertLink(r)
  <2>1. CASE Acquire(<<"code", code[r]>>, r)
    <3>1. <<"code", code[r]>> # <<"record", k>>
      OBVIOUS
    <3>2. QED
      BY <1>3, <2>1, <3>1
  <2>2. QED
    BY <1>1, <1>2, <1>9, <2>1 DEF InsertLink, Refuse
<1>10. CASE FindSubscription(r) \/ CountRows(r) \/ PickCode(r)
  BY <1>1, <1>2, <1>10 DEF FindSubscription, CountRows, PickCode, Refuse
<1>11. CASE \/ Begin(r) \/ Lookup(r) \/ AnswerFromRecord(r) \/ InsertEndpoint(r)
            \/ Complete(r) \/ Commit(r) \/ Announce(r) \/ Crash(r)
  BY <1>1, <1>2, <1>11
     DEF Begin, Lookup, AnswerFromRecord, InsertEndpoint, Complete, Commit, Announce, Crash
<1>12. QED
  BY <1>4, <1>5, <1>6, <1>6a, <1>7, <1>8, <1>9, <1>10, <1>11 DEF Move, Statement

\* The arrival time of a request that committed does not change.
LEMMA MadeKept ==
    ASSUME IInv, NEW r \in Request, Move(r), NEW q \in made
    PROVE  q \in Request /\ now'[q] = now[q] /\ KeyOf(q)' = KeyOf(q)
<1>0. TypeOK /\ q \in Request
  BY DEF IInv, TypeOK
<1>1. request' = request
  BY MoveWorld
<1>2. CASE q # r
  BY <1>0, <1>1, <1>2, MoveKept DEF Kept, KeyOf
<1>3. CASE q = r
  <2>1. pc[r] # "idle"
    BY <1>0, <1>3 DEF IInv, TimeInv
  <2>2. now' = now
    BY <1>0, <2>1, Shape DEF Begin, Advance, Refused, AnswerFromRecord, Commit, Announce, Crash
  <2>3. QED
    BY <1>0, <1>1, <2>2 DEF KeyOf
<1>4. QED
  BY <1>2, <1>3

\* What a commit writes to the record of its key.
LEMMA CommitRecord ==
    ASSUME IInv, NEW r \in Request, Commit(r), NEW k \in Key
    PROVE  /\ KeyOf(r) # k => record'[k] = record[k]
           /\ KeyOf(r) = k => /\ record'[k] = ClaimOf(r, "completed", r)
                              /\ record[k] = NoRecord \/ record[k].expires <= now[r]
<1>1. record'[k] = IF k = KeyOf(r) THEN claim[r] ELSE record[k]
  BY DEF Commit
<1>2. ASSUME KeyOf(r) = k
      PROVE  /\ claim[r] = ClaimOf(r, "completed", r)
             /\ record[k] = NoRecord \/ record[k].expires <= now[r]
  <2>1. KeyOf(r) # NoKey /\ pc[r] = "commit" /\ ClaimInv(r)
    BY <1>2, Constants DEF Commit, IInv
  <2>2. QED
    BY <1>2, <2>1 DEF ClaimInv, Claiming, Subscribed, Planned, Counted
<1>3. QED
  BY <1>1, <1>2

LEMMA ClaimOfFields ==
    ASSUME NEW r, NEW status, NEW link
    PROVE  /\ ClaimOf(r, status, link).by = r
           /\ ClaimOf(r, status, link).body = request[r].body
           /\ ClaimOf(r, status, link).status = status
           /\ ClaimOf(r, status, link).link = link
           /\ ClaimOf(r, status, link).expires = now[r] + TTL
  BY DEF ClaimOf

\* A committed record, field by field.
LEMMA Committed ==
    ASSUME IInv, NEW k \in Key, record[k] # NoRecord
    PROVE  /\ record[k].by \in made
           /\ KeyOf(record[k].by) = k
           /\ record[k].body = request[record[k].by].body
           /\ record[k].status = "completed"
           /\ record[k].link = record[k].by
           /\ record[k].expires = now[record[k].by] + TTL
<1>1. PICK b : b = record[k].by
  OBVIOUS
<1>2. RecordInv(k)
  BY DEF IInv
<1>3. b \in made /\ KeyOf(b) = k /\ record[k] = ClaimOf(b, "completed", b)
  BY <1>1, <1>2 DEF RecordInv
<1>4. QED
  BY <1>1, <1>3, ClaimOfFields

LEMMA RecordMove ==
    ASSUME IInv, NEW r \in Request, Move(r), NEW k \in Key
    PROVE  RecordInv(k)'
<1>0. TypeOK /\ RecordInv(k) /\ TimeInv(r) /\ <<"record", k>> \in LockName
  BY LockNames DEF IInv
<1>1. clock' = clock /\ request' = request
  BY MoveWorld
<1>2. lock'[<<"record", k>>] # Nobody => record[k] # NoRecord
  <2> SUFFICES ASSUME lock'[<<"record", k>>] # Nobody PROVE record[k] # NoRecord
    OBVIOUS
  <2>1. TypeOK'
    BY ClaimingType, CreatingType, EndingType DEF Move, Statement
  <2>2. PICK q \in Request : lock'[<<"record", k>>] = q
    BY <1>0, <2>1 DEF TypeOK
  <2>3. CASE q = r
    BY <1>0, <2>2, <2>3, RecordLocked, Constants DEF RecordInv
  <2>4. CASE q # r
    BY <1>0, <2>2, <2>4, MoveKept, Constants DEF RecordInv, Kept
  <2>5. QED
    BY <2>3, <2>4
<1>3. ASSUME NEW q \in made
      PROVE  /\ q \in Request /\ now'[q] = now[q] /\ KeyOf(q)' = KeyOf(q)
             /\ ClaimOf(q, "completed", q)' = ClaimOf(q, "completed", q)
  BY <1>1, <1>3, MadeKept DEF ClaimOf
<1>4. CASE record' = record /\ made' = made
  <2>1. record[k] # NoRecord =>
           /\ record[k].by \in made
           /\ KeyOf(record[k].by)' = k
           /\ record[k] = ClaimOf(record[k].by, "completed", record[k].by)'
    <3>1. SUFFICES ASSUME record[k] # NoRecord
                   PROVE  /\ record[k].by \in made
                          /\ KeyOf(record[k].by)' = k
                          /\ record[k] = ClaimOf(record[k].by, "completed", record[k].by)'
      OBVIOUS
    <3>2. PICK b \in made : b = record[k].by /\ KeyOf(b) = k
                            /\ record[k] = ClaimOf(b, "completed", b)
      BY <1>0, <3>1 DEF RecordInv
    <3>3. b = record'[k].by
      BY <1>4, <3>2
    <3>4. KeyOf(b)' = k /\ record[k] = ClaimOf(b, "completed", b)'
      BY <1>3, <3>2
    <3>5. QED
      BY <1>4, <3>2, <3>3, <3>4 DEF ClaimOf, KeyOf
  <2>2. QED
    BY <1>0, <1>1, <1>2, <1>3, <1>4, <2>1 DEF RecordInv, KeyOf, ClaimOf
<1>5. CASE Commit(r)
  <2>1. made' = made \cup {r} /\ now' = now
    BY <1>5 DEF Commit
  <2>2. CASE KeyOf(r) # k
    <3>1. record'[k] = record[k]
      BY <1>5, <2>2, CommitRecord
    <3>2. ASSUME record[k] # NoRecord
          PROVE  /\ record[k].by \in made
                 /\ KeyOf(record[k].by) = k
                 /\ record[k] = ClaimOf(record[k].by, "completed", record[k].by)
      BY <1>0, <3>2 DEF RecordInv
    <3>3. \A q \in made' : KeyOf(q) = k /\ q # record[k].by => now[q] + TTL <= clock
      BY <1>0, <2>1, <2>2 DEF RecordInv
    <3>4. QED
      BY <1>1, <1>2, <2>1, <3>1, <3>2, <3>3 DEF RecordInv, KeyOf, ClaimOf
  <2>3. CASE KeyOf(r) = k
    <3>1. /\ record'[k] = ClaimOf(r, "completed", r)
          /\ record[k] = NoRecord \/ record[k].expires <= now[r]
      BY <1>5, <2>3, CommitRecord
    <3>2. record'[k].by = r /\ record'[k] # NoRecord
      BY <3>1, ClaimOfFields, Constants DEF NoRecord
    <3>3. ASSUME NEW q \in made, KeyOf(q) = k, q # r
          PROVE  now[q] + TTL <= clock
      <4>1. CASE q # record[k].by
        BY <1>0, <3>3, <4>1 DEF RecordInv
      <4>2. CASE q = record[k].by
        <5>1. record[k] # NoRecord
          BY <1>0, <1>3, <4>2, Found, Constants
        <5>2. now[q] + TTL <= now[r] /\ now[r] <= clock
          BY <1>0, <3>1, <4>2, <5>1, Committed DEF TimeInv
        <5>3. now[q] \in Nat /\ now[r] \in Nat /\ clock \in Nat
          BY <1>0, <1>3 DEF TypeOK
        <5>4. QED
          BY <5>2, <5>3, Constants
      <4>3. QED
        BY <4>1, <4>2
    <3>4. record'[k] = ClaimOf(r, "completed", r)'
      BY <1>1, <2>1, <3>1 DEF ClaimOf
    <3>5. \A q \in made' : KeyOf(q) = k /\ q # r => now[q] + TTL <= clock
      BY <2>1, <3>3
    <3>6. QED
      BY <1>1, <2>1, <2>3, <3>2, <3>4, <3>5 DEF RecordInv, KeyOf, ClaimOf
  <2>4. QED
    BY <2>2, <2>3
<1>6. QED
  BY <1>4, <1>5, MoveWorld

LEMMA OneLinkMove ==
    ASSUME IInv, NEW r \in Request, Move(r)
    PROVE  OneLinkPerKey'
<1>0. TypeOK /\ TimeInv(r) /\ OneLinkPerKey
  BY DEF IInv
<1>1. clock' = clock /\ request' = request
  BY MoveWorld
<1>2. ASSUME NEW q \in made
      PROVE  now'[q] = now[q] /\ KeyOf(q)' = KeyOf(q)
  BY <1>2, MadeKept
<1>3. CASE made' = made
  BY <1>0, <1>2, <1>3 DEF OneLinkPerKey
<1>4. CASE Commit(r)
  <2>1. made' = made \cup {r} /\ now' = now
    BY <1>4 DEF Commit
  <2>2. clock <= now[r] + 1
    BY <1>0, <1>4 DEF TimeInv, InTransaction, Commit
  <2>3. ASSUME NEW q \in made, q # r, KeyOf(q) = KeyOf(r), KeyOf(q) # NoKey
        PROVE  /\ now[q] + TTL <= now[r] + 1
               /\ now[r] <= now[q] => now[r] + TTL <= now[q] + 1
    <3>1. PICK k \in Key : k = KeyOf(r)
      BY <1>0, <2>3, KeyedKey
    <3>2. RecordInv(k)'
      BY <1>4, RecordMove DEF Move, Statement
    <3>3. record'[k].by = r
      BY <1>4, <3>1, CommitRecord, ClaimOfFields
    <3>4. now[q] + TTL <= clock
      BY <1>1, <1>2, <2>1, <2>3, <3>1, <3>2, <3>3 DEF RecordInv
    <3>5. now[q] \in Nat /\ now[r] \in Nat /\ clock \in Nat
      BY <1>0 DEF TypeOK
    <3>6. QED
      BY <2>2, <3>4, <3>5, Constants
  <2>4. KeyOf(r)' = KeyOf(r)
    BY <1>1 DEF KeyOf
  <2>5. QED
    BY <1>0, <1>2, <2>1, <2>3, <2>4 DEF OneLinkPerKey
<1>5. QED
  BY <1>3, <1>4, MoveWorld

-----------------------------------------------------------------------------
(* Everybody else, and the inductive invariant.                            *)

requestVars == <<request, pc, now, seen, planSeen, code, tries, claim, draft, reply, made, lock>>

LEMMA OthersKeep ==
    ASSUME Others
    PROVE  UNCHANGED requestVars
  BY DEF Others, requestVars, localVars, ChangePlan, EditPlan, DeleteRow, DeleteExpired, Tick

LEMMA OthersTime ==
    ASSUME IInv, Others, NEW r \in Request
    PROVE  TimeInv(r)'
<1>0. TypeOK /\ TimeInv(r) /\ UNCHANGED requestVars
  BY OthersKeep DEF IInv
<1>1. CASE clock' = clock
  BY <1>0, <1>1 DEF TimeInv, requestVars, InTransaction, NoReply
<1>2. CASE Tick
  <2>1. clock' = clock + 1 /\ (InTransaction(r) => now[r] = clock)
    BY <1>2 DEF Tick
  <2>2. clock \in Nat /\ now[r] \in Nat
    BY <1>0 DEF TypeOK
  <2>3. now[r] <= clock' /\ (InTransaction(r) => clock' <= now[r] + 1)
    <3>1. now[r] <= clock
      BY <1>0 DEF TimeInv
    <3>2. QED
      BY <2>1, <2>2, <3>1
  <2>4. QED
    BY <1>0, <2>3 DEF TimeInv, requestVars, InTransaction, NoReply
<1>3. QED
  BY <1>1, <1>2 DEF Others, ChangePlan, EditPlan, DeleteRow, DeleteExpired

\* The cleanup leaves a locked record and never makes one.
LEMMA Cleaned ==
    ASSUME TypeOK, DeleteExpired, NEW k \in Key
    PROVE  \/ record'[k] = record[k]
           \/ /\ record'[k] = NoRecord
              /\ record[k].expires <= clock
              /\ lock[<<"record", k>>] = Nobody
  BY DEF DeleteExpired, Free

LEMMA OthersClaim ==
    ASSUME IInv, Others, NEW r \in Request
    PROVE  ClaimInv(r)'
<1>0. TypeOK /\ ClaimInv(r) /\ UNCHANGED requestVars
  BY OthersKeep DEF IInv
<1>1. /\ request' = request /\ pc' = pc /\ now' = now /\ seen' = seen
      /\ claim' = claim /\ lock' = lock
  BY <1>0 DEF requestVars
<1>2. CASE record' = record
  BY <1>0, <1>1, <1>2 DEF ClaimInv, ClaimOf, KeyOf
<1>3. CASE DeleteExpired
  <2>1. CASE KeyOf(r) = NoKey
    BY <1>0, <1>1, <2>1 DEF ClaimInv, Keyed, KeyOf
  <2>2. CASE KeyOf(r) # NoKey
    <3>1. KeyOf(r) \in Key
      BY <1>0, <2>2, KeyedKey
    <3>2. \/ record'[KeyOf(r)] = record[KeyOf(r)]
          \/ record'[KeyOf(r)] = NoRecord /\ lock[<<"record", KeyOf(r)>>] # r
      BY <1>0, <1>3, <3>1, Cleaned, Constants
    <3>3. QED
      BY <1>0, <1>1, <3>2 DEF ClaimInv, ClaimOf, KeyOf
  <2>3. QED
    BY <2>1, <2>2
<1>4. QED
  BY <1>2, <1>3 DEF Others, ChangePlan, EditPlan, DeleteRow, Tick

\* Fewer rows are still below the limit.
LEMMA FewerOwned ==
    ASSUME NEW w \in What, NEW o, IsFiniteSet(rows[w]), rows'[w] \subseteq rows[w]
    PROVE  /\ IsFiniteSet(rows'[w])
           /\ Cardinality(OwnedBy(w, o)) \in Nat
           /\ Cardinality(OwnedBy(w, o)') \in Nat
           /\ Cardinality(OwnedBy(w, o)') <= Cardinality(OwnedBy(w, o))
<1>1. IsFiniteSet(rows'[w])
  BY FS_Subset
<1>2. OwnedBy(w, o) \subseteq rows[w] /\ OwnedBy(w, o)' \subseteq OwnedBy(w, o)
  BY DEF OwnedBy
<1>3. IsFiniteSet(OwnedBy(w, o))
  BY <1>2, FS_Subset
<1>4. /\ IsFiniteSet(OwnedBy(w, o)')
      /\ Cardinality(OwnedBy(w, o)') <= Cardinality(OwnedBy(w, o))
  BY <1>2, <1>3, FS_Subset
<1>5. QED
  BY <1>1, <1>3, <1>4, FS_CardinalityType

LEMMA OthersCount ==
    ASSUME IInv, Others, NEW r \in Request
    PROVE  CountInv(r)'
<1>0. TypeOK /\ CountInv(r) /\ UNCHANGED requestVars
  BY OthersKeep DEF IInv
<1>1. KeyOf(r)' = KeyOf(r) /\ OwnerOf(r)' = OwnerOf(r) /\ WhatOf(r)' = WhatOf(r)
  BY <1>0 DEF KeyOf, OwnerOf, WhatOf, requestVars
<1>2. OwnerOf(r) \in Owner /\ WhatOf(r) \in What
  BY <1>0, Asked
<1>3. ASSUME pc[r] \in Subscribed => plan'[OwnerOf(r)] = plan[OwnerOf(r)],
             pc[r] \in Counted => Below(r)'
      PROVE  CountInv(r)'
  BY <1>0, <1>1, <1>3 DEF CountInv, requestVars
<1>4. ASSUME rows' = rows, pc[r] \in Counted => limit'[planSeen[r]] = limit[planSeen[r]]
      PROVE  pc[r] \in Counted => Below(r)'
  BY <1>0, <1>1, <1>4 DEF Below, OwnedBy, CountInv, requestVars
<1>5. ASSUME NEW o \in Owner, NEW p \in Plan, ChangePlan(o, p)
      PROVE  CountInv(r)'
  <2>1. rows' = rows /\ limit' = limit
    BY <1>5 DEF ChangePlan
  <2>2. pc[r] \in Subscribed => lock[<<"subscription", OwnerOf(r)>>] # Nobody
    BY <1>0, Constants DEF CountInv
  <2>3. lock[<<"subscription", o>>] = Nobody /\ plan' = [plan EXCEPT ![o] = p]
    BY <1>5 DEF ChangePlan, Free
  <2>4. pc[r] \in Subscribed => plan'[OwnerOf(r)] = plan[OwnerOf(r)]
    BY <1>0, <1>2, <2>2, <2>3 DEF TypeOK
  <2>5. QED
    BY <1>3, <1>4, <2>1, <2>4
<1>6. ASSUME NEW p \in Plan, EditPlan(p)
      PROVE  CountInv(r)'
  <2>1. rows' = rows /\ plan' = plan
    BY <1>6 DEF EditPlan
  <2>2. pc[r] \in Counted => lock[<<"plan", planSeen[r]>>] # Nobody /\ planSeen[r] # NoPlan
    BY <1>0, Constants DEF CountInv, Subscribed, Planned
  <2>3. lock[<<"plan", p>>] = Nobody /\ \E n \in Limits : limit' = [limit EXCEPT ![p] = n]
    BY <1>6 DEF EditPlan, Free
  <2>4. planSeen[r] \in Plan \cup {NoPlan}
    BY <1>0 DEF TypeOK
  <2>5. pc[r] \in Counted => limit'[planSeen[r]] = limit[planSeen[r]]
    BY <1>0, <2>2, <2>3, <2>4 DEF TypeOK
  <2>6. QED
    BY <1>3, <1>4, <2>1, <2>5
<1>7. ASSUME NEW w \in What, NEW l \in rows[w], DeleteRow(w, l)
      PROVE  CountInv(r)'
  <2>1. plan' = plan /\ limit' = limit /\ rows' = [rows EXCEPT ![w] = rows[w] \ {l}]
    BY <1>7 DEF DeleteRow
  <2>2. PICK v \in What, o \in Owner : v = WhatOf(r) /\ o = OwnerOf(r)
    BY <1>2
  <2>3. rows'[v] \subseteq rows[v] /\ IsFiniteSet(rows[v])
    BY <1>0, <2>1 DEF TypeOK, IInv
  <2>4. /\ Cardinality(OwnedBy(v, o)) \in Nat
        /\ Cardinality(OwnedBy(v, o)') \in Nat
        /\ Cardinality(OwnedBy(v, o)') <= Cardinality(OwnedBy(v, o))
    BY <2>3, FewerOwned
  <2>5. ASSUME pc[r] \in Counted
        PROVE  Below(r)'
    <3>1. Cardinality(OwnedBy(v, o)) < limit[planSeen[r]][v]
      BY <1>0, <2>2, <2>5 DEF CountInv, Below
    <3>2. limit[planSeen[r]][v] \in Nat
      <4>1. planSeen[r] \in Plan
        BY <1>0, <2>5 DEF CountInv, TypeOK, Subscribed, Planned
      <4>2. QED
        BY <1>0, <4>1 DEF TypeOK
    <3>3. Cardinality(OwnedBy(v, o)') < limit[planSeen[r]][v]
      BY <2>4, <3>1, <3>2
    <3>4. v = WhatOf(r)' /\ o = OwnerOf(r)' /\ planSeen' = planSeen
      BY <1>0, <1>1, <2>2 DEF requestVars
    <3>5. QED
      BY <2>1, <3>3, <3>4 DEF Below, OwnedBy
  <2>6. QED
    BY <1>3, <2>1, <2>5
<1>8. CASE DeleteExpired \/ Tick
  BY <1>3, <1>4, <1>8 DEF DeleteExpired, Tick
<1>9. QED
  BY <1>5, <1>6, <1>7, <1>8 DEF Others

LEMMA OthersRecord ==
    ASSUME IInv, Others, NEW k \in Key
    PROVE  RecordInv(k)'
<1>0. TypeOK /\ RecordInv(k) /\ UNCHANGED requestVars
  BY OthersKeep DEF IInv
<1>1. ASSUME NEW q \in made
      PROVE  q \in Request /\ now[q] + TTL \in Nat
  BY <1>0, <1>1, Constants DEF TypeOK
<1>2. CASE record' = record
  <2>1. clock \in Nat /\ (clock' = clock \/ clock' = clock + 1)
    BY <1>0 DEF TypeOK, Others, ChangePlan, EditPlan, DeleteRow, DeleteExpired, Tick
  <2>2. ASSUME NEW q \in made, KeyOf(q) = k, q # record[k].by
        PROVE  now[q] + TTL <= clock'
    <3>1. now[q] + TTL <= clock
      BY <1>0, <2>2 DEF RecordInv
    <3>2. QED
      BY <1>1, <2>1, <2>2, <3>1
  <2>3. QED
    BY <1>0, <1>2, <2>2 DEF RecordInv, requestVars, KeyOf, ClaimOf
<1>3. CASE DeleteExpired
  <2>1. clock' = clock
    BY <1>3 DEF DeleteExpired
  <2>2. CASE record'[k] = record[k]
    BY <1>0, <2>1, <2>2 DEF RecordInv, requestVars, KeyOf, ClaimOf
  <2>3. CASE /\ record'[k] = NoRecord
             /\ record[k].expires <= clock
             /\ lock[<<"record", k>>] = Nobody
    <3>1. ASSUME NEW q \in made, KeyOf(q) = k
          PROVE  now[q] + TTL <= clock
      <4>1. CASE q = record[k].by
        <5>1. record[k] # NoRecord
          BY <1>0, <1>1, <4>1, Found, Constants
        <5>2. QED
          BY <2>3, <4>1, <5>1, Committed
      <4>2. CASE q # record[k].by
        BY <1>0, <3>1, <4>2 DEF RecordInv
      <4>3. QED
        BY <4>1, <4>2
    <3>2. QED
      BY <1>0, <2>1, <2>3, <3>1 DEF RecordInv, requestVars, KeyOf
  <2>4. QED
    BY <1>0, <1>3, <2>2, <2>3, Cleaned
<1>4. QED
  BY <1>2, <1>3 DEF Others, ChangePlan, EditPlan, DeleteRow, Tick

LEMMA FiniteRows ==
    ASSUME IInv, [Next]_vars, NEW w \in What
    PROVE  IsFiniteSet(rows'[w])
<1>0. TypeOK /\ IsFiniteSet(rows[w])
  BY DEF IInv
<1>1. CASE rows' = rows
  BY <1>0, <1>1
<1>2. ASSUME NEW r \in Request, Commit(r)
      PROVE  IsFiniteSet(rows'[w])
  <2>1. rows'[w] = rows[w] \/ rows'[w] = rows[w] \cup {draft[r]}
    BY <1>0, <1>2 DEF Commit, TypeOK
  <2>2. QED
    BY <1>0, <2>1, FS_AddElement
<1>3. ASSUME NEW v \in What, NEW l \in rows[v], DeleteRow(v, l)
      PROVE  IsFiniteSet(rows'[w])
  <2>1. rows'[w] \subseteq rows[w]
    BY <1>0, <1>3 DEF DeleteRow, TypeOK
  <2>2. QED
    BY <1>0, <2>1, FS_Subset
<1>4. QED
  BY <1>1, <1>2, <1>3, MoveWorld
     DEF Next, Move, vars, ChangePlan, EditPlan, DeleteExpired, Tick

LEMMA NextCases ==
    ASSUME Next
    PROVE  (\E r \in Request : Move(r)) \/ Others
  BY DEF Next, Move, Others

LEMMA NextIInv == IInv /\ [Next]_vars => IInv'
<1> SUFFICES ASSUME IInv, [Next]_vars PROVE IInv'
  OBVIOUS
<1>1. \A w \in What : IsFiniteSet(rows'[w])
  BY FiniteRows
<1>2. ASSUME NEW r \in Request, Move(r)
      PROVE  IInv'
  <2>1. TypeOK'
    BY <1>2, ClaimingType, CreatingType, EndingType DEF Move, Statement
  <2>2. ASSUME NEW q \in Request
        PROVE  TimeInv(q)' /\ ClaimInv(q)' /\ CountInv(q)'
    <3>1. CASE q = r
      BY <1>2, <3>1, TimeSelf, ClaimSelf, CountSelf
    <3>2. CASE q # r
      BY <1>2, <3>2, TimeOther, ClaimOther, CountOther
    <3>3. QED
      BY <3>1, <3>2
  <2>3. \A k \in Key : RecordInv(k)'
    BY <1>2, RecordMove
  <2>4. OneLinkPerKey'
    BY <1>2, OneLinkMove
  <2>5. QED
    BY <1>1, <2>1, <2>2, <2>3, <2>4 DEF IInv
<1>3. CASE Others
  <2>1. TypeOK'
    BY <1>3, OthersType DEF IInv
  <2>2. \A r \in Request : TimeInv(r)' /\ ClaimInv(r)' /\ CountInv(r)'
    BY <1>3, OthersTime, OthersClaim, OthersCount
  <2>3. \A k \in Key : RecordInv(k)'
    BY <1>3, OthersRecord
  <2>4. OneLinkPerKey'
    BY <1>3, OthersKeep DEF IInv, OneLinkPerKey, requestVars, KeyOf
  <2>5. QED
    BY <1>1, <2>1, <2>2, <2>3, <2>4 DEF IInv
<1>4. CASE UNCHANGED vars
  <2>1. TypeOK'
    BY <1>4 DEF vars, IInv, TypeOK
  <2>2. ASSUME NEW r \in Request
        PROVE  TimeInv(r)' /\ ClaimInv(r)' /\ CountInv(r)'
    <3>1. TimeInv(r) /\ ClaimInv(r) /\ CountInv(r)
      BY DEF IInv
    <3>2. TimeInv(r)'
      BY <1>4, <3>1 DEF vars, TimeInv, InTransaction, NoReply
    <3>3. ClaimInv(r)'
      BY <1>4, <3>1 DEF vars, ClaimInv, ClaimOf, KeyOf
    <3>4. CountInv(r)'
      BY <1>4, <3>1 DEF vars, CountInv, KeyOf, OwnerOf, WhatOf, Below, OwnedBy
    <3>5. QED
      BY <3>2, <3>3, <3>4
  <2>3. \A k \in Key : RecordInv(k)'
    BY <1>4 DEF vars, IInv, RecordInv, ClaimOf, KeyOf
  <2>4. OneLinkPerKey'
    BY <1>4 DEF vars, IInv, OneLinkPerKey, KeyOf
  <2>5. QED
    BY <1>1, <2>1, <2>2, <2>3, <2>4 DEF IInv
<1>5. QED
  BY <1>2, <1>3, <1>4, NextCases

LEMMA InitIInv == Init => IInv
<1> SUFFICES ASSUME Init PROVE IInv
  OBVIOUS
<1>1. TypeOK
  BY InitType
<1>2. \A w \in What : IsFiniteSet(rows[w])
  BY FS_EmptySet DEF Init
<1>3. ASSUME NEW r \in Request
      PROVE  TimeInv(r) /\ ClaimInv(r) /\ CountInv(r)
  <2>1. /\ pc[r] = "idle" /\ now[r] = 0 /\ clock = 0 /\ reply[r] = NoReply /\ made = {}
        /\ \A l \in LockName : lock[l] = Nobody
    BY DEF Init
  <2>2. TimeInv(r)
    BY <2>1, Unanswered, Constants DEF TimeInv, InTransaction
  <2>3. ClaimInv(r) /\ CountInv(r)
    BY <2>1 DEF ClaimInv, CountInv, Keyed, Claiming, Subscribed, Planned, Counted
  <2>4. QED
    BY <2>2, <2>3
<1>4. \A k \in Key : RecordInv(k)
  BY LockNames DEF Init, RecordInv
<1>5. OneLinkPerKey
  BY DEF Init, OneLinkPerKey
<1>6. QED
  BY <1>1, <1>2, <1>3, <1>4, <1>5 DEF IInv

LEMMA IInvHolds == Spec => []IInv
  BY InitIInv, NextIInv, PTL DEF Spec

-----------------------------------------------------------------------------
(* Theorems.                                                               *)

\* Every variable keeps its type: a transaction never commits a row or a record
\* that it did not fill in, and no candidate code is drawn beyond the attempts.
THEOREM TypeCorrect == Spec => []TypeOK
<1>1. IInv => TypeOK
  BY DEF IInv
<1>2. QED
  BY <1>1, IInvHolds, PTL

\* Requests with one key make one link, until its record has expired.
THEOREM OneLinkPerKeyHolds == Spec => []OneLinkPerKey
<1>1. IInv => OneLinkPerKey
  BY DEF IInv
<1>2. QED
  BY <1>1, IInvHolds, PTL

\* Committed records are completed and name the link committed with them, and
\* no request is told that another is in progress.
THEOREM ClaimAndLinkTogetherHolds == Spec => []ClaimAndLinkTogether
<1>1. IInv => ClaimAndLinkTogether
  <2> SUFFICES ASSUME IInv PROVE ClaimAndLinkTogether
    OBVIOUS
  <2>1. \A r \in Request : reply[r].kind # "in progress"
    BY DEF IInv, TimeInv
  <2>2. QED
    BY <2>1, Committed DEF ClaimAndLinkTogether
<1>2. QED
  BY <1>1, IInvHolds, PTL

\* A request that was refused committed nothing and holds no lock.
THEOREM RefusedLeavesNothingHolds == Spec => []RefusedLeavesNothing
<1>1. IInv => RefusedLeavesNothing
  <2> SUFFICES ASSUME IInv, NEW r \in Request, reply[r].kind \notin {"none", "created"}
               PROVE  /\ r \notin made
                      /\ \A k \in Key : record[k].by # r
                      /\ \A l \in LockName : lock[l] # r
    BY DEF RefusedLeavesNothing
  <2>1. TypeOK /\ TimeInv(r)
    BY DEF IInv
  <2>2. pc[r] = "done" /\ r \notin made
    BY <2>1, Unanswered DEF TimeInv
  <2>3. \A l \in LockName : lock[l] # r
    BY <2>1, <2>2 DEF TimeInv, InTransaction
  <2>4. \A k \in Key : record[k].by # r
    BY <2>1, <2>2, Found, Committed, Constants
  <2>5. QED
    BY <2>2, <2>3, <2>4
<1>2. QED
  BY <1>1, IInvHolds, PTL

\* The row that a commit adds was counted under locks that still hold.
LEMMA CommitWithinLimit ==
    ASSUME IInv, NEW r \in Request, Commit(r), NEW w \in What, NEW l \in rows'[w] \ rows[w]
    PROVE  /\ plan[l.owner] # NoPlan
           /\ Cardinality(OwnedBy(w, l.owner)') <= limit[plan[l.owner]][w]
<1>0. TypeOK /\ CountInv(r) /\ IsFiniteSet(rows[w]) /\ pc[r] = "commit"
  BY DEF IInv, Commit
<1>1. w = WhatOf(r) /\ l = draft[r] /\ rows'[w] = rows[w] \cup {l}
  BY <1>0 DEF Commit, TypeOK
<1>2. PICK o \in Owner : o = OwnerOf(r)
  BY <1>0, Asked
<1>3. /\ l.owner = o
      /\ plan[o] = planSeen[r] /\ planSeen[r] # NoPlan
      /\ Cardinality(OwnedBy(w, o)) < limit[plan[o]][w]
  BY <1>0, <1>1, <1>2 DEF CountInv, Below, Subscribed, Planned, Counted
<1>4. OwnedBy(w, o)' = OwnedBy(w, o) \cup {l} /\ l \notin OwnedBy(w, o)
  BY <1>1, <1>3 DEF OwnedBy
<1>5. IsFiniteSet(OwnedBy(w, o))
  BY <1>0, FS_Subset DEF OwnedBy
<1>6. /\ Cardinality(OwnedBy(w, o)') = Cardinality(OwnedBy(w, o)) + 1
      /\ Cardinality(OwnedBy(w, o)) \in Nat
  BY <1>4, <1>5, FS_AddElement, FS_CardinalityType
<1>7. limit[plan[o]][w] \in Nat
  <2>1. plan[o] \in Plan
    BY <1>0, <1>3 DEF TypeOK
  <2>2. QED
    BY <1>0, <2>1 DEF TypeOK
<1>8. Cardinality(OwnedBy(w, o)') <= limit[plan[o]][w]
  BY <1>3, <1>6, <1>7
<1>9. QED
  BY <1>3, <1>8 DEF OwnedBy

\* No step leaves an owner with more links or endpoints than the plan in force
\* allows, whatever happened between the count and the commit.
THEOREM WithinLimitHolds == Spec => WithinLimit
<1> DEFINE Fits == \A w \in What : \A l \in rows'[w] \ rows[w] :
                      /\ plan[l.owner] # NoPlan
                      /\ Cardinality(OwnedBy(w, l.owner)') <= limit[plan[l.owner]][w]
<1>1. IInv /\ [Next]_vars => [Fits]_vars
  <2> SUFFICES ASSUME IInv, Next PROVE Fits
    OBVIOUS
  <2>1. CASE \A w \in What : rows'[w] \subseteq rows[w]
    BY <2>1
  <2>2. ASSUME NEW r \in Request, Commit(r)
        PROVE  Fits
    BY <2>2, CommitWithinLimit
  <2>3. ASSUME NEW w \in What, NEW l \in rows[w], DeleteRow(w, l)
        PROVE  \A v \in What : rows'[v] \subseteq rows[v]
    BY <2>3 DEF DeleteRow, IInv, TypeOK
  <2>4. QED
    BY <2>1, <2>2, <2>3, MoveWorld DEF Next, Move, ChangePlan, EditPlan, DeleteExpired, Tick
<1>2. QED
  BY <1>1, IInvHolds, PTL DEF Spec, WithinLimit

-----------------------------------------------------------------------------
(* The transaction implements the promise of IdempotentCreation.           *)

Begun  == {r \in Request : pc[r] # "idle"}
Holder == [k \in Key |-> [by |-> record[k].by, until |-> record[k].expires]]

LEMMA PromiseStutter ==
    ASSUME UNCHANGED <<clock, request, now, made, reply>>, Begun' = Begun, Holder' = Holder
    PROVE  UNCHANGED Promise!vars
  BY DEF Promise!vars, Begun, Holder

LEMMA RecordHolder ==
    ASSUME record' = record
    PROVE  Holder' = Holder
  BY DEF Holder

LEMMA MoveBegun ==
    ASSUME IInv, NEW r \in Request, Move(r)
    PROVE  IF Begin(r) THEN Begun' = Begun \cup {r} /\ r \notin Begun
                       ELSE Begun' = Begun /\ r \in Begun
<1>0. TypeOK
  BY DEF IInv
<1>1. \A q \in Request \ {r} : pc'[q] = pc[q]
  BY <1>0, MoveKept DEF Kept
<1>2. CASE Begin(r)
  <2>1. pc[r] = "idle" /\ pc'[r] # "idle"
    BY <1>0, <1>2, GotoPC DEF Begin
  <2>2. QED
    BY <1>1, <1>2, <2>1 DEF Begun
<1>3. CASE ~Begin(r)
  <2>1. pc[r] # "idle" /\ pc'[r] # "idle"
    <3>1. CASE Advance(r)
      BY <3>1 DEF Advance, InTransaction
    <3>2. CASE Refused(r)
      BY <1>0, <3>2, GotoPC DEF Refused, Refuse, InTransaction
    <3>3. CASE AnswerFromRecord(r) \/ Commit(r) \/ Announce(r) \/ Crash(r)
      BY <1>0, <3>3, GotoPC DEF AnswerFromRecord, Commit, Announce, Crash
    <3>4. QED
      BY <1>0, <1>3, <3>1, <3>2, <3>3, Shape
  <2>2. QED
    BY <1>1, <1>3, <2>1 DEF Begun
<1>4. QED
  BY <1>2, <1>3

\* A transaction that is not over has made nothing and was not answered.
LEMMA StillOpen ==
    ASSUME IInv, NEW r \in Request, InTransaction(r)
    PROVE  Promise!Open(r)
<1>1. TimeInv(r)
  BY DEF IInv
<1>2. r \in Begun /\ r \notin made /\ reply[r] = NoReply
  BY <1>1 DEF TimeInv, InTransaction, Begun
<1>3. QED
  BY <1>2 DEF Promise!Open, Promise!None, Begun, NoReply

LEMMA PromiseRefuse ==
    ASSUME IInv, NEW r \in Request, Move(r), Refused(r)
    PROVE  Promise!Refuse(r)
<1>1. PICK kind \in Refusals : Refuse(r, kind)
  BY DEF Refused
<1>2. InTransaction(r) /\ UNCHANGED <<worldVars, request, now, made>>
  BY DEF Refused
<1>3. ~Begin(r)
  BY <1>2 DEF InTransaction, Begin
<1>4. Begun' = Begun /\ Holder' = Holder
  BY <1>2, <1>3, MoveBegun, RecordHolder DEF worldVars
<1>5. Promise!Answer(r, kind, Nobody)
  BY <1>1, <1>2, <1>4 DEF Promise!Answer, Refuse, Answer, worldVars, Begun, Holder
<1>6. QED
  BY <1>1, <1>2, <1>5, StillOpen DEF Promise!Refuse, Promise!Refusal, Refusals

LEMMA PromiseAnswer ==
    ASSUME IInv, NEW r \in Request, AnswerFromRecord(r)
    PROVE  Promise!AnswerForHolder(r)
<1>1. PICK k \in Key : k = KeyOf(r)
  BY ExistingRecord
<1>2. PICK q : q = record[k].by
  OBVIOUS
<1>3. /\ record[k] # NoRecord
      /\ \/ SameBody(r) /\ Answer(r, "replayed", q)
         \/ ~SameBody(r) /\ Answer(r, "conflict", Nobody)
  BY <1>1, <1>2, ExistingRecord
<1>4. TypeOK
  BY DEF IInv
<1>5. q # Nobody /\ record[k].body = request[q].body
  BY <1>2, <1>3, <1>4, Found, Committed
<1>6. SameBody(r) <=> request[q].body = request[r].body
  BY <1>1, <1>5 DEF SameBody
<1>7. /\ UNCHANGED <<clock, request, now, made, record>>
      /\ InTransaction(r) /\ ~Begin(r) /\ Move(r)
  BY DEF AnswerFromRecord, worldVars, InTransaction, Begin, Move, Statement
<1>8. Begun' = Begun /\ Holder' = Holder
  BY <1>7, MoveBegun, RecordHolder
<1>9. \A kind, link : Answer(r, kind, link) => Promise!Answer(r, kind, link)
  BY <1>7, <1>8 DEF Promise!Answer, Answer, Begun, Holder
<1>10. Holder[k].by = q /\ k # NoKey /\ Promise!KeyOf(r) = k
  BY <1>1, <1>2, Constants DEF Holder, Promise!KeyOf, KeyOf
<1>11. Promise!Open(r)
  BY <1>7, StillOpen
<1>12. QED
  BY <1>3, <1>5, <1>6, <1>9, <1>10, <1>11 DEF Promise!AnswerForHolder, Holder

LEMMA PromiseCreate ==
    ASSUME IInv, NEW r \in Request, Commit(r)
    PROVE  Promise!Create(r)
<1>0. TypeOK /\ TTL \in Nat
  BY Constants DEF IInv
<1>1. /\ UNCHANGED <<clock, request, now, reply>> /\ made' = made \cup {r}
      /\ InTransaction(r) /\ ~Begin(r) /\ Move(r)
  BY DEF Commit, InTransaction, Begin, Move, Statement
<1>2. Begun' = Begun
  BY <1>1, MoveBegun
<1>3. Promise!Open(r) /\ Promise!KeyOf(r) = KeyOf(r)
  BY <1>1, StillOpen DEF Promise!KeyOf, KeyOf
<1>4. CASE KeyOf(r) = NoKey
  <2>1. \A k \in Key : record'[k] = record[k]
    BY <1>4, CommitRecord, Constants
  <2>2. Holder' = Holder
    BY <2>1 DEF Holder
  <2>3. QED
    BY <1>1, <1>2, <1>3, <1>4, <2>2 DEF Promise!Create, Begun, Holder
<1>5. CASE KeyOf(r) # NoKey
  <2>1. PICK k \in Key : k = KeyOf(r)
    BY <1>0, <1>5, KeyedKey
  <2>2. /\ record'[k] = ClaimOf(r, "completed", r)
        /\ record[k] = NoRecord \/ record[k].expires <= now[r]
        /\ \A j \in Key \ {k} : record'[j] = record[j]
    BY <2>1, CommitRecord
  <2>3. record'[k].by = r /\ record'[k].expires = now[r] + TTL
    BY <2>2, ClaimOfFields
  <2>4. Holder' = [Holder EXCEPT ![k] = [by |-> r, until |-> now[r] + TTL]]
    BY <2>2, <2>3 DEF Holder
  <2>5. Holder[k] = Promise!Unheld \/ Holder[k].until <= now[r]
    BY <2>2 DEF Holder, NoRecord, Promise!Unheld
  <2>6. Promise!Available(r)
    BY <1>3, <2>1, <2>5 DEF Promise!Available, Holder
  <2>7. QED
    BY <1>1, <1>2, <1>3, <1>5, <2>1, <2>4, <2>6 DEF Promise!Create, Begun, Holder
<1>6. QED
  BY <1>4, <1>5

LEMMA PromiseMove ==
    ASSUME IInv, NEW r \in Request, Move(r)
    PROVE  Promise!Next \/ UNCHANGED Promise!vars
<1> USE DEF worldVars, localVars
<1>0. TypeOK /\ TimeInv(r)
  BY DEF IInv
<1>1. CASE Begin(r)
  <2>1. Begun' = Begun \cup {r} /\ r \notin Begun
    BY <1>1, MoveBegun
  <2>2. Holder' = Holder
    BY <1>1, RecordHolder DEF Begin
  <2>3. Promise!Begin(r)
    BY <1>1, <2>1, <2>2 DEF Promise!Begin, Begin, Begun, Holder
  <2>4. QED
    BY <2>3 DEF Promise!Next
<1>2. CASE Advance(r)
  <2>1. Begun' = Begun /\ Holder' = Holder
    BY <1>2, MoveBegun, RecordHolder DEF Advance, InTransaction, Begin
  <2>2. QED
    BY <1>2, <2>1, PromiseStutter DEF Advance
<1>3. CASE Refused(r)
  BY <1>3, PromiseRefuse DEF Promise!Next
<1>4. CASE AnswerFromRecord(r)
  BY <1>4, PromiseAnswer DEF Promise!Next
<1>5. CASE Commit(r)
  BY <1>5, PromiseCreate DEF Promise!Next
<1>6. CASE Announce(r)
  <2>1. Begun' = Begun /\ Holder' = Holder
    BY <1>6, MoveBegun, RecordHolder DEF Announce, Begin
  <2>2. r \in made /\ reply[r] = NoReply
    BY <1>0, <1>6 DEF TimeInv, Announce
  <2>3. Promise!Confirm(r)
    BY <1>6, <2>1, <2>2
       DEF Promise!Confirm, Promise!Answer, Promise!None, NoReply, Announce, Answer, Begun, Holder
  <2>4. QED
    BY <2>3 DEF Promise!Next
<1>7. CASE Crash(r)
  <2>1. Begun' = Begun /\ Holder' = Holder
    BY <1>7, MoveBegun, RecordHolder DEF Crash, Begin
  <2>2. QED
    BY <1>7, <2>1, PromiseStutter DEF Crash
<1>8. QED
  BY <1>0, <1>1, <1>2, <1>3, <1>4, <1>5, <1>6, <1>7, Shape

LEMMA PromiseOthers ==
    ASSUME IInv, Others
    PROVE  Promise!Next \/ UNCHANGED Promise!vars
<1>1. UNCHANGED <<request, now, made, reply>> /\ pc' = pc
  BY OthersKeep DEF requestVars
<1>2. Begun' = Begun
  BY <1>1 DEF Begun
<1>3. CASE record' = record /\ clock' = clock
  BY <1>1, <1>2, <1>3, RecordHolder, PromiseStutter
<1>4. CASE DeleteExpired
  <2> DEFINE old == {k \in Key : record[k] # NoRecord /\ record[k].expires <= clock}
  <2>1. old \in SUBSET {k \in Key : Holder[k].until <= clock}
    BY DEF Holder
  <2>2. record' = [k \in Key |-> IF k \in old THEN NoRecord ELSE record[k]] /\ clock' = clock
    BY <1>4 DEF DeleteExpired
  <2>3. Holder' = [k \in Key |-> IF k \in old THEN Promise!Unheld ELSE Holder[k]]
    <3> HIDE DEF old
    <3> QED
      BY <2>2 DEF Holder, NoRecord, Promise!Unheld
  <2> HIDE DEF old
  <2>4. Promise!Forget
    BY <1>1, <1>2, <2>1, <2>2, <2>3 DEF Promise!Forget, Begun, Holder
  <2>5. QED
    BY <2>4 DEF Promise!Next
<1>5. CASE Tick
  <2>1. clock' = clock + 1 /\ Holder' = Holder
    BY <1>5, RecordHolder DEF Tick
  <2>2. Promise!Tick
    BY <1>1, <1>2, <2>1 DEF Promise!Tick, Begun, Holder
  <2>3. QED
    BY <2>2 DEF Promise!Next
<1>6. QED
  BY <1>3, <1>4, <1>5 DEF Others, ChangePlan, EditPlan, DeleteRow

\* Seen from outside, a creation happens in one step: what clients are answered
\* is what the abstract specification allows, for any interleaving of claims,
\* locks, waits, rollbacks, kills and cleanups.
THEOREM ImplementsPromiseHolds == Spec => ImplementsPromise
<1>1. Init => Promise!Init
  <2> SUFFICES ASSUME Init PROVE Promise!Init
    OBVIOUS
  <2>1. Begun = {}
    BY DEF Init, Begun
  <2>2. Holder = [k \in Key |-> Promise!Unheld]
    BY DEF Init, Holder, NoRecord, Promise!Unheld
  <2>3. QED
    BY <2>1, <2>2 DEF Init, Promise!Init, Promise!None, NoReply, Begun, Holder
<1>2. IInv /\ [Next]_vars => [Promise!Next]_(Promise!vars)
  <2> SUFFICES ASSUME IInv, [Next]_vars PROVE Promise!Next \/ UNCHANGED Promise!vars
    OBVIOUS
  <2>1. CASE Next
    BY <2>1, NextCases, PromiseMove, PromiseOthers
  <2>2. CASE UNCHANGED vars
    BY <2>2 DEF vars, Promise!vars
  <2>3. QED
    BY <2>1, <2>2
<1>3. QED
  BY <1>1, <1>2, IInvHolds, PTL DEF Spec, ImplementsPromise, Promise!Spec

-----------------------------------------------------------------------------
(* Absence of deadlock: locks are taken in one order.                      *)

\* The statements at which a request may hold a lock of a kind.
Holds(kind) ==
    CASE kind = "record"       -> {"insert claim", "existing"} \cup Claiming
      [] kind = "claim"        -> Claiming
      [] kind = "subscription" -> Subscribed
      [] kind = "plan"         -> Planned
      [] kind = "code"         -> {"complete", "commit"}

HeldInv(r) ==
    \A l \in LockName : lock[l] = r =>
        /\ pc[r] \in Holds(l[1])
        /\ l[1] = "record" => l[2] = KeyOf(r)

\* A link is inserted with a code.
CodeInv(r) == pc[r] = "insert link" => code[r] \in Code

\* A statement that waits is at one rank, and what it waits for is held at a
\* higher one.
Rank(r) ==
    CASE pc[r] \in {"lookup", "lock record", "get record", "lock existing"} -> 0
      [] pc[r] = "insert claim" /\ lock[<<"record", KeyOf(r)>>] # r -> 1
      [] pc[r] = "insert claim" /\ lock[<<"record", KeyOf(r)>>] = r -> 2
      [] pc[r] \in {"subscription", "lock subscription"} -> 3
      [] pc[r] = "lock plan" -> 4
      [] pc[r] \in {"count", "pick code", "insert link", "insert endpoint"} -> 5
      [] pc[r] \in {"idle", "existing", "complete", "commit", "announce", "done"} -> 6

LEMMA HoldsFacts ==
    /\ Holds("record") = {"insert claim", "existing"} \cup Claiming
    /\ Holds("claim") = Claiming
    /\ Holds("subscription") = Subscribed
    /\ Holds("plan") = Planned
    /\ Holds("code") = {"complete", "commit"}
  BY DEF Holds

LEMMA LockKinds ==
    /\ \A l \in LockName : l[1] \in {"record", "claim", "subscription", "plan", "code"}
    /\ \A k \in Key : <<"record", k>> \in LockName /\ <<"claim", k>> \in LockName
    /\ \A o \in Owner : <<"subscription", o>> \in LockName
    /\ \A p \in Plan : <<"plan", p>> \in LockName
    /\ \A c \in Code : <<"code", c>> \in LockName
  BY DEF LockName

LEMMA RankFacts ==
    ASSUME TypeOK, NEW r \in Request
    PROVE  /\ pc[r] \in {"lock record", "lock existing"} => Rank(r) = 0
           /\ pc[r] = "insert claim" => Rank(r) \in {1, 2}
           /\ pc[r] = "insert claim" /\ lock[<<"record", KeyOf(r)>>] # r => Rank(r) = 1
           /\ pc[r] = "insert claim" /\ lock[<<"record", KeyOf(r)>>] = r => Rank(r) = 2
           /\ pc[r] = "lock subscription" => Rank(r) = 3
           /\ pc[r] = "lock plan" => Rank(r) = 4
           /\ pc[r] = "insert link" => Rank(r) = 5
           /\ pc[r] = "existing" => Rank(r) = 6
           /\ pc[r] \in Claiming => Rank(r) \in {3, 4, 5, 6}
           /\ pc[r] \in Subscribed => Rank(r) \in {4, 5, 6}
           /\ pc[r] \in Planned => Rank(r) \in {5, 6}
           /\ pc[r] \in {"complete", "commit"} => Rank(r) = 6
           /\ Rank(r) \in {0, 1, 2, 3, 4, 5, 6}
<1>1. pc[r] \in Step
  BY DEF TypeOK
<1>2. /\ pc[r] \in {"lookup", "lock record", "get record", "lock existing"} => Rank(r) = 0
      /\ pc[r] = "insert claim" /\ lock[<<"record", KeyOf(r)>>] # r => Rank(r) = 1
      /\ pc[r] = "insert claim" /\ lock[<<"record", KeyOf(r)>>] = r => Rank(r) = 2
      /\ pc[r] \in {"subscription", "lock subscription"} => Rank(r) = 3
      /\ pc[r] = "lock plan" => Rank(r) = 4
      /\ pc[r] \in {"count", "pick code", "insert link", "insert endpoint"} => Rank(r) = 5
      /\ pc[r] \in {"idle", "existing", "complete", "commit", "announce", "done"} => Rank(r) = 6
  BY DEF Rank
<1> DEFINE n    == Rank(r)
           mine == lock[<<"record", KeyOf(r)>>] = r
<1>3. /\ pc[r] \in {"lookup", "lock record", "get record", "lock existing"} => n = 0
      /\ pc[r] = "insert claim" /\ ~mine => n = 1
      /\ pc[r] = "insert claim" /\ mine => n = 2
      /\ pc[r] \in {"subscription", "lock subscription"} => n = 3
      /\ pc[r] = "lock plan" => n = 4
      /\ pc[r] \in {"count", "pick code", "insert link", "insert endpoint"} => n = 5
      /\ pc[r] \in {"idle", "existing", "complete", "commit", "announce", "done"} => n = 6
  BY <1>2
<1> HIDE DEF n, mine
<1>4. n \in {0, 1, 2, 3, 4, 5, 6}
  BY <1>1, <1>3 DEF Step
<1>5. pc[r] = "insert claim" => n \in {1, 2}
  BY <1>3
<1>6. pc[r] \in Planned => n \in {5, 6}
  BY <1>3 DEF Planned, Counted
<1>7. pc[r] \in Subscribed => n \in {4, 5, 6}
  BY <1>3, <1>6 DEF Subscribed
<1>8. pc[r] \in Claiming => n \in {3, 4, 5, 6}
  BY <1>3, <1>7 DEF Claiming
<1>9. QED
  BY <1>3, <1>4, <1>5, <1>6, <1>7, <1>8 DEF n, mine

LEMMA HeldKept ==
    ASSUME NEW q \in Request, HeldInv(q), request' = request, pc'[q] = pc[q],
           \A l \in LockName : lock'[l] = q => lock[l] = q
    PROVE  HeldInv(q)'
  BY DEF HeldInv, KeyOf, Holds

LEMMA HeldNothing ==
    ASSUME NEW r \in Request, \A l \in LockName : lock'[l] # r
    PROVE  HeldInv(r)'
  BY DEF HeldInv

\* A statement goes on to one where every lock it held may be held, and takes
\* the lock l or none.
LEMMA HeldStep ==
    ASSUME NEW r \in Request, HeldInv(r), request' = request, NEW l,
           \A m \in LockName : lock'[m] = r => lock[m] = r \/ m = l,
           \A m \in LockName : lock[m] = r => pc'[r] \in Holds(m[1]),
           l \in LockName => pc'[r] \in Holds(l[1]) /\ (l[1] = "record" => l[2] = KeyOf(r))
    PROVE  HeldInv(r)'
<1>1. KeyOf(r)' = KeyOf(r)
  BY DEF KeyOf
<1>2. QED
  BY <1>1 DEF HeldInv, Holds

\* Along the statements of a transaction more may be held.
LEMMA HeldMore ==
    ASSUME NEW r \in Request, HeldInv(r),
           \/ pc[r] \notin {"insert claim", "existing"} \cup Claiming
           \/ pc[r] = "insert claim" /\ pc'[r] = "subscription"
           \/ pc[r] = "subscription" /\ pc'[r] = "lock subscription"
           \/ pc[r] = "lock subscription" /\ pc'[r] = "lock plan"
           \/ pc[r] = "lock plan" /\ pc'[r] = "count"
           \/ /\ pc[r] \in {"count", "pick code", "insert link", "insert endpoint"}
              /\ pc'[r] \in Counted
           \/ pc[r] = "complete" /\ pc'[r] = "commit"
    PROVE  \A m \in LockName : lock[m] = r => pc'[r] \in Holds(m[1])
<1>1. SUFFICES ASSUME NEW m \in LockName, lock[m] = r
               PROVE  pc'[r] \in Holds(m[1])
  OBVIOUS
<1>2. m[1] \in {"record", "claim", "subscription", "plan", "code"} /\ pc[r] \in Holds(m[1])
  BY <1>1, LockKinds DEF HeldInv
<1>3. QED
  BY <1>2, HoldsFacts DEF Claiming, Subscribed, Planned, Counted

\* No lock, or one that the statement asked for.
LEMMA Taken ==
    ASSUME TypeOK, NEW r \in Request, NEW l, lock' = lock \/ Acquire(l, r)
    PROVE  \A m \in LockName : lock'[m] = r => lock[m] = r \/ m = l
  BY DEF TypeOK, Acquire

LEMMA HeldSelf ==
    ASSUME IInv, NEW r \in Request, HeldInv(r), Move(r)
    PROVE  HeldInv(r)'
<1> USE DEF worldVars, localVars
<1>0. TypeOK /\ ClaimInv(r) /\ TimeInv(r)
  BY DEF IInv
<1>1. request' = request
  BY MoveWorld
<1>2. ASSUME EndTransaction(r)
      PROVE  HeldInv(r)'
  BY <1>0, <1>2, EndReleases, HeldNothing
<1>3. ASSUME NEW kind, Refuse(r, kind)
      PROVE  HeldInv(r)'
  BY <1>2, <1>3 DEF Refuse
<1>4. CASE Begin(r) \/ Announce(r)
  <2>1. ~InTransaction(r) /\ lock' = lock
    BY <1>4 DEF Begin, Announce, InTransaction
  <2>2. \A l \in LockName : lock'[l] # r
    BY <1>0, <2>1 DEF TimeInv
  <2>3. QED
    BY <2>2, HeldNothing
<1>5. ASSUME NEW l, lock' = lock \/ Acquire(l, r),
             \A m \in LockName : lock[m] = r => pc'[r] \in Holds(m[1]),
             l \in LockName => pc'[r] \in Holds(l[1]) /\ (l[1] = "record" => l[2] = KeyOf(r))
      PROVE  HeldInv(r)'
  BY <1>0, <1>1, <1>5, Taken, HeldStep
<1>6. ASSUME lock' = lock, \A m \in LockName : lock[m] = r => pc'[r] \in Holds(m[1])
      PROVE  HeldInv(r)'
  <2>1. \A m \in LockName : lock'[m] = r => lock[m] = r
    BY <1>6
  <2>2. KeyOf(r)' = KeyOf(r)
    BY <1>1 DEF KeyOf
  <2>3. QED
    BY <1>6, <2>1, <2>2 DEF HeldInv, Holds
<1> USE DEF Claiming, Subscribed, Planned, Counted
<1>7. CASE Lookup(r)
  <2>1. pc[r] = "lookup" /\ lock' = lock
    BY <1>7 DEF Lookup
  <2>2. QED
    BY <1>6, <2>1, HeldMore
<1>8. CASE LockRecord(r)
  <2> DEFINE l == <<"record", KeyOf(r)>>
  <2>1. \E step \in {"insert claim", "existing"} : Goto(r, step)
    BY <1>8 DEF LockRecord
  <2>2. /\ pc[r] = "lock record"
        /\ pc'[r] \in {"insert claim", "existing"}
        /\ lock' = lock \/ Acquire(l, r)
    BY <1>0, <1>8, <2>1, GotoPC DEF LockRecord
  <2>3. l[1] = "record" /\ l[2] = KeyOf(r)
    OBVIOUS
  <2> HIDE DEF l
  <2>4. QED
    BY <1>5, <2>2, <2>3, HeldMore, HoldsFacts
<1>9. CASE InsertClaim(r)
  <2> DEFINE l == <<"claim", KeyOf(r)>>
  <2>1. pc[r] = "insert claim"
    BY <1>9 DEF InsertClaim
  <2>2. KeyOf(r) \in Key
    BY <1>0, <2>1, Asked DEF ClaimInv, Keyed
  <2>3. CASE record[KeyOf(r)] = NoRecord \/ Dropping(r, KeyOf(r))
    <3>1. Acquire(l, r) /\ pc'[r] = "subscription"
      BY <1>0, <1>9, <2>3, GotoPC DEF InsertClaim
    <3>2. l[1] = "claim"
      OBVIOUS
    <3> HIDE DEF l
    <3>3. QED
      BY <1>5, <2>1, <3>1, <3>2, HeldMore, HoldsFacts
  <2>4. CASE ~(record[KeyOf(r)] = NoRecord \/ Dropping(r, KeyOf(r)))
    <3>1. lock' = lock
      BY <1>9, <2>4 DEF InsertClaim
    <3>2. lock[<<"record", KeyOf(r)>>] # r
      BY <2>1, <2>4 DEF Dropping
    <3>3. \A m \in LockName : lock[m] # r
      <4>1. SUFFICES ASSUME NEW m \in LockName, lock[m] = r PROVE FALSE
        OBVIOUS
      <4>2. pc[r] \in Holds(m[1]) /\ (m[1] = "record" => m[2] = KeyOf(r))
        BY <4>1 DEF HeldInv
      <4>3. m[1] = "record"
        BY <2>1, <4>2, LockKinds, HoldsFacts
      <4>4. m = <<"record", m[2]>>
        BY <4>3 DEF LockName
      <4>5. QED
        BY <3>2, <4>1, <4>2, <4>3, <4>4
    <3>4. QED
      BY <1>6, <3>1, <3>3
  <2>5. QED
    BY <2>3, <2>4
<1>10. CASE GetRecord(r)
  <2>1. CASE Refuse(r, "error")
    BY <1>3, <2>1
  <2>2. CASE ~Refuse(r, "error")
    <3>1. pc[r] = "get record" /\ lock' = lock
      BY <1>10, <2>2 DEF GetRecord
    <3>2. QED
      BY <1>6, <3>1, HeldMore
  <2>3. QED
    BY <2>1, <2>2
<1>10a. CASE LockExisting(r)
  <2> DEFINE l == <<"record", KeyOf(r)>>
  <2>1. CASE Refuse(r, "error")
    BY <1>3, <2>1
  <2>2. CASE ~Refuse(r, "error")
    <3>1. pc[r] = "lock existing" /\ Acquire(l, r) /\ pc'[r] = "existing"
      BY <1>0, <1>10a, <2>2, GotoPC DEF LockExisting
    <3>2. l[1] = "record" /\ l[2] = KeyOf(r)
      OBVIOUS
    <3> HIDE DEF l
    <3>3. QED
      BY <1>5, <3>1, <3>2, HeldMore, HoldsFacts
  <2>3. QED
    BY <2>1, <2>2
<1>11. CASE AnswerFromRecord(r) \/ Commit(r) \/ Crash(r)
  BY <1>2, <1>11 DEF AnswerFromRecord, Commit, Crash
<1>12. CASE FindSubscription(r)
  <2>1. CASE Refuse(r, "no subscription")
    BY <1>3, <2>1
  <2>2. CASE ~Refuse(r, "no subscription")
    <3>1. pc[r] = "subscription" /\ lock' = lock /\ pc'[r] = "lock subscription"
      BY <1>0, <1>12, <2>2, GotoPC DEF FindSubscription
    <3>2. QED
      BY <1>6, <3>1, HeldMore
  <2>3. QED
    BY <2>1, <2>2
<1>13. CASE LockSubscription(r)
  <2> DEFINE l == <<"subscription", OwnerOf(r)>>
  <2>1. CASE Refuse(r, "no subscription")
    BY <1>3, <2>1
  <2>2. CASE ~Refuse(r, "no subscription")
    <3>1. pc[r] = "lock subscription" /\ Acquire(l, r) /\ pc'[r] = "lock plan"
      BY <1>0, <1>13, <2>2, GotoPC DEF LockSubscription
    <3>2. l[1] = "subscription"
      OBVIOUS
    <3> HIDE DEF l
    <3>3. QED
      BY <1>5, <3>1, <3>2, HeldMore, HoldsFacts
  <2>3. QED
    BY <2>1, <2>2
<1>14. CASE LockPlan(r)
  <2> DEFINE l == <<"plan", planSeen[r]>>
  <2>1. pc[r] = "lock plan" /\ Acquire(l, r) /\ pc'[r] = "count"
    BY <1>0, <1>14, GotoPC DEF LockPlan
  <2>2. l[1] = "plan"
    OBVIOUS
  <2> HIDE DEF l
  <2>3. QED
    BY <1>5, <2>1, <2>2, HeldMore, HoldsFacts
<1>15. CASE CountRows(r) \/ PickCode(r)
  <2>1. /\ pc[r] \in {"count", "pick code"}
        /\ \/ \E kind : Refuse(r, kind)
           \/ /\ \E step \in {"pick code", "insert link", "insert endpoint"} : Goto(r, step)
              /\ lock' = lock
    BY <1>15 DEF CountRows, PickCode
  <2>2. CASE lock' = lock /\ pc'[r] \in {"pick code", "insert link", "insert endpoint"}
    BY <1>6, <2>1, <2>2, HeldMore
  <2>3. QED
    BY <1>0, <1>3, <2>1, <2>2, GotoPC
<1>16. CASE InsertLink(r)
  <2> DEFINE l == <<"code", code[r]>>
  <2>1. /\ pc[r] = "insert link"
        /\ \/ \E kind : Refuse(r, kind)
           \/ Goto(r, "pick code") /\ lock' = lock
           \/ Goto(r, AfterInsert(r)) /\ Acquire(l, r)
    BY <1>16 DEF InsertLink
  <2>2. CASE Goto(r, "pick code") /\ lock' = lock
    <3>1. pc'[r] = "pick code"
      BY <1>0, <2>2, GotoPC
    <3>2. QED
      BY <1>6, <2>1, <2>2, <3>1, HeldMore
  <2>3. CASE Goto(r, AfterInsert(r)) /\ Acquire(l, r)
    <3>1. pc'[r] \in {"complete", "commit"}
      BY <1>0, <2>3, GotoPC DEF AfterInsert
    <3>2. l[1] = "code"
      OBVIOUS
    <3> HIDE DEF l
    <3>3. QED
      BY <1>5, <2>1, <2>3, <3>1, <3>2, HeldMore, HoldsFacts
  <2>4. QED
    BY <1>3, <2>1, <2>2, <2>3
<1>17. CASE InsertEndpoint(r) \/ Complete(r)
  <2>1. pc[r] \in {"insert endpoint", "complete"} /\ lock' = lock /\ pc'[r] = "commit"
    BY <1>0, <1>17, GotoPC DEF InsertEndpoint, Complete
  <2>2. QED
    BY <1>6, <2>1, HeldMore
<1>18. QED
  BY <1>4, <1>7, <1>8, <1>9, <1>10, <1>10a, <1>11, <1>12, <1>13, <1>14, <1>15, <1>16, <1>17
     DEF Move, Statement

LEMMA CodeSelf ==
    ASSUME TypeOK, NEW r \in Request, Move(r)
    PROVE  CodeInv(r)'
<1>1. SUFFICES ASSUME pc'[r] = "insert link"
               PROVE  code'[r] \in Code
  BY DEF CodeInv
<1>2. PickCode(r)
  <2>1. ~Begin(r) /\ ~Lookup(r) /\ ~LockRecord(r) /\ ~LockPlan(r) /\ ~InsertEndpoint(r)
        /\ ~Complete(r) /\ ~Commit(r) /\ ~Announce(r) /\ ~Crash(r) /\ ~AnswerFromRecord(r)
    BY <1>1 DEF TypeOK, Goto, Begin, Lookup, LockRecord, LockPlan, InsertEndpoint, Complete,
                Commit, Announce, Crash, AnswerFromRecord
  <2>2. ASSUME NEW step, Goto(r, step)
        PROVE  step = "insert link"
    BY <1>1, <2>2, GotoPC
  <2>3. \A kind : ~Refuse(r, kind)
    BY <2>2 DEF Refuse
  <2>4. /\ ~InsertClaim(r) /\ ~GetRecord(r) /\ ~LockExisting(r)
        /\ ~FindSubscription(r) /\ ~LockSubscription(r)
    BY <2>2, <2>3 DEF InsertClaim, GetRecord, LockExisting, FindSubscription, LockSubscription
  <2>5. ~CountRows(r) /\ ~InsertLink(r)
    BY <2>2, <2>3 DEF CountRows, InsertLink, AfterInsert
  <2>6. QED
    BY <2>1, <2>4, <2>5 DEF Move, Statement
<1>3. CASE request[r].alias # Generated
  <2>1. code' = [code EXCEPT ![r] = request[r].alias]
    BY <1>2, <1>3 DEF PickCode
  <2>2. QED
    BY <1>3, <2>1, Asked DEF TypeOK
<1>4. CASE request[r].alias = Generated
  <2>1. \A kind : ~Refuse(r, kind)
    BY <1>1, GotoPC DEF Refuse
  <2>2. \E c \in Code : code' = [code EXCEPT ![r] = c]
    BY <1>2, <1>4, <2>1 DEF PickCode
  <2>3. QED
    BY <2>2 DEF TypeOK
<1>5. QED
  BY <1>3, <1>4

Held == \A r \in Request : HeldInv(r) /\ CodeInv(r)

LEMMA HeldHolds == Spec => [](IInv /\ Held)
<1>1. Init => Held
  <2>1. SUFFICES ASSUME Init PROVE Held
    OBVIOUS
  <2>2. \A l \in LockName : lock[l] \notin Request
    BY <2>1, Constants DEF Init
  <2>3. QED
    BY <2>1, <2>2 DEF Held, HeldInv, CodeInv, Init
<1>2. IInv /\ Held /\ [Next]_vars => Held'
  <2> SUFFICES ASSUME IInv, Held, [Next]_vars, NEW q \in Request
               PROVE  HeldInv(q)' /\ CodeInv(q)'
    BY DEF Held
  <2>1. TypeOK /\ HeldInv(q) /\ CodeInv(q)
    BY DEF IInv, Held
  <2>2. ASSUME NEW r \in Request, Move(r)
        PROVE  HeldInv(q)' /\ CodeInv(q)'
    <3>1. CASE q = r
      BY <2>1, <2>2, <3>1, HeldSelf, CodeSelf
    <3>2. CASE q # r
      <4>1. Kept(q) /\ request' = request
        BY <2>1, <2>2, <3>2, MoveKept, MoveWorld
      <4>2. pc'[q] = pc[q] /\ \A l \in LockName : lock'[l] = q => lock[l] = q
        BY <4>1 DEF Kept
      <4>3. HeldInv(q)'
        BY <2>1, <4>1, <4>2, HeldKept
      <4>4. CodeInv(q)'
        <5>1. pc'[q] = pc[q] /\ code'[q] = code[q]
          BY <4>1 DEF Kept, KeptLocal
        <5>2. QED
          BY <2>1, <5>1 DEF CodeInv
      <4>5. QED
        BY <4>3, <4>4
    <3>3. QED
      BY <3>1, <3>2
  <2>3. CASE Others \/ UNCHANGED vars
    <3>1. request' = request /\ pc' = pc /\ lock' = lock /\ code' = code
      BY <2>3, OthersKeep DEF requestVars, vars, localVars
    <3>2. QED
      BY <2>1, <3>1, HeldKept DEF CodeInv
  <2>4. QED
    BY <2>2, <2>3, NextCases
<1>3. QED
  BY <1>1, <1>2, InitIInv, NextIInv, PTL DEF Spec

\* Whoever holds what a request waits for is further on.
LEMMA RankGrows ==
    ASSUME IInv, Held, NEW r \in Request, NEW q \in Request, WaitsFor(r, q)
    PROVE  Rank(r) < Rank(q)
<1>0. /\ TypeOK /\ ClaimInv(r) /\ CountInv(r)
      /\ HeldInv(r) /\ HeldInv(q) /\ CodeInv(r)
  BY DEF IInv, Held
<1>1. pc[r] \in Keyed => KeyOf(r) \in Key
  BY <1>0, Asked DEF ClaimInv
<1>2. CASE pc[r] \in {"lock record", "lock existing"}
  <2> DEFINE l == <<"record", KeyOf(r)>>
  <2>1. l \in LockName /\ lock[l] = q /\ l[1] = "record"
    BY <1>1, <1>2, LockKinds DEF WaitsFor, Keyed
  <2>2. pc[q] \in {"insert claim", "existing"} \cup Claiming
    BY <1>0, <2>1, HoldsFacts DEF HeldInv
  <2>3. Rank(r) = 0
    BY <1>0, <1>2, RankFacts
  <2>4. Rank(q) \in {1, 2} \/ Rank(q) = 6 \/ Rank(q) \in {3, 4, 5, 6}
    BY <1>0, <2>2, RankFacts
  <2>5. QED
    BY <2>3, <2>4
<1>3. CASE pc[r] = "insert claim"
  <2>1. KeyOf(r) \in Key
    BY <1>1, <1>3 DEF Keyed
  <2>2. CASE lock[<<"claim", KeyOf(r)>>] = q
    <3> DEFINE l == <<"claim", KeyOf(r)>>
    <3>1. l \in LockName /\ lock[l] = q /\ l[1] = "claim"
      BY <2>1, <2>2, LockKinds
    <3>2. pc[q] \in Claiming
      BY <1>0, <3>1, HoldsFacts DEF HeldInv
    <3>3. Rank(r) \in {1, 2} /\ Rank(q) \in {3, 4, 5, 6}
      BY <1>0, <1>3, <3>2, RankFacts
    <3>4. QED
      BY <3>3
  <2>3. CASE q # r /\ Dropping(q, KeyOf(r))
    <3> DEFINE l == <<"record", KeyOf(r)>>
    <3>1. /\ l \in LockName /\ lock[l] = q /\ l[1] = "record" /\ l[2] = KeyOf(r)
          /\ pc[q] # "existing"
      BY <2>1, <2>3, LockKinds DEF Dropping
    <3>2. pc[q] \in {"insert claim"} \cup Claiming /\ KeyOf(q) = KeyOf(r)
      BY <1>0, <3>1, HoldsFacts DEF HeldInv
    <3>3. Rank(r) = 1
      BY <1>0, <1>3, <2>3, <3>1, RankFacts
    <3>4. Rank(q) = 2 \/ Rank(q) \in {3, 4, 5, 6}
      BY <1>0, <3>1, <3>2, RankFacts
    <3>5. QED
      BY <3>3, <3>4
  <2>4. QED
    BY <1>3, <2>2, <2>3 DEF WaitsFor
<1>4. CASE pc[r] = "lock subscription"
  <2> DEFINE l == <<"subscription", OwnerOf(r)>>
  <2>1. l \in LockName /\ lock[l] = q /\ l[1] = "subscription"
    BY <1>0, <1>4, Asked, LockKinds DEF WaitsFor
  <2>2. pc[q] \in Subscribed
    BY <1>0, <2>1, HoldsFacts DEF HeldInv
  <2>3. Rank(r) = 3 /\ Rank(q) \in {4, 5, 6}
    BY <1>0, <1>4, <2>2, RankFacts
  <2>4. QED
    BY <2>3
<1>5. CASE pc[r] = "lock plan"
  <2> DEFINE l == <<"plan", planSeen[r]>>
  <2>1. planSeen[r] \in Plan
    BY <1>0, <1>5 DEF CountInv, TypeOK, Subscribed
  <2>2. l \in LockName /\ lock[l] = q /\ l[1] = "plan"
    BY <1>5, <2>1, LockKinds DEF WaitsFor
  <2>3. pc[q] \in Planned
    BY <1>0, <2>2, HoldsFacts DEF HeldInv
  <2>4. Rank(r) = 4 /\ Rank(q) \in {5, 6}
    BY <1>0, <1>5, <2>3, RankFacts
  <2>5. QED
    BY <2>4
<1>6. CASE pc[r] = "insert link"
  <2> DEFINE l == <<"code", code[r]>>
  <2>1. code[r] \in Code
    BY <1>0, <1>6 DEF CodeInv
  <2>2. l \in LockName /\ lock[l] = q /\ l[1] = "code"
    BY <1>6, <2>1, LockKinds DEF WaitsFor
  <2>3. pc[q] \in {"complete", "commit"}
    BY <1>0, <2>2, HoldsFacts DEF HeldInv
  <2>4. Rank(r) = 5 /\ Rank(q) = 6
    BY <1>0, <1>6, <2>3, RankFacts
  <2>5. QED
    BY <2>4
<1>7. QED
  BY <1>2, <1>3, <1>4, <1>5, <1>6 DEF WaitsFor

\* Requests never wait for each other in a cycle, however many there are and
\* whatever records, claims, subscriptions, plans and codes they lock: the
\* transactions of links and of endpoints take their locks in one order.
THEOREM NoDeadlockHolds == Spec => []NoDeadlock
<1>1. IInv /\ Held => NoDeadlock
  <2> SUFFICES ASSUME IInv, Held, NEW S \in (SUBSET Request) \ {{}},
                      \A r \in S : \E q \in S : WaitsFor(r, q)
               PROVE  FALSE
    BY DEF NoDeadlock
  <2>1. \A r \in S : Rank(r) \in {0, 1, 2, 3, 4, 5, 6}
    BY RankFacts DEF IInv
  <2>2. \A r \in S : \E q \in S : Rank(r) < Rank(q)
    BY RankGrows
  <2>3. ASSUME NEW n \in Nat, \E r \in S : Rank(r) >= n
        PROVE  \E r \in S : Rank(r) >= n + 1
    <3>1. PICK r \in S : Rank(r) >= n
      BY <2>3
    <3>2. PICK q \in S : Rank(r) < Rank(q)
      BY <2>2
    <3>3. Rank(q) >= n + 1
      BY <2>1, <3>1, <3>2
    <3>4. QED
      BY <3>3
  <2>4. \E r \in S : Rank(r) >= 0
    <3>1. PICK r : r \in S
      OBVIOUS
    <3>2. Rank(r) >= 0
      BY <2>1, <3>1
    <3>3. QED
      BY <3>1, <3>2
  <2>5. \E r \in S : Rank(r) >= 3
    BY <2>3, <2>4
  <2>6. \E r \in S : Rank(r) >= 6
    BY <2>3, <2>5
  <2>7. \E r \in S : Rank(r) >= 7
    BY <2>3, <2>6
  <2>8. QED
    BY <2>1, <2>7
<1>2. QED
  BY <1>1, HeldHolds, PTL
=============================================================================
