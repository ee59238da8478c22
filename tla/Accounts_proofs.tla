--------------------------- MODULE Accounts_proofs ---------------------------
(***************************************************************************)
(* Proofs about Accounts for every set of requests, whatever they ask for, *)
(* every set of prefixes and any number of edits.                          *)
(***************************************************************************)
EXTENDS Accounts, TLAPS

Authenticated == {"mark used", "save profile", "read", "generate", "insert key", "try again",
                  "commit key", "answer key", "find own key", "save revoked"}

Registering   == {"check email", "social account", "insert user", "insert subscription",
                  "commit user"}

\* What a request relies on from one statement to the next.
SessionInv(r) ==
    /\ pc[r] \in Authenticated => user # NoUser
    /\ pc[r] \in {"insert subscription", "commit user"} => entry["email"] = r /\ user = NoUser
    /\ pc[r] # "done" => reply[r] = NoReply
    /\ reply[r].kind = "registered" => user.by = r
    /\ NeedsKey(r) /\ pc[r] # "idle" => target[r] # Nobody
    /\ target[r] # Nobody => shown[target[r]] # Nobody
    /\ pc[r] = "load user" => data[r].auth = "jwt"
    /\ pc[r] \in Registering => data[r].auth = "none"
    /\ pc[r] \in {"find key", "mark used"} => data[r].auth = "key"
    /\ pc[r] \in {"find own key", "save revoked"} => data[r].op = "revoke"
    /\ reply[r].kind = "revoked" => data[r].op = "revoke" /\ pc[r] = "done"

\* Nobody has a key or a form without a user.
UserInv ==
    /\ social => user # NoUser
    /\ form # NoForm => user # NoUser
    /\ \A p \in Prefix : keys[p] # NoKey => user # NoUser
    /\ user.by \in Issuer => subscribed

Made(q) == form.row.by = q \/ WithId(q) # {}

\* The rows of a key: none before its commit, one until the admin acts on it.
KeyInv(r) ==
    /\ pc[r] = "insert key" => prefix[r] \in Prefix
    /\ pc[r] = "commit key" =>
          /\ prefix[r] \in Prefix
          /\ entry[prefix[r]] = r
          /\ keys[prefix[r]] = NoKey
    /\ pc[r] = "answer key" =>
          /\ prefix[r] \in Prefix
          /\ r \notin touched => keys[prefix[r]].by = r
    /\ shown[r] # Nobody => pc[r] = "done"
    /\ Made(r) => \/ pc[r] = "answer key"
                  \/ pc[r] = "done" /\ reply[r].kind \in {"none", "key"}

RowInv(q) ==
    /\ shown[q] # Nobody /\ q \notin touched => keys[shown[q]].by = q
    /\ q \notin touched => \A p1, p2 \in WithId(q) : p1 = p2

Dead(q) == q \in touched \/ \A p \in WithId(q) : ~keys[p].active

\* A key whose revocation was answered stays dead, and admits no later request;
\* a request that its key admitted has left its mark.
UseInv(r) ==
    /\ reply[r].kind = "revoked" => Dead(target[r])
    /\ late[r] => target[r] # Nobody /\ Dead(target[r])
    /\ data[r].auth = "key" /\ target[r] \notin touched =>
          /\ late[r] => /\ pc[r] \notin {"mark used", "read", "save profile"}
                        /\ reply[r].kind \notin {"ok", "updated"}
          /\ pc[r] \in {"read", "save profile"} \/ reply[r].kind \in {"ok", "updated"} =>
                \A p \in WithId(target[r]) : keys[p].used

IInv ==
    /\ TypeOK
    /\ UserInv
    /\ \A r \in Request : SessionInv(r) /\ KeyInv(r) /\ UseInv(r)
    /\ \A q \in Issuer : RowInv(q)

-----------------------------------------------------------------------------
(* Type correctness.                                                       *)

LEMMA Constants ==
    /\ Loads \subseteq [Request -> Data]
    /\ MaxEdits \in Nat
    /\ Nobody \notin Issuer /\ Nobody \notin Prefix /\ Nobody \notin Request
    /\ Omitted \notin Issuer
    /\ "email" \notin Prefix
  BY AccountAssumption DEF Issuer

LEMMA RowTypes ==
    /\ NoUser.profile \in [Field -> Value]
    /\ [by |-> Older, active |-> TRUE, profile |-> NoUser.profile] \in User
    /\ [by |-> Nobody, active |-> TRUE, profile |-> NoUser.profile] \in User
    /\ \A q \in Issuer : NewKey(q) \in APIKey
    /\ NoReply \in [kind: Kind, revoked: Request \cup {Nobody}]
  BY AccountAssumption DEF NoUser, User, NewKey, APIKey, NoReply, Answer, Kind, Issuer

LEMMA InitType == Init => TypeOK
<1> SUFFICES ASSUME Init PROVE TypeOK
  OBVIOUS
<1>1. user \in User \cup {NoUser}
  BY RowTypes DEF Init
<1>2. keys \in [Prefix -> APIKey \cup {NoKey}]
  BY RowTypes DEF Init, Issuer
<1>3. reply \in [Request -> [kind: Kind, revoked: Request \cup {Nobody}]]
  BY RowTypes DEF Init
<1>4. edits \in 0..MaxEdits
  BY Constants DEF Init
<1>5. QED
  BY <1>1, <1>2, <1>3, <1>4 DEF Init, TypeOK, Issuer, Step

\* The answer, the program counters and the index entries after a request ended.
LEMMA FinishType ==
    ASSUME TypeOK, NEW r \in Request, NEW kind \in Kind, NEW time \in Request \cup {Nobody},
           Finish(r, Answer(kind, time))
    PROVE  /\ reply' \in [Request -> [kind: Kind, revoked: Request \cup {Nobody}]]
           /\ pc' \in [Request -> Step]
           /\ entry' \in [Index -> Request \cup {Nobody}]
           /\ copy' \in [Request -> User \cup {NoUser}]
           /\ keyCopy' \in [Request -> APIKey \cup {NoKey}]
           /\ prefix' \in [Request -> Prefix \cup {Nobody}]
  BY DEF TypeOK, Finish, Answer, Goto, Step

LEMMA ReplyType ==
    ASSUME TypeOK, NEW r \in Request, NEW kind \in Kind, Reply(r, kind)
    PROVE  /\ reply' \in [Request -> [kind: Kind, revoked: Request \cup {Nobody}]]
           /\ pc' \in [Request -> Step]
           /\ entry' \in [Index -> Request \cup {Nobody}]
           /\ copy' \in [Request -> User \cup {NoUser}]
           /\ keyCopy' \in [Request -> APIKey \cup {NoKey}]
           /\ prefix' \in [Request -> Prefix \cup {Nobody}]
  BY FinishType DEF Reply

LEMMA ContinueType ==
    ASSUME TypeOK, NEW r \in Request, NEW step \in Step, Continue(r, step)
    PROVE  /\ reply' \in [Request -> [kind: Kind, revoked: Request \cup {Nobody}]]
           /\ pc' \in [Request -> Step]
           /\ entry' \in [Index -> Request \cup {Nobody}]
  BY DEF TypeOK, Continue, Goto

LEMMA StepTypes ==
    ASSUME NEW r
    PROVE  FirstStep(r) \in Step /\ Admitted(r) \in Step
  BY DEF FirstStep, Admitted, Step

\* What a request asks for is in Data.
LEMMA DataType ==
    ASSUME TypeOK, NEW r \in Request
    PROVE  /\ data[r] \in Data
           /\ data[r].auth = "key" => data[r].op \in {"patch", "me"}
           /\ data[r].auth = "jwt" => data[r].op \in {"patch", "me", "create key", "revoke"}
           /\ NewUser(r) \in User
<1>1. data \in [Request -> Data] /\ data[r] \in Data
  <2>1. data \in Loads
    BY DEF TypeOK
  <2>2. QED
    BY <2>1, Constants
<1>2. /\ data[r].op \in {"register", "google"} <=> data[r].auth = "none"
      /\ data[r].op \in {"create key", "revoke"} => data[r].auth = "jwt"
  BY AccountAssumption DEF TypeOK
<1>3. NewUser(r) \in User
  <2>1. data[r].asked \in [Field -> Value \cup {Omitted}]
    BY <1>1 DEF Data
  <2>2. [f \in Field |-> IF data[r].asked[f] = Omitted THEN Blank
                         ELSE data[r].asked[f]] \in [Field -> Value]
    BY <2>1, AccountAssumption
  <2>3. QED
    BY <2>2 DEF NewUser, User, Issuer
<1>4. /\ data[r].op \in {"register", "google", "patch", "create key", "revoke", "me"}
      /\ data[r].auth \in {"none", "jwt", "key"}
  BY <1>1 DEF Data
<1>5. /\ data[r].auth = "key" => data[r].op \in {"patch", "me"}
      /\ data[r].auth = "jwt" => data[r].op \in {"patch", "me", "create key", "revoke"}
  BY <1>2, <1>4
<1>6. QED
  BY <1>1, <1>3, <1>5

\* A save of a profile, and the two updates of a key.
LEMMA SaveTypes ==
    ASSUME TypeOK, NEW r \in Request
    PROVE  /\ user \in User => ProfileSaved(r) \in User /\ ProfileSaved(r).by = user.by
           /\ \A row \in APIKey :
                 /\ MarkedUsed(r, row) \in APIKey
                 /\ MarkedUsed(r, row).by = row.by
                 /\ MarkedUsed(r, row).active = row.active
                 /\ MarkedUsed(r, row).used
                 /\ Revoked(r, row) \in APIKey
                 /\ Revoked(r, row).by = row.by
                 /\ ~Revoked(r, row).active
                 /\ Revoked(r, row).used = row.used
<1>1. ASSUME user \in User
      PROVE  ProfileSaved(r) \in User /\ ProfileSaved(r).by = user.by
  <2>1. data[r].asked \in [Field -> Value \cup {Omitted}] /\ user.profile \in [Field -> Value]
    BY <1>1, DataType DEF Data, User
  <2>2. \A f \in UpdateFields(r) : data[r].asked[f] \in Value
    BY <2>1 DEF UpdateFields
  <2>3. [f \in Field |-> IF f \in UpdateFields(r) THEN data[r].asked[f]
                                                  ELSE user.profile[f]] \in [Field -> Value]
    BY <2>1, <2>2
  <2>4. QED
    BY <1>1, <2>3 DEF ProfileSaved, User
<1>2. ASSUME NEW row \in APIKey
      PROVE  /\ MarkedUsed(r, row) \in APIKey
             /\ MarkedUsed(r, row).by = row.by
             /\ MarkedUsed(r, row).active = row.active
             /\ MarkedUsed(r, row).used
             /\ Revoked(r, row) \in APIKey
             /\ Revoked(r, row).by = row.by
             /\ ~Revoked(r, row).active
             /\ Revoked(r, row).used = row.used
  BY DEF MarkedUsed, Revoked, APIKey
<1>3. QED
  BY <1>1, <1>2

\* Rows with the id of a key that was issued are not NoKey.
LEMMA IdTypes ==
    ASSUME TypeOK, NEW q \in Issuer
    PROVE  \A p \in WithId(q) : p \in Prefix /\ keys[p] \in APIKey
  BY Constants DEF TypeOK, WithId, NoKey

\* The three updates of keys that requests make.
LEMMA KeyUpdates ==
    ASSUME TypeOK, NEW r \in Request, target[r] \in Issuer
    PROVE  /\ [p \in Prefix |-> IF p \in WithId(target[r]) THEN MarkedUsed(r, keys[p])
                                ELSE keys[p]] \in [Prefix -> APIKey \cup {NoKey}]
           /\ [p \in Prefix |-> IF p \in WithId(target[r]) THEN Revoked(r, keys[p])
                                ELSE keys[p]] \in [Prefix -> APIKey \cup {NoKey}]
  BY IdTypes, SaveTypes DEF TypeOK

\* The user a request works for exists, and the key it names was shown.
LEMMA InSession ==
    ASSUME IInv, NEW r \in Request
    PROVE  /\ pc[r] \in Authenticated => user \in User
           /\ pc[r] \in {"find key", "mark used", "find own key", "save revoked"} =>
                 target[r] \in Issuer /\ shown[target[r]] \in Prefix
           /\ pc[r] = "insert key" => prefix[r] \in Prefix
           /\ pc[r] = "answer key" => prefix[r] \in Prefix
           /\ pc[r] = "commit key" => prefix[r] \in Prefix
<1>1. ASSUME pc[r] \in {"find key", "mark used", "find own key", "save revoked"}
      PROVE  target[r] \in Issuer /\ shown[target[r]] \in Prefix
  <2>1. SessionInv(r) /\ TypeOK
    BY DEF IInv
  <2>2. NeedsKey(r) /\ pc[r] # "idle"
    BY <1>1, <2>1 DEF SessionInv, NeedsKey
  <2>3. target[r] # Nobody /\ shown[target[r]] # Nobody
    BY <2>1, <2>2 DEF SessionInv
  <2>4. target[r] \in Issuer
    BY <2>1, <2>3 DEF TypeOK
  <2>5. QED
    BY <2>1, <2>3, <2>4 DEF TypeOK
<1>2. pc[r] \in Authenticated => user \in User
  BY DEF IInv, SessionInv, TypeOK
<1>3. /\ pc[r] = "insert key" => prefix[r] \in Prefix
      /\ pc[r] = "answer key" => prefix[r] \in Prefix
      /\ pc[r] = "commit key" => prefix[r] \in Prefix
  BY DEF IInv, KeyInv
<1>4. QED
  BY <1>1, <1>2, <1>3

LEMMA RequestType ==
    ASSUME IInv, NEW r \in Request, Begin(r) \/ Statement(r) \/ Crash(r)
    PROVE  TypeOK'
<1> USE InSession, RowTypes DEF TypeOK
<1>0. TypeOK
  BY DEF IInv
<1>1. CASE Begin(r)
  <2>1. pc' \in [Request -> Step]
    BY <1>0, <1>1, StepTypes DEF Begin, Goto
  <2>2. target' \in [Request -> Issuer \cup {Nobody}] /\ late' \in [Request -> BOOLEAN]
    <3>1. CASE UNCHANGED <<target, late>>
      BY <1>0, <3>1
    <3>2. CASE \E q \in Issuer :
                  /\ target' = [target EXCEPT ![r] = q]
                  /\ late' = [late EXCEPT ![r] = \E o \in Request :
                                  target[o] = q /\ reply[o].kind = "revoked"]
      <4>1. PICK q \in Issuer :
               /\ target' = [target EXCEPT ![r] = q]
               /\ late' = [late EXCEPT ![r] = \E o \in Request :
                               target[o] = q /\ reply[o].kind = "revoked"]
        BY <3>2
      <4> DEFINE answered == \E o \in Request : target[o] = q /\ reply[o].kind = "revoked"
      <4>2. answered \in BOOLEAN /\ late' = [late EXCEPT ![r] = answered]
        BY <4>1
      <4> HIDE DEF answered
      <4>3. late' \in [Request -> BOOLEAN]
        BY <1>0, <4>2
      <4>4. QED
        BY <1>0, <4>1, <4>3
    <3>3. QED
      BY <1>1, <3>1, <3>2 DEF Begin
  <2>3. QED
    BY <1>0, <1>1, <2>1, <2>2 DEF Begin, userVars, keyVars, adminVars, objectVars
<1>2. CASE CheckEmail(r)
  <2>1. CASE Reply(r, "exists")
    BY <1>0, <1>2, <2>1, ReplyType DEF CheckEmail, Kind, userVars, keyVars, adminVars
  <2>2. CASE Continue(r, "insert user") /\ UNCHANGED objectVars
    BY <1>0, <1>2, <2>2, ContinueType
    DEF CheckEmail, Step, userVars, keyVars, adminVars, objectVars
  <2>3. QED
    BY <1>2, <2>1, <2>2 DEF CheckEmail
<1>3. CASE SocialAccount(r)
  <2>1. CASE Continue(r, "save profile") /\ copy' = [copy EXCEPT ![r] = user]
             /\ UNCHANGED <<keyCopy, prefix>>
    BY <1>0, <1>3, <2>1, ContinueType DEF SocialAccount, Step, userVars, keyVars, adminVars
  <2>2. CASE Reply(r, "exists")
    BY <1>0, <1>3, <2>2, ReplyType DEF SocialAccount, Kind, userVars, keyVars, adminVars
  <2>3. CASE Continue(r, "insert user") /\ UNCHANGED objectVars
    BY <1>0, <1>3, <2>3, ContinueType
    DEF SocialAccount, Step, userVars, keyVars, adminVars, objectVars
  <2>4. QED
    BY <1>3, <2>1, <2>2, <2>3 DEF SocialAccount
<1>4. CASE InsertUser(r)
  <2>1. CASE Reply(r, "error") /\ UNCHANGED user
    BY <1>0, <1>4, <2>1, ReplyType DEF InsertUser, Kind, keyVars, adminVars
  <2>2. CASE /\ entry' = [entry EXCEPT !["email"] = r]
             /\ user' = SeenOfInsert(r)
             /\ Goto(r, "insert subscription")
             /\ UNCHANGED <<objectVars, reply>>
    BY <1>0, <1>4, <2>2
    DEF InsertUser, SeenOfInsert, Goto, Step, keyVars, adminVars, objectVars
  <2>3. QED
    BY <1>4, <2>1, <2>2 DEF InsertUser
<1>5. CASE InsertSubscription(r)
  <2>1. CASE Reply(r, "error")
    BY <1>0, <1>5, <2>1, ReplyType DEF InsertSubscription, Kind, userVars, keyVars, adminVars
  <2>2. CASE Continue(r, "commit user") /\ UNCHANGED objectVars
    BY <1>0, <1>5, <2>2, ContinueType
    DEF InsertSubscription, Step, userVars, keyVars, adminVars, objectVars
  <2>3. QED
    BY <1>5, <2>1, <2>2 DEF InsertSubscription
<1>6. CASE CommitUser(r)
  <2>1. Reply(r, "registered") /\ user' \in User
    BY <1>0, <1>6, DataType DEF CommitUser
  <2>2. QED
    BY <1>0, <1>6, <2>1, ReplyType DEF CommitUser, Kind, keyVars, adminVars
<1>7. CASE LoadUser(r)
  <2>1. CASE Reply(r, "unauthorized")
    BY <1>0, <1>7, <2>1, ReplyType DEF LoadUser, Kind, userVars, keyVars, adminVars
  <2>2. CASE /\ copy' = [copy EXCEPT ![r] = user]
             /\ Continue(r, Admitted(r))
             /\ UNCHANGED <<keyCopy, prefix>>
    BY <1>0, <1>7, <2>2, ContinueType, StepTypes DEF LoadUser, userVars, keyVars, adminVars
  <2>3. QED
    BY <1>7, <2>1, <2>2 DEF LoadUser
<1>8. CASE FindKey(r)
  <2>1. CASE Reply(r, "unauthorized")
    BY <1>0, <1>8, <2>1, ReplyType DEF FindKey, Kind, userVars, keyVars, adminVars
  <2>2. CASE /\ keyCopy' = [keyCopy EXCEPT ![r] = keys[shown[target[r]]]]
             /\ copy' = [copy EXCEPT ![r] = user]
             /\ Continue(r, "mark used")
             /\ UNCHANGED prefix
    BY <1>0, <1>8, <2>2, ContinueType DEF FindKey, Step, userVars, keyVars, adminVars
  <2>3. QED
    BY <1>8, <2>1, <2>2 DEF FindKey
<1>9. CASE MarkUsed(r)
  <2>1. target[r] \in Issuer
    BY <1>9 DEF MarkUsed
  <2>2. keys' \in [Prefix -> APIKey \cup {NoKey}]
    BY <1>0, <1>9, <2>1, KeyUpdates DEF MarkUsed
  <2>3. QED
    BY <1>0, <1>9, <2>2, ContinueType, StepTypes DEF MarkUsed, userVars, adminVars, objectVars
<1>10. CASE Read(r)
  BY <1>0, <1>10, ReplyType DEF Read, Kind, userVars, keyVars, adminVars
<1>11. CASE SaveProfile(r)
  <2>1. user \in User
    BY <1>11 DEF SaveProfile, Authenticated
  <2>2. user' \in User
    BY <1>0, <1>11, <2>1, SaveTypes DEF SaveProfile
  <2>3. PICK kind \in Kind : Reply(r, kind)
    BY <1>11 DEF SaveProfile, Kind
  <2>4. QED
    BY <1>0, <1>11, <2>2, <2>3, ReplyType DEF SaveProfile, keyVars, adminVars
<1>12. CASE Generate(r)
  <2>1. prefix' \in [Request -> Prefix \cup {Nobody}]
    BY <1>0, <1>12 DEF Generate
  <2>2. QED
    BY <1>0, <1>12, <2>1, ContinueType DEF Generate, Step, userVars, keyVars, adminVars
<1>13. CASE InsertKey(r)
  <2>1. CASE Continue(r, "try again")
    BY <1>0, <1>13, <2>1, ContinueType
    DEF InsertKey, Step, userVars, keyVars, adminVars, objectVars
  <2>2. CASE /\ entry' = [entry EXCEPT ![prefix[r]] = r]
             /\ Goto(r, "commit key")
             /\ UNCHANGED reply
    BY <1>0, <1>13, <2>2 DEF InsertKey, Goto, Step, userVars, keyVars, adminVars, objectVars
  <2>3. QED
    BY <1>13, <2>1, <2>2 DEF InsertKey
<1>14. CASE TryAgain(r)
  BY <1>0, <1>14, ReplyType DEF TryAgain, Kind, userVars, keyVars, adminVars
<1>15. CASE CommitKey(r)
  <2>1. NewKey(r) \in APIKey
    BY DEF Issuer
  <2>2. QED
    BY <1>0, <1>15, <2>1
    DEF CommitKey, Goto, Step, userVars, adminVars, objectVars
<1>16. CASE AnswerKey(r)
  <2>1. shown' \in [Issuer -> Prefix \cup {Nobody}]
    BY <1>0, <1>16 DEF AnswerKey
  <2>2. QED
    BY <1>0, <1>16, <2>1, ReplyType DEF AnswerKey, Kind, userVars, keyVars, adminVars
<1>17. CASE FindOwnKey(r)
  <2>0. UNCHANGED <<user, social, subscribed, freePlan, keys, touched, edits, form, data, target,
                    late, shown>>
    BY <1>17 DEF FindOwnKey, userVars, keyVars, adminVars
  <2>1. CASE Reply(r, "not found")
    BY <1>0, <2>0, <2>1, ReplyType DEF Kind
  <2>2. CASE \E p \in WithId(target[r]) : Finish(r, Answer("revoked", keys[p].revoked))
    <3>1. PICK p \in WithId(target[r]) : Finish(r, Answer("revoked", keys[p].revoked))
      BY <2>2
    <3>2. keys[p] \in APIKey
      BY <1>0, <1>17, IdTypes DEF FindOwnKey
    <3>3. keys[p].revoked \in Request \cup {Nobody}
      BY <3>2 DEF APIKey
    <3>4. QED
      BY <1>0, <2>0, <3>1, <3>3, FinishType DEF Kind
  <2>3. CASE \E p \in WithId(target[r]) :
                /\ keyCopy' = [keyCopy EXCEPT ![r] = keys[p]]
                /\ Continue(r, "save revoked")
                /\ UNCHANGED <<copy, prefix>>
    <3>1. keyCopy' \in [Request -> APIKey \cup {NoKey}]
      BY <1>0, <2>3 DEF WithId
    <3>2. Continue(r, "save revoked") /\ UNCHANGED <<copy, prefix>>
      BY <2>3
    <3>3. QED
      BY <1>0, <2>0, <3>1, <3>2, ContinueType DEF Step
  <2>4. QED
    BY <1>17, <2>1, <2>2, <2>3 DEF FindOwnKey
<1>18. CASE SaveRevoked(r)
  <2>1. target[r] \in Issuer
    BY <1>18 DEF SaveRevoked
  <2>2. keys' \in [Prefix -> APIKey \cup {NoKey}]
    BY <1>0, <1>18, <2>1, KeyUpdates DEF SaveRevoked
  <2>3. PICK kind \in Kind, time \in Request \cup {Nobody} : Finish(r, Answer(kind, time))
    BY <1>18 DEF SaveRevoked, Reply, Kind
  <2>4. QED
    BY <1>0, <1>18, <2>2, <2>3, FinishType DEF SaveRevoked, userVars, adminVars
<1>19. CASE Crash(r)
  BY <1>0, <1>19, ReplyType DEF Crash, Kind, userVars, keyVars, adminVars
<1>20. QED
  BY <1>1, <1>2, <1>3, <1>4, <1>5, <1>6, <1>7, <1>8, <1>9, <1>10, <1>11, <1>12, <1>13,
     <1>14, <1>15, <1>16, <1>17, <1>18, <1>19 DEF Statement

\* An administrator edits a user or a key that exists, and so does nobody else.
AdminStep ==
    \/ \E active \in BOOLEAN : SetActive(active) \/ SaveForm(active)
    \/ \E p \in Prefix : LoadForm(p) \/ DeleteKey(p)
    \/ ToggleFreePlan \/ EditUser \/ Signup

LEMMA AdminType ==
    ASSUME TypeOK, AdminStep
    PROVE  TypeOK'
<1> USE RowTypes DEF TypeOK
<1>0. Act => edits' \in 0..MaxEdits
  BY Constants DEF Act
<1>1. ASSUME NEW active \in BOOLEAN, SetActive(active)
      PROVE  TypeOK'
  <2>1. user' \in User
    BY <1>1 DEF SetActive, User
  <2>2. QED
    BY <1>0, <1>1, <2>1 DEF SetActive, keyVars, requestVars, objectVars
<1>2. ASSUME NEW active \in BOOLEAN, SaveForm(active)
      PROVE  TypeOK'
  <2>1. form \in Form
    BY <1>2 DEF SaveForm
  <2>2. [form.row EXCEPT !.active = active] \in APIKey /\ form.row.by \in Issuer
    BY <2>1 DEF Form, APIKey
  <2>3. keys' \in [Prefix -> APIKey \cup {NoKey}] /\ touched' \subseteq Issuer
    BY <1>2, <2>1, <2>2 DEF SaveForm, Form
  <2>4. QED
    BY <1>2, <2>3 DEF SaveForm, userVars, requestVars, objectVars
<1>3. ASSUME NEW p \in Prefix, LoadForm(p)
      PROVE  TypeOK'
  <2>1. form' \in Form
    BY <1>3 DEF LoadForm, Form
  <2>2. QED
    BY <1>0, <1>3, <2>1 DEF LoadForm, userVars, keyVars, requestVars, objectVars
<1>4. ASSUME NEW p \in Prefix, DeleteKey(p)
      PROVE  TypeOK'
  <2>1. keys[p].by \in Issuer
    BY <1>4 DEF DeleteKey, APIKey
  <2>2. QED
    BY <1>0, <1>4, <2>1 DEF DeleteKey, userVars, requestVars, objectVars
<1>5. CASE ToggleFreePlan
  BY <1>0, <1>5 DEF ToggleFreePlan, userVars, keyVars, requestVars, objectVars
<1>6. CASE EditUser
  <2>1. user' \in User
    BY <1>6, AccountAssumption DEF EditUser, User
  <2>2. QED
    BY <1>0, <1>6, <2>1 DEF EditUser, keyVars, requestVars, objectVars
<1>7. CASE Signup
  BY <1>7 DEF Signup, keyVars, adminVars, requestVars, objectVars
<1>8. QED
  BY <1>1, <1>2, <1>3, <1>4, <1>5, <1>6, <1>7 DEF AdminStep

LEMMA NextCases ==
    Next => AdminStep \/ \E r \in Request : Begin(r) \/ Statement(r) \/ Crash(r)
  BY DEF Next, AdminStep

LEMMA NextType == IInv /\ [Next]_vars => TypeOK'
<1>1. ASSUME IInv, UNCHANGED vars
      PROVE  TypeOK'
  BY <1>1 DEF IInv, TypeOK, vars, userVars, keyVars, adminVars, requestVars, objectVars
<1>2. ASSUME IInv, AdminStep
      PROVE  TypeOK'
  BY <1>2, AdminType DEF IInv
<1>3. QED
  BY <1>1, <1>2, NextCases, RequestType

-----------------------------------------------------------------------------
(* What a step leaves alone.                                               *)

\* The other requests, the keys that other requests made, and index entries of
\* others stay; only r takes or gives back entries.
Others(r) ==
    /\ \A o \in Request \ {r} :
          /\ pc'[o] = pc[o] /\ reply'[o] = reply[o] /\ prefix'[o] = prefix[o]
          /\ target'[o] = target[o] /\ late'[o] = late[o]
    /\ \A q \in Issuer \ {r} : shown'[q] = shown[q]
    /\ \A i \in Index : \/ entry'[i] = entry[i]
                        \/ entry[i] = r
                        \/ entry[i] = Nobody /\ entry'[i] = r
    /\ UNCHANGED <<data, form, touched>>

\* A statement of r keeps what r presents, and ends or goes on.
Own(r) ==
    /\ pc[r] # "done"
    /\ target'[r] = target[r] /\ late'[r] = late[r]
    /\ pc'[r] # "done" => reply'[r] = reply[r]
    /\ pc'[r] # "idle"

LEMMA EndsFrame ==
    ASSUME TypeOK, NEW r \in Request, NEW answer, Finish(r, answer)
    PROVE  /\ \A o \in Request \ {r} :
                 pc'[o] = pc[o] /\ reply'[o] = reply[o] /\ prefix'[o] = prefix[o]
           /\ \A i \in Index : entry'[i] = entry[i] \/ entry[i] = r
           /\ pc'[r] = "done" /\ reply'[r] = answer
  BY DEF TypeOK, Finish, Goto

LEMMA StatementQuiet ==
    ASSUME TypeOK, NEW r \in Request, Statement(r) \/ Crash(r)
    PROVE  /\ UNCHANGED <<target, late, data, form, touched>>
           /\ \A q \in Issuer \ {r} : shown'[q] = shown[q]
           /\ pc[r] # "done"
<1>1. CASE AnswerKey(r)
  BY <1>1 DEF AnswerKey, TypeOK, keyVars, adminVars
<1>2. CASE ~AnswerKey(r)
  BY <1>2
  DEF Statement, Crash, CheckEmail, SocialAccount, InsertUser, InsertSubscription, CommitUser,
      LoadUser, FindKey, MarkUsed, Read, SaveProfile, Generate, InsertKey, TryAgain, CommitKey,
      FindOwnKey, SaveRevoked, keyVars, adminVars
<1>3. QED
  BY <1>1, <1>2

\* A statement ends the request, or goes on to another and takes an entry that is
\* free or gives back its own.
LEMMA StatementFrame ==
    ASSUME IInv, NEW r \in Request, Statement(r) \/ Crash(r)
    PROVE  Others(r) /\ Own(r)
<1>1. TypeOK /\ KeyInv(r)
  BY DEF IInv
<1>2. ASSUME NEW answer, Finish(r, answer)
      PROVE  Others(r) /\ Own(r)
  BY <1>1, <1>2, EndsFrame, StatementQuiet DEF Others, Own
<1>3. ASSUME NEW kind, Reply(r, kind)
      PROVE  Others(r) /\ Own(r)
  BY <1>2, <1>3 DEF Reply
<1>4. ASSUME NEW step, step \notin {"idle", "done"}, Goto(r, step), UNCHANGED reply,
             \A o \in Request \ {r} : prefix'[o] = prefix[o],
             \A i \in Index : entry'[i] = entry[i] \/ entry[i] = r
                                               \/ (entry[i] = Nobody /\ entry'[i] = r)
      PROVE  Others(r) /\ Own(r)
  <2>1. pc'[r] = step /\ \A o \in Request \ {r} : pc'[o] = pc[o]
    BY <1>1, <1>4 DEF Goto, TypeOK
  <2>2. \A o \in Request \ {r} : reply'[o] = reply[o] /\ target'[o] = target[o] /\ late'[o] = late[o]
    BY <1>1, <1>4, StatementQuiet
  <2>3. Others(r)
    BY <1>1, <1>4, <2>1, <2>2, StatementQuiet DEF Others
  <2>4. Own(r)
    BY <1>1, <1>4, <2>1, StatementQuiet DEF Own
  <2>5. QED
    BY <2>3, <2>4
<1>5. ASSUME NEW step, step \notin {"idle", "done"}, Continue(r, step), UNCHANGED prefix
      PROVE  Others(r) /\ Own(r)
  BY <1>4, <1>5 DEF Continue
<1>6. Admitted(r) \notin {"idle", "done"}
  BY DEF Admitted
<1>7. CASE CheckEmail(r)
  BY <1>3, <1>5, <1>7 DEF CheckEmail, objectVars
<1>8. CASE SocialAccount(r)
  BY <1>3, <1>5, <1>8 DEF SocialAccount, objectVars
<1>9. CASE InsertUser(r)
  <2>1. CASE Reply(r, "error")
    BY <1>3, <2>1
  <2>2. CASE entry' = [entry EXCEPT !["email"] = r] /\ Goto(r, "insert subscription")
             /\ UNCHANGED <<objectVars, reply>>
    <3>1. \A i \in Index : entry'[i] = entry[i] \/ (entry[i] = Nobody /\ entry'[i] = r)
      BY <1>1, <1>9, <2>2 DEF InsertUser, TypeOK, Index
    <3>2. QED
      BY <1>4, <2>2, <3>1 DEF objectVars
  <2>3. QED
    BY <1>9, <2>1, <2>2 DEF InsertUser
<1>10. CASE InsertSubscription(r)
  BY <1>3, <1>5, <1>10 DEF InsertSubscription, objectVars
<1>11. CASE CommitUser(r) \/ Read(r) \/ SaveProfile(r) \/ TryAgain(r) \/ AnswerKey(r)
            \/ SaveRevoked(r) \/ Crash(r)
  BY <1>2, <1>3, <1>11
  DEF CommitUser, Read, SaveProfile, TryAgain, AnswerKey, SaveRevoked, Crash
<1>12. CASE LoadUser(r)
  BY <1>3, <1>5, <1>6, <1>12 DEF LoadUser
<1>13. CASE FindKey(r)
  BY <1>3, <1>5, <1>13 DEF FindKey
<1>14. CASE MarkUsed(r)
  BY <1>5, <1>6, <1>14 DEF MarkUsed, objectVars
<1>15. CASE Generate(r)
  <2>1. \A o \in Request \ {r} : prefix'[o] = prefix[o]
    BY <1>1, <1>15 DEF Generate, TypeOK
  <2>2. QED
    BY <1>4, <1>15, <2>1 DEF Generate, Continue
<1>16. CASE InsertKey(r)
  <2>1. CASE Continue(r, "try again")
    BY <1>5, <1>16, <2>1 DEF InsertKey, objectVars
  <2>2. CASE entry' = [entry EXCEPT ![prefix[r]] = r] /\ Goto(r, "commit key") /\ UNCHANGED reply
    <3>1. \A i \in Index : entry'[i] = entry[i] \/ (entry[i] = Nobody /\ entry'[i] = r)
      BY <1>1, <1>16, <2>2 DEF InsertKey, TypeOK
    <3>2. QED
      BY <1>4, <1>16, <2>2, <3>1 DEF InsertKey, objectVars
  <2>3. QED
    BY <1>16, <2>1, <2>2 DEF InsertKey
<1>17. CASE CommitKey(r)
  <2>1. entry[prefix[r]] = r
    BY <1>1, <1>17 DEF CommitKey, KeyInv
  <2>2. \A i \in Index : entry'[i] = entry[i] \/ entry[i] = r
    BY <1>1, <1>17, <2>1 DEF CommitKey, TypeOK
  <2>3. QED
    BY <1>4, <1>17, <2>2 DEF CommitKey, objectVars
<1>18. CASE FindOwnKey(r)
  BY <1>2, <1>3, <1>5, <1>18 DEF FindOwnKey
<1>19. QED
  BY <1>7, <1>8, <1>9, <1>10, <1>11, <1>12, <1>13, <1>14, <1>15, <1>16, <1>17, <1>18 DEF Statement

LEMMA BeginFrame ==
    ASSUME TypeOK, NEW r \in Request, Begin(r)
    PROVE  Others(r) /\ UNCHANGED <<userVars, keyVars, reply, entry, prefix, shown>>
<1>1. \A o \in Request \ {r} : pc'[o] = pc[o]
  BY DEF Begin, Goto, TypeOK
<1>2. \A o \in Request \ {r} : target'[o] = target[o] /\ late'[o] = late[o]
  BY DEF Begin, TypeOK
<1>3. QED
  BY <1>1, <1>2 DEF Begin, Others, userVars, keyVars, adminVars, objectVars

\* An administrator works on rows, and on what no request holds.
LEMMA AdminFrame ==
    ASSUME AdminStep
    PROVE  UNCHANGED <<pc, reply, prefix, target, late, entry, data, shown>>
  BY DEF AdminStep, SetActive, SaveForm, LoadForm, DeleteKey, ToggleFreePlan, EditUser, Signup,
         requestVars, objectVars

-----------------------------------------------------------------------------
(* The user.                                                               *)

LEMMA UserIds ==
    ASSUME TypeOK
    PROVE  /\ user.by \in Issuer => user # NoUser
           /\ user # NoUser => user \in User /\ user.by # Omitted
  BY Constants DEF TypeOK, NoUser, User, Nobody, Omitted

\* A user stays, and with it the request that made it. It is made in the commit
\* of that request, or by allauth.
UserKept == user # NoUser => user' # NoUser /\ user'.by = user.by

LEMMA StatementUser ==
    ASSUME IInv, NEW r \in Request, Begin(r) \/ Statement(r) \/ Crash(r)
    PROVE  /\ UserKept
           /\ ~CommitUser(r) => user'.by = user.by /\ UNCHANGED <<social, subscribed>>
           /\ user' # user => user # NoUser \/ CommitUser(r)
<1>1. TypeOK /\ TypeOK' /\ SessionInv(r)
  BY RequestType DEF IInv
<1>2. CASE CommitUser(r)
  <2>1. user = NoUser
    BY <1>1, <1>2 DEF CommitUser, SessionInv
  <2>2. QED
    BY <1>2, <2>1 DEF UserKept
<1>3. CASE SaveProfile(r)
  <2>1. user # NoUser /\ user \in User
    BY <1>1, <1>3, UserIds DEF SaveProfile, SessionInv, Authenticated
  <2>2. user' = user \/ user' = ProfileSaved(r)
    BY <1>3 DEF SaveProfile
  <2>3. user'.by = user.by /\ user' # NoUser
    BY <1>1, <2>1, <2>2, SaveTypes, UserIds DEF User, NoUser, Omitted, Nobody
  <2>4. QED
    BY <1>3, <2>1, <2>3 DEF UserKept, SaveProfile
<1>4. CASE ~CommitUser(r) /\ ~SaveProfile(r)
  <2>1. UNCHANGED userVars
    BY <1>4 DEF Statement, Begin, Crash, CheckEmail, SocialAccount, InsertUser, SeenOfInsert,
                InsertSubscription, LoadUser, FindKey, MarkUsed, Read, Generate, InsertKey,
                TryAgain, CommitKey, AnswerKey, FindOwnKey, SaveRevoked, userVars
  <2>2. QED
    BY <2>1 DEF UserKept, userVars
<1>5. QED
  BY <1>2, <1>3, <1>4

LEMMA AdminUser ==
    ASSUME IInv, AdminStep
    PROVE  /\ UserKept
           /\ UNCHANGED <<social, subscribed>>
           /\ user'.by \in Issuer => user.by = user'.by
           /\ user' # user => user # NoUser \/ entry["email"] = Nobody
<1>1. TypeOK
  BY DEF IInv
<1>2. ASSUME NEW active \in BOOLEAN, SetActive(active)
      PROVE  /\ UNCHANGED <<social, subscribed>>
             /\ user # NoUser /\ user' # NoUser /\ user'.by = user.by
  BY <1>2, <1>1, UserIds DEF SetActive, User, NoUser
<1>3. CASE EditUser
  <2>1. PICK f \in UserForms : user' = [user EXCEPT !.active = f.active, !.profile = f.profile]
    BY <1>3 DEF EditUser
  <2>2. user \in User /\ user.by # Omitted /\ user # NoUser
    BY <1>3, <1>1, UserIds DEF EditUser
  <2>3. user'.by = user.by
    BY <2>1, <2>2 DEF User
  <2>4. user' # NoUser
    BY <2>2, <2>3 DEF NoUser
  <2>5. QED
    BY <1>3, <2>2, <2>3, <2>4 DEF UserKept, EditUser
<1>4. CASE Signup
  BY <1>4, Constants DEF Signup, UserKept
<1>5. CASE \/ \E active \in BOOLEAN : SaveForm(active)
           \/ \E p \in Prefix : LoadForm(p) \/ DeleteKey(p)
           \/ ToggleFreePlan
  <2>1. UNCHANGED userVars
    BY <1>5 DEF SaveForm, LoadForm, DeleteKey, ToggleFreePlan
  <2>2. QED
    BY <2>1 DEF UserKept, userVars
<1>6. QED
  BY <1>2, <1>3, <1>4, <1>5 DEF AdminStep, UserKept

-----------------------------------------------------------------------------
(* The rows of a key.                                                      *)

\* They stay the same rows; one that is used or revoked stays so.
RowsKept(q) ==
    /\ WithId(q)' = WithId(q)
    /\ \A p \in WithId(q) : /\ keys[p].used => keys'[p].used
                            /\ ~keys[p].active => ~keys'[p].active

LEMMA KeptRows ==
    ASSUME NEW q, UNCHANGED keys
    PROVE  RowsKept(q)
  BY DEF RowsKept, WithId

LEMMA UpdatedRows ==
    ASSUME TypeOK, NEW r \in Request, NEW id \in Issuer,
           \/ keys' = [p \in Prefix |-> IF p \in WithId(id) THEN MarkedUsed(r, keys[p])
                                                           ELSE keys[p]]
           \/ keys' = [p \in Prefix |-> IF p \in WithId(id) THEN Revoked(r, keys[p])
                                                           ELSE keys[p]]
    PROVE  \A q \in Issuer : RowsKept(q)
<1>1. \A p \in Prefix : /\ keys'[p].by = keys[p].by
                        /\ keys[p].used => keys'[p].used
                        /\ ~keys[p].active => ~keys'[p].active
  BY IdTypes, SaveTypes
<1>2. ASSUME NEW q \in Issuer
      PROVE  RowsKept(q)
  <2>1. WithId(q)' = WithId(q)
    BY <1>1 DEF WithId
  <2>2. WithId(q) \subseteq Prefix
    BY DEF WithId
  <2>3. QED
    BY <1>1, <2>1, <2>2 DEF RowsKept
<1>3. QED
  BY <1>2

\* Only the commit of a key gives it a row that no administrator made.
LEMMA StatementRows ==
    ASSUME IInv, NEW r \in Request, Begin(r) \/ Statement(r) \/ Crash(r), NEW q \in Issuer
    PROVE  RowsKept(q) \/ (q = r /\ CommitKey(r))
<1>1. TypeOK /\ KeyInv(r)
  BY DEF IInv
<1>2. CASE MarkUsed(r)
  <2>1. target[r] \in Issuer
    BY <1>2, InSession DEF MarkUsed
  <2>2. QED
    BY <1>1, <1>2, <2>1, UpdatedRows DEF MarkUsed
<1>3. CASE SaveRevoked(r)
  <2>1. target[r] \in Issuer
    BY <1>3, InSession DEF SaveRevoked
  <2>2. QED
    BY <1>1, <1>3, <2>1, UpdatedRows DEF SaveRevoked
<1>4. CASE CommitKey(r) /\ q # r
  <2>1. prefix[r] \in Prefix /\ keys[prefix[r]] = NoKey
    BY <1>1, <1>4 DEF CommitKey, KeyInv
  <2>2. prefix[r] \notin WithId(q)
    BY <2>1, Constants DEF WithId, NoKey
  <2>3. /\ \A p \in Prefix \ {prefix[r]} : keys'[p] = keys[p]
        /\ keys'[prefix[r]].by = r
    BY <1>1, <1>4, <2>1 DEF CommitKey, TypeOK, NewKey
  <2>4. QED
    BY <1>4, <2>1, <2>2, <2>3 DEF RowsKept, WithId
<1>5. CASE ~MarkUsed(r) /\ ~SaveRevoked(r) /\ ~CommitKey(r)
  <2>1. UNCHANGED keys
    BY <1>5 DEF Statement, Begin, Crash, CheckEmail, SocialAccount, InsertUser, CommitUser,
                InsertSubscription, LoadUser, FindKey, Read, SaveProfile, Generate, InsertKey,
                TryAgain, AnswerKey, FindOwnKey, keyVars
  <2>2. QED
    BY <2>1, KeptRows
<1>6. QED
  BY <1>2, <1>3, <1>4, <1>5

LEMMA AdminRows ==
    ASSUME IInv, AdminStep, NEW q \in Issuer
    PROVE  /\ touched \subseteq touched'
           /\ RowsKept(q) \/ q \in touched'
           /\ Made(q)' => Made(q)
           /\ \A p \in Prefix : keys[p] = NoKey /\ entry[p] # Nobody => keys'[p] = NoKey
<1>1. TypeOK
  BY DEF IInv
<1>2. ASSUME NEW active \in BOOLEAN, SaveForm(active)
      PROVE  /\ touched \subseteq touched'
             /\ RowsKept(q) \/ q \in touched'
             /\ Made(q)' => Made(q)
             /\ \A p \in Prefix : keys[p] = NoKey /\ entry[p] # Nobody => keys'[p] = NoKey
  <2>1. form \in Form /\ form.prefix \in Prefix /\ form.row \in APIKey
    BY <1>1, <1>2 DEF SaveForm, TypeOK, Form
  <2>2. \A p \in Prefix \ {form.prefix} : keys'[p] = keys[p]
    BY <1>1, <1>2 DEF SaveForm, TypeOK
  <2>3. \/ keys' = keys
        \/ /\ keys[form.prefix].by \in {form.row.by, Nobody}
           /\ keys'[form.prefix].by = form.row.by
    BY <1>1, <1>2, <2>1 DEF SaveForm, TypeOK, APIKey
  <2>4. q = form.row.by \/ RowsKept(q)
    BY <2>1, <2>2, <2>3, Constants DEF RowsKept, WithId
  <2>5. form'.row.by = Nobody
    BY <1>2 DEF SaveForm, NoForm, NoKey
  <2>6. Made(q)' => Made(q)
    BY <2>4, <2>5, Constants DEF Made, RowsKept
  <2>7. QED
    BY <1>2, <2>2, <2>4, <2>6 DEF SaveForm
<1>3. ASSUME NEW p \in Prefix, DeleteKey(p)
      PROVE  /\ touched \subseteq touched'
             /\ RowsKept(q) \/ q \in touched'
             /\ Made(q)' => Made(q)
             /\ \A i \in Prefix : keys[i] = NoKey /\ entry[i] # Nobody => keys'[i] = NoKey
  <2>1. \A i \in Prefix \ {p} : keys'[i] = keys[i]
    BY <1>1, <1>3 DEF DeleteKey, TypeOK
  <2>2. keys'[p] = NoKey /\ keys'[p].by = Nobody
    BY <1>1, <1>3 DEF DeleteKey, TypeOK, NoKey
  <2>3. WithId(q)' \subseteq WithId(q)
    BY <2>1, <2>2, Constants DEF WithId
  <2>4. q = keys[p].by \/ RowsKept(q)
    BY <2>1, <2>2, <2>3, Constants DEF RowsKept, WithId
  <2>5. Made(q)' => Made(q)
    BY <1>3, <2>3 DEF Made, DeleteKey
  <2>6. QED
    BY <1>3, <2>1, <2>2, <2>4, <2>5 DEF DeleteKey
<1>4. ASSUME NEW p \in Prefix, LoadForm(p)
      PROVE  UNCHANGED keyVars /\ (Made(q)' => Made(q))
  BY <1>4 DEF LoadForm, Made, WithId, keyVars
<1>5. CASE \/ \E active \in BOOLEAN : SetActive(active)
           \/ ToggleFreePlan \/ EditUser \/ Signup
  <2>1. UNCHANGED <<keyVars, form>>
    BY <1>5 DEF SetActive, ToggleFreePlan, EditUser, Signup, adminVars
  <2>2. QED
    BY <2>1, KeptRows DEF keyVars, Made, WithId
<1>6. QED
  BY <1>2, <1>3, <1>4, <1>5, KeptRows DEF AdminStep, keyVars

-----------------------------------------------------------------------------
(* The user and its subscription.                                          *)

LEMMA InitIInv == Init => IInv
<1> SUFFICES ASSUME Init PROVE IInv
  OBVIOUS
<1>1. TypeOK
  BY InitType
<1>2. \A q \in Issuer, p \in Prefix :
         keys[p].by = q => q = Older /\ p = shown[Older] /\ keys[p] = NewKey(Older)
  BY Constants DEF Init, NoKey, NewKey
<1>3. /\ \A q \in Issuer : shown[q] # Nobody => q = Older /\ user # NoUser
      /\ shown[Older] # Nobody => shown[Older] \in Prefix
      /\ Older \in Issuer
  BY DEF Init, Issuer
<1>4. UserInv
  <2>1. social => user # NoUser
    BY DEF Init
  <2>2. \A p \in Prefix : keys[p] # NoKey => user # NoUser
    BY <1>3, Constants DEF Init
  <2>3. user.by \in Issuer => subscribed
    BY <1>1, UserIds DEF Init
  <2>4. QED
    BY <2>1, <2>2, <2>3 DEF UserInv, Init
<1>5. ASSUME NEW r \in Request
      PROVE  SessionInv(r) /\ KeyInv(r) /\ UseInv(r)
  <2>1. /\ pc[r] = "idle" /\ reply[r] = NoReply /\ target[r] = Nobody /\ ~late[r]
        /\ reply[r].kind = "none" /\ r # Older /\ r \in Issuer
    BY AccountAssumption DEF Init, NoReply, Answer, Issuer
  <2>2. SessionInv(r)
    BY <2>1 DEF SessionInv, Authenticated, Registering
  <2>3. form.row.by # r
    BY Constants DEF Init, NoForm, NoKey
  <2>4. ~Made(r) /\ shown[r] = Nobody
    BY <1>2, <1>3, <2>1, <2>3 DEF Made, WithId
  <2>5. KeyInv(r)
    BY <2>1, <2>4 DEF KeyInv
  <2>6. UseInv(r)
    BY <2>1 DEF UseInv
  <2>7. QED
    BY <2>2, <2>5, <2>6
<1>6. ASSUME NEW q \in Issuer
      PROVE  RowInv(q)
  <2>1. \A p1, p2 \in WithId(q) : p1 = p2
    BY <1>2 DEF WithId
  <2>2. shown[q] # Nobody => keys[shown[q]].by = q
    BY <1>3 DEF Init, NewKey
  <2>3. QED
    BY <2>1, <2>2 DEF RowInv
<1>7. QED
  BY <1>1, <1>4, <1>5, <1>6 DEF IInv

\* Keys change only when there is a user.
LEMMA KeysNeedUser ==
    ASSUME IInv, Next, keys' # keys \/ form' \notin {form, NoForm}
    PROVE  user # NoUser
<1>1. UserInv /\ \A r \in Request : SessionInv(r)
  BY DEF IInv
<1>2. ASSUME NEW r \in Request, Statement(r) \/ Begin(r) \/ Crash(r)
      PROVE  user # NoUser
  <2>1. UNCHANGED form
    BY <1>2, StatementFrame, BeginFrame DEF IInv, Others
  <2>2. MarkUsed(r) \/ CommitKey(r) \/ SaveRevoked(r)
    BY <1>2, <2>1
    DEF Statement, Begin, Crash, CheckEmail, SocialAccount, InsertUser, CommitUser,
        InsertSubscription, LoadUser, FindKey, Read, SaveProfile, Generate, InsertKey,
        TryAgain, AnswerKey, FindOwnKey, keyVars
  <2>3. pc[r] \in Authenticated
    BY <2>2 DEF MarkUsed, CommitKey, SaveRevoked, Authenticated
  <2>4. QED
    BY <1>1, <2>3 DEF SessionInv
<1>3. CASE AdminStep
  <2>1. \/ \E active \in BOOLEAN : SaveForm(active)
        \/ \E p \in Prefix : LoadForm(p) \/ DeleteKey(p)
    BY <1>3 DEF AdminStep, SetActive, ToggleFreePlan, EditUser, Signup, keyVars, adminVars
  <2>2. QED
    BY <1>1, <2>1 DEF SaveForm, LoadForm, DeleteKey, UserInv
<1>4. QED
  BY <1>2, <1>3, NextCases

LEMMA NextUserInv ==
    ASSUME IInv, Next
    PROVE  UserInv'
<1>1. TypeOK /\ TypeOK' /\ UserInv
  BY NextType DEF IInv
<1>2. /\ UserKept
      /\ social' => social \/ user' # NoUser
      /\ user'.by \in Issuer => subscribed' \/ (user.by = user'.by /\ UNCHANGED subscribed)
  <2>1. CASE AdminStep
    BY <2>1, AdminUser
  <2>2. ASSUME NEW r \in Request, CommitUser(r)
        PROVE  user' # NoUser /\ subscribed'
    <3>1. user'.by = r
      BY <2>2 DEF CommitUser, NewUser
    <3>2. user' # NoUser
      BY <3>1, Constants DEF NoUser, Issuer
    <3>3. QED
      BY <2>2, <3>2 DEF CommitUser
  <2>3. ASSUME NEW r \in Request, Begin(r) \/ Statement(r) \/ Crash(r)
        PROVE  /\ UserKept
               /\ CommitUser(r) \/ (user'.by = user.by /\ UNCHANGED <<social, subscribed>>)
    BY <2>3, StatementUser
  <2>4. QED
    BY <2>1, <2>2, <2>3, NextCases
<1>3. social' => user' # NoUser
  BY <1>1, <1>2 DEF UserKept, UserInv
<1>4. form' # NoForm => user' # NoUser
  BY <1>1, <1>2, KeysNeedUser DEF UserKept, UserInv
<1>5. \A p \in Prefix : keys'[p] # NoKey => user' # NoUser
  BY <1>1, <1>2, KeysNeedUser DEF UserKept, UserInv
<1>6. user'.by \in Issuer => subscribed'
  BY <1>1, <1>2 DEF UserInv
<1>7. QED
  BY <1>3, <1>4, <1>5, <1>6 DEF UserInv

-----------------------------------------------------------------------------
(* Sessions.                                                               *)

\* What a statement of another request or of an administrator leaves true.
\* A key that was shown stays shown.
LEMMA ShownKept ==
    ASSUME IInv, Next
    PROVE  \A q \in Issuer : shown[q] # Nobody => shown'[q] # Nobody
<1>1. TypeOK /\ Nobody \notin Prefix
  BY Constants DEF IInv
<1>2. CASE AdminStep
  BY <1>2, AdminFrame
<1>3. ASSUME NEW r \in Request, Begin(r) \/ Statement(r) \/ Crash(r), ~AnswerKey(r)
      PROVE  UNCHANGED shown
  BY <1>3 DEF Statement, Begin, Crash, CheckEmail, SocialAccount, InsertUser, CommitUser,
              InsertSubscription, LoadUser, FindKey, MarkUsed, Read, SaveProfile, Generate,
              InsertKey, TryAgain, CommitKey, FindOwnKey, SaveRevoked
<1>4. ASSUME NEW r \in Request, AnswerKey(r)
      PROVE  \A q \in Issuer : shown[q] # Nobody => shown'[q] # Nobody
  <2>1. prefix[r] \in Prefix
    BY <1>4, InSession DEF AnswerKey
  <2>2. QED
    BY <1>1, <1>4, <2>1 DEF AnswerKey, TypeOK
<1>5. QED
  BY <1>2, <1>3, <1>4, NextCases

LEMMA SessionStable ==
    ASSUME IInv, NEW r \in Request,
           pc'[r] = pc[r], reply'[r] = reply[r], target'[r] = target[r], UNCHANGED data,
           (target[r] # Nobody /\ shown[target[r]] # Nobody) => shown'[target[r]] # Nobody,
           UserKept,
           entry["email"] = r => entry'["email"] = r /\ (user' = user \/ user # NoUser)
    PROVE  SessionInv(r)'
<1>1. SessionInv(r) /\ TypeOK
  BY DEF IInv
<1>2. reply[r].kind = "registered" => user'.by = r
  BY <1>1, UserIds DEF SessionInv, UserKept, Issuer
<1>3. pc[r] \in {"insert subscription", "commit user"} => entry'["email"] = r /\ user' = NoUser
  BY <1>1 DEF SessionInv
<1>4. pc[r] \in Authenticated => user' # NoUser
  BY <1>1 DEF SessionInv, UserKept
<1>5. NeedsKey(r)' = NeedsKey(r)
  BY DEF NeedsKey
<1>6. QED
  BY <1>1, <1>2, <1>3, <1>4, <1>5 DEF SessionInv, Authenticated

LEMMA SessionBegin ==
    ASSUME IInv, NEW r \in Request, Begin(r)
    PROVE  SessionInv(r)'
<1>1. TypeOK /\ SessionInv(r)
  BY DEF IInv
<1>2. UNCHANGED <<data, reply, user, entry, shown>> /\ pc[r] = "idle" /\ pc'[r] = FirstStep(r)
  BY <1>1 DEF Begin, Goto, TypeOK, userVars
<1>3. /\ NeedsKey(r) => target'[r] \in Issuer /\ shown[target'[r]] # Nobody
      /\ ~NeedsKey(r) => UNCHANGED target
  BY <1>1 DEF Begin, TypeOK
<1>4. NeedsKey(r)' = NeedsKey(r)
  BY <1>2 DEF NeedsKey
<1>5. reply[r].kind = "none"
  BY <1>1, <1>2 DEF SessionInv, NoReply, Answer
<1>6. /\ FirstStep(r) \in {"load user", "find key", "social account", "check email"}
      /\ FirstStep(r) = "load user" => data[r].auth = "jwt"
      /\ FirstStep(r) = "find key" => data[r].auth = "key"
      /\ FirstStep(r) \in {"social account", "check email"} =>
            data[r].auth \notin {"jwt", "key"}
  BY DEF FirstStep
<1>7. data[r].auth \in {"none", "jwt", "key"}
  BY <1>1, DataType DEF Data
<1>8. /\ NeedsKey(r)' => target'[r] # Nobody
      /\ target'[r] # Nobody => shown'[target'[r]] # Nobody
  <2>1. CASE NeedsKey(r)
    BY <1>2, <1>3, <1>4, <2>1, Constants
  <2>2. CASE ~NeedsKey(r)
    BY <1>1, <1>2, <1>3, <1>4, <2>2 DEF SessionInv
  <2>3. QED
    BY <2>1, <2>2
<1>9. /\ pc'[r] = "load user" => data'[r].auth = "jwt"
      /\ pc'[r] \in {"find key", "mark used"} => data'[r].auth = "key"
      /\ pc'[r] \in Registering => data'[r].auth = "none"
      /\ pc'[r] \notin Authenticated
      /\ pc'[r] \notin {"insert subscription", "commit user", "find own key", "save revoked", "done"}
  BY <1>2, <1>6, <1>7 DEF Authenticated, Registering
<1>10. reply'[r] = NoReply /\ reply'[r].kind = "none"
  BY <1>1, <1>2, <1>5 DEF SessionInv
<1>11. QED
  BY <1>8, <1>9, <1>10 DEF SessionInv

\* What SessionInv asks of r after a statement, but for its target.
Goes(r) ==
    /\ pc'[r] \in Authenticated => user' # NoUser
    /\ pc'[r] \in {"insert subscription", "commit user"} => entry'["email"] = r /\ user' = NoUser
    /\ pc'[r] # "done" => reply'[r] = NoReply
    /\ reply'[r].kind = "registered" => user'.by = r
    /\ pc'[r] = "load user" => data[r].auth = "jwt"
    /\ pc'[r] \in Registering => data[r].auth = "none"
    /\ pc'[r] \in {"find key", "mark used"} => data[r].auth = "key"
    /\ pc'[r] \in {"find own key", "save revoked"} => data[r].op = "revoke"
    /\ reply'[r].kind = "revoked" => data[r].op = "revoke" /\ pc'[r] = "done"

LEMMA SessionStatement ==
    ASSUME IInv, NEW r \in Request, Statement(r) \/ Crash(r)
    PROVE  SessionInv(r)'
<1>1. /\ TypeOK /\ SessionInv(r) /\ UserInv /\ UserKept
      /\ data[r].op \in {"create key", "revoke"} => data[r].auth = "jwt"
  BY StatementUser, AccountAssumption DEF IInv, TypeOK
<1>2. target'[r] = target[r] /\ UNCHANGED data
  BY StatementFrame DEF Others, Own
<1>3. /\ NeedsKey(r)' => target'[r] # Nobody
      /\ target'[r] # Nobody => shown'[target'[r]] # Nobody
  <2>1. pc[r] # "idle"
    BY DEF Statement, Crash, CheckEmail, SocialAccount, InsertUser, InsertSubscription, CommitUser,
           LoadUser, FindKey, MarkUsed, Read, SaveProfile, Generate, InsertKey, TryAgain, CommitKey,
           AnswerKey, FindOwnKey, SaveRevoked
  <2>2. NeedsKey(r)' = NeedsKey(r)
    BY <1>2 DEF NeedsKey
  <2>3. target[r] # Nobody => target[r] \in Issuer
    BY <1>1 DEF TypeOK
  <2>4. QED
    BY <1>1, <1>2, <2>1, <2>2, <2>3, ShownKept DEF SessionInv, Next
<1>0. NoReply.kind = "none"
  BY DEF NoReply, Answer
<1> SUFFICES Goes(r)
  BY <1>2, <1>3 DEF Goes, SessionInv
<1>4. ASSUME NEW answer, Finish(r, answer),
             answer.kind = "registered" => user'.by = r,
             answer.kind = "revoked" => data[r].op = "revoke"
      PROVE  Goes(r)
  <2>1. pc'[r] = "done" /\ reply'[r] = answer
    BY <1>1, <1>4, EndsFrame
  <2>2. "done" \notin Authenticated /\ "done" \notin Registering
    BY DEF Authenticated, Registering
  <2>3. QED
    BY <1>4, <2>1, <2>2 DEF Goes
<1>5. ASSUME NEW kind \in Kind \ {"registered", "revoked"}, Reply(r, kind)
      PROVE  Goes(r)
  BY <1>4, <1>5 DEF Reply, Answer
<1>6. ASSUME NEW step \in Authenticated, Goto(r, step), UNCHANGED reply, user' # NoUser,
             pc[r] # "done",
             step = "mark used" => data[r].auth = "key",
             step \in {"find own key", "save revoked"} => data[r].op = "revoke"
      PROVE  Goes(r)
  <2>1. pc'[r] = step
    BY <1>1, <1>6 DEF Goto, TypeOK
  <2>2. reply'[r] = NoReply
    BY <1>1, <1>6 DEF SessionInv
  <2>3. step \notin Registering /\ step \notin {"load user", "find key", "done"}
    BY <1>6 DEF Authenticated, Registering
  <2>4. step \notin {"insert subscription", "commit user"}
    BY <2>3 DEF Registering
  <2>5. QED
    BY <1>0, <1>6, <2>1, <2>2, <2>3, <2>4 DEF Goes
<1>7. ASSUME NEW step \in Registering, Goto(r, step), UNCHANGED reply, pc[r] \in Registering,
             step \in {"insert subscription", "commit user"} => entry'["email"] = r /\ user' = NoUser
      PROVE  Goes(r)
  <2>1. pc'[r] = step /\ data[r].auth = "none"
    BY <1>1, <1>7 DEF Goto, TypeOK, SessionInv
  <2>2. pc[r] # "done"
    BY <1>7 DEF Registering
  <2>3. reply'[r] = NoReply
    BY <1>1, <1>7, <2>2 DEF SessionInv
  <2>4. /\ step \notin Authenticated
        /\ step \notin {"load user", "find key", "mark used", "find own key", "save revoked"}
    BY <1>7 DEF Authenticated, Registering
  <2>5. QED
    BY <1>0, <1>7, <2>1, <2>3, <2>4 DEF Goes
<1>8. CASE CheckEmail(r)
  BY <1>5, <1>7, <1>8 DEF CheckEmail, Kind, Continue, Registering
<1>9. CASE SocialAccount(r)
  <2>1. CASE Reply(r, "exists")
    BY <1>5, <2>1 DEF Kind
  <2>2. CASE Continue(r, "insert user")
    BY <1>7, <1>9, <2>2 DEF SocialAccount, Continue, Registering
  <2>3. CASE social /\ Continue(r, "save profile")
    BY <1>1, <1>6, <1>9, <2>3 DEF SocialAccount, Continue, Authenticated, UserInv, UserKept
  <2>4. QED
    BY <1>9, <2>1, <2>2, <2>3 DEF SocialAccount
<1>10. CASE InsertUser(r)
  <2>1. CASE EmailTaken(r)
    BY <1>5, <1>10, <2>1 DEF InsertUser, Kind
  <2>2. CASE ~EmailTaken(r)
    BY <1>1, <1>7, <1>10, <2>2
    DEF InsertUser, EmailTaken, SeenOfInsert, Registering, TypeOK, Index
  <2>3. QED
    BY <2>1, <2>2
<1>11. CASE InsertSubscription(r)
  BY <1>1, <1>5, <1>7, <1>11
  DEF InsertSubscription, Kind, Continue, Registering, SessionInv, userVars
<1>12. CASE CommitUser(r)
  BY <1>4, <1>12 DEF CommitUser, Reply, Answer, NewUser
<1>13. CASE LoadUser(r)
  <2>1. CASE ~user.active
    BY <1>5, <1>13, <2>1 DEF LoadUser, Kind
  <2>2. CASE user.active
    <3>1. user # NoUser
      BY <2>2 DEF NoUser
    <3>2. Admitted(r) \in Authenticated \ {"mark used", "save revoked"}
      BY DEF Admitted, Authenticated
    <3>3. Admitted(r) = "find own key" => data[r].op = "revoke"
      BY DEF Admitted
    <3>4. QED
      BY <1>1, <1>6, <1>13, <2>2, <3>1, <3>2, <3>3 DEF LoadUser, Continue, UserKept
  <2>3. QED
    BY <2>1, <2>2
<1>14. CASE FindKey(r)
  <2>1. CASE Reply(r, "unauthorized")
    BY <1>5, <2>1 DEF Kind
  <2>2. CASE Continue(r, "mark used") /\ keys[shown[target[r]]].active
    <3>1. keys[shown[target[r]]] # NoKey /\ shown[target[r]] \in Prefix
      <4>1. pc[r] = "find key"
        BY <1>14 DEF FindKey
      <4>2. shown[target[r]] \in Prefix
        BY <4>1, InSession
      <4>3. keys[shown[target[r]]] # NoKey
        <5>1. ~NoKey.active
          BY DEF NoKey
        <5>2. QED
          BY <2>2, <5>1
      <4>4. QED
        BY <4>2, <4>3
    <3>2. QED
      BY <1>1, <1>6, <1>14, <2>2, <3>1
      DEF FindKey, Continue, Authenticated, UserInv, UserKept, SessionInv
  <2>3. QED
    BY <1>14, <2>1, <2>2 DEF FindKey
<1>15. CASE MarkUsed(r)
  <2>1. Admitted(r) \in Authenticated \ {"mark used", "save revoked"}
    BY DEF Admitted, Authenticated
  <2>2. Admitted(r) = "find own key" => data[r].op = "revoke"
    BY DEF Admitted
  <2>3. pc[r] \in Authenticated /\ user' # NoUser
    BY <1>1, <1>15 DEF MarkUsed, Authenticated, SessionInv, UserKept
  <2>4. QED
    BY <1>6, <1>15, <2>1, <2>2, <2>3 DEF MarkUsed, Continue
<1>16. CASE Generate(r) \/ InsertKey(r) \/ CommitKey(r)
  <2>1. /\ pc[r] \in Authenticated /\ pc[r] # "done" /\ UNCHANGED reply
        /\ \E step \in {"insert key", "try again", "commit key", "answer key"} : Goto(r, step)
    BY <1>16 DEF Generate, InsertKey, CommitKey, Continue, Authenticated
  <2>2. user' # NoUser
    BY <1>1, <2>1 DEF SessionInv, UserKept
  <2>3. QED
    BY <1>6, <2>1, <2>2 DEF Authenticated
<1>17. CASE Read(r) \/ SaveProfile(r) \/ TryAgain(r) \/ AnswerKey(r) \/ Crash(r)
  <2>1. \E kind \in Kind \ {"registered", "revoked"} : Reply(r, kind)
    BY <1>17 DEF Read, SaveProfile, TryAgain, AnswerKey, Crash, Kind
  <2>2. QED
    BY <1>5, <2>1
<1>18. CASE FindOwnKey(r)
  <2>1. data[r].op = "revoke" /\ user' # NoUser
    BY <1>1, <1>18 DEF FindOwnKey, SessionInv, Authenticated, UserKept
  <2>2. CASE Reply(r, "not found")
    BY <1>5, <2>2 DEF Kind
  <2>3. CASE \E p \in WithId(target[r]) : Finish(r, Answer("revoked", keys[p].revoked))
    BY <1>4, <2>1, <2>3 DEF Answer
  <2>4. CASE Continue(r, "save revoked")
    BY <1>6, <1>18, <2>1, <2>4 DEF FindOwnKey, Continue, Authenticated
  <2>5. QED
    BY <1>18, <2>2, <2>3, <2>4 DEF FindOwnKey
<1>19. CASE SaveRevoked(r)
  <2>1. data[r].op = "revoke"
    BY <1>1, <1>19 DEF SaveRevoked, SessionInv
  <2>2. QED
    BY <1>4, <1>5, <1>19, <2>1 DEF SaveRevoked, Answer, Kind
<1>20. QED
  BY <1>8, <1>9, <1>10, <1>11, <1>12, <1>13, <1>14, <1>15, <1>16, <1>17, <1>18, <1>19
  DEF Statement

LEMMA NextSession ==
    ASSUME IInv, Next, NEW r \in Request
    PROVE  SessionInv(r)'
<1>1. TypeOK /\ (target[r] # Nobody => target[r] \in Issuer)
  BY DEF IInv, TypeOK
<1>2. (target[r] # Nobody /\ shown[target[r]] # Nobody) => shown'[target[r]] # Nobody
  BY <1>1, ShownKept
<1>3. CASE AdminStep
  <2>1. /\ pc'[r] = pc[r] /\ reply'[r] = reply[r] /\ target'[r] = target[r] /\ UNCHANGED data
        /\ UserKept /\ UNCHANGED entry
        /\ user' = user \/ user # NoUser \/ entry["email"] = Nobody
    BY <1>3, AdminFrame, AdminUser
  <2>2. QED
    BY <1>2, <2>1, SessionStable, Constants
<1>4. ASSUME NEW o \in Request, o # r, Begin(o) \/ Statement(o) \/ Crash(o)
      PROVE  SessionInv(r)'
  <2>1. /\ pc'[r] = pc[r] /\ reply'[r] = reply[r] /\ target'[r] = target[r] /\ UNCHANGED data
        /\ entry["email"] = r => entry'["email"] = r
    BY <1>1, <1>4, StatementFrame, BeginFrame, Constants DEF Others, Index
  <2>2. UserKept /\ (user' # user => user # NoUser \/ CommitUser(o))
    BY <1>4, StatementUser
  <2>3. CommitUser(o) => entry["email"] = o
    BY DEF IInv, SessionInv, CommitUser
  <2>4. QED
    BY <1>2, <1>4, <2>1, <2>2, <2>3, SessionStable
<1>5. QED
  BY <1>3, <1>4, SessionBegin, SessionStatement, NextCases

-----------------------------------------------------------------------------
(* The rows of keys.                                                       *)

\* Nobody fills a prefix whose index entry another request holds.
LEMMA ReservedPrefix ==
    ASSUME IInv, NEW r \in Request, Begin(r) \/ Statement(r) \/ Crash(r),
           NEW p \in Prefix, keys[p] = NoKey, entry[p] # r
    PROVE  keys'[p] = NoKey
<1>1. TypeOK /\ KeyInv(r)
  BY DEF IInv
<1>2. CASE MarkUsed(r) \/ SaveRevoked(r)
  <2>1. target[r] \in Issuer
    BY <1>2, InSession DEF MarkUsed, SaveRevoked
  <2>2. p \notin WithId(target[r])
    BY <2>1, Constants DEF WithId, NoKey
  <2>3. QED
    BY <1>2, <2>2 DEF MarkUsed, SaveRevoked
<1>3. CASE CommitKey(r)
  <2>1. prefix[r] # p
    BY <1>1, <1>3 DEF CommitKey, KeyInv
  <2>2. QED
    BY <1>1, <1>3, <2>1 DEF CommitKey, TypeOK
<1>4. CASE ~MarkUsed(r) /\ ~SaveRevoked(r) /\ ~CommitKey(r)
  BY <1>4 DEF Statement, Begin, Crash, CheckEmail, SocialAccount, InsertUser, CommitUser,
              InsertSubscription, LoadUser, FindKey, Read, SaveProfile, Generate, InsertKey,
              TryAgain, AnswerKey, FindOwnKey, keyVars
<1>5. QED
  BY <1>2, <1>3, <1>4

\* What a step that is not of r leaves true.
LEMMA KeyStable ==
    ASSUME IInv, NEW r \in Request,
           pc'[r] = pc[r], reply'[r] = reply[r], prefix'[r] = prefix[r], shown'[r] = shown[r],
           touched \subseteq touched', RowsKept(r) \/ r \in touched', Made(r)' => Made(r),
           \A p \in Prefix : entry[p] = r => /\ entry'[p] = r
                                             /\ keys[p] = NoKey => keys'[p] = NoKey
    PROVE  KeyInv(r)'
<1>1. KeyInv(r)
  BY DEF IInv
<1>2. ASSUME pc[r] = "answer key", r \notin touched'
      PROVE  keys'[prefix[r]].by = r
  <2>1. prefix[r] \in WithId(r)
    BY <1>1, <1>2 DEF KeyInv, WithId
  <2>2. prefix[r] \in WithId(r)'
    BY <1>2, <2>1 DEF RowsKept
  <2>3. QED
    BY <2>2 DEF WithId
<1>3. QED
  BY <1>1, <1>2 DEF KeyInv

LEMMA KeyStatement ==
    ASSUME IInv, NEW r \in Request, Begin(r) \/ Statement(r) \/ Crash(r)
    PROVE  KeyInv(r)'
<1>1. TypeOK /\ KeyInv(r) /\ UNCHANGED <<form, touched>> /\ Nobody \notin Prefix
  BY StatementFrame, BeginFrame, Constants DEF IInv, Others
<1>2. pc[r] # "done" /\ shown[r] = Nobody
  <2>1. pc[r] # "done"
    BY StatementFrame DEF Begin, Own
  <2>2. QED
    BY <1>1, <2>1 DEF KeyInv
<1>3. r \in Issuer
  BY DEF Issuer
<1>4. Made(r)' => Made(r) \/ CommitKey(r)
  BY <1>1, <1>3, StatementRows DEF Made, RowsKept
<1>5. ~AnswerKey(r) => shown'[r] = Nobody
  BY <1>2 DEF Statement, Begin, Crash, CheckEmail, SocialAccount, InsertUser, CommitUser,
              InsertSubscription, LoadUser, FindKey, MarkUsed, Read, SaveProfile, Generate,
              InsertKey, TryAgain, CommitKey, FindOwnKey, SaveRevoked
<1>6. CASE Generate(r)
  <2>1. pc[r] = "generate" /\ pc'[r] = "insert key" /\ prefix'[r] \in Prefix
    BY <1>1, <1>6 DEF Generate, Continue, Goto, TypeOK
  <2>2. ~Made(r)' /\ shown'[r] = Nobody
    BY <1>1, <1>4, <1>5, <1>6, <2>1 DEF KeyInv, AnswerKey, CommitKey
  <2>3. QED
    BY <2>1, <2>2 DEF KeyInv
<1>7. CASE InsertKey(r)
  <2>1. pc[r] = "insert key" /\ pc'[r] \in {"try again", "commit key"} /\ prefix'[r] = prefix[r]
    BY <1>1, <1>7 DEF InsertKey, Continue, Goto, TypeOK, objectVars
  <2>2. ~Made(r)' /\ shown'[r] = Nobody
    BY <1>1, <1>4, <1>5, <2>1 DEF KeyInv, AnswerKey, CommitKey
  <2>3. prefix[r] \in Prefix
    BY <1>1, <2>1 DEF KeyInv
  <2>4. pc'[r] = "commit key" => /\ entry'[prefix[r]] = r
                                 /\ keys'[prefix[r]] = NoKey
    BY <1>1, <1>7, <2>1, <2>3
    DEF InsertKey, Continue, Goto, TypeOK, Index, PrefixTaken, keyVars
  <2>5. QED
    BY <2>1, <2>2, <2>3, <2>4 DEF KeyInv
<1>8. CASE CommitKey(r)
  <2>1. pc[r] = "commit key" /\ pc'[r] = "answer key" /\ prefix'[r] = prefix[r]
    BY <1>1, <1>8 DEF CommitKey, Goto, TypeOK, objectVars
  <2>2. prefix[r] \in Prefix /\ keys'[prefix[r]].by = r
    BY <1>1, <1>8, <2>1 DEF KeyInv, CommitKey, TypeOK, NewKey
  <2>3. shown'[r] = Nobody
    BY <1>5, <2>1 DEF AnswerKey
  <2>4. QED
    BY <2>1, <2>2, <2>3 DEF KeyInv
<1>9. CASE AnswerKey(r) \/ Crash(r)
  <2>1. pc'[r] = "done" /\ reply'[r].kind \in {"none", "key"}
    <3>1. PICK kind \in {"none", "key"} : Finish(r, Answer(kind, Nobody))
      BY <1>9 DEF AnswerKey, Crash, Reply
    <3>2. pc'[r] = "done" /\ reply'[r] = Answer(kind, Nobody)
      BY <1>1, <3>1, EndsFrame
    <3>3. QED
      BY <3>2 DEF Answer
  <2>2. QED
    BY <2>1 DEF KeyInv
<1>10. CASE /\ ~Generate(r) /\ ~InsertKey(r) /\ ~CommitKey(r) /\ ~AnswerKey(r) /\ ~Crash(r)
  <2>1. /\ pc[r] \notin {"insert key", "commit key", "answer key"}
        /\ pc'[r] \notin {"insert key", "commit key", "answer key"}
    <3>1. CASE Begin(r) \/ LoadUser(r) \/ MarkUsed(r)
      BY <1>1, <3>1, EndsFrame
      DEF TypeOK, Begin, LoadUser, MarkUsed, FirstStep, Admitted, Reply, Continue, Goto
    <3>2. CASE CheckEmail(r) \/ SocialAccount(r) \/ InsertUser(r) \/ InsertSubscription(r)
      BY <1>1, <3>2, EndsFrame
      DEF TypeOK, CheckEmail, SocialAccount, InsertUser, InsertSubscription, Reply, Continue, Goto
    <3>3. CASE CommitUser(r) \/ FindKey(r) \/ Read(r) \/ SaveProfile(r) \/ TryAgain(r)
      BY <1>1, <3>3, EndsFrame
      DEF TypeOK, CommitUser, FindKey, Read, SaveProfile, TryAgain, Reply, Continue, Goto
    <3>4. CASE FindOwnKey(r) \/ SaveRevoked(r)
      BY <1>1, <3>4, EndsFrame
      DEF TypeOK, FindOwnKey, SaveRevoked, Reply, Continue, Goto
    <3>5. QED
      BY <1>10, <3>1, <3>2, <3>3, <3>4 DEF Statement
  <2>2. ~Made(r)'
    BY <1>1, <1>2, <1>4, <1>10, <2>1 DEF KeyInv
  <2>3. QED
    BY <1>5, <1>10, <2>1, <2>2 DEF KeyInv
<1>11. QED
  BY <1>6, <1>7, <1>8, <1>9, <1>10

LEMMA NextKey ==
    ASSUME IInv, Next, NEW r \in Request
    PROVE  KeyInv(r)'
<1>1. r \in Issuer /\ Nobody \notin Request /\ Prefix \subseteq Index
  BY Constants DEF Issuer, Index
<1>2. CASE AdminStep
  BY <1>1, <1>2, AdminFrame, AdminRows, KeyStable
<1>3. ASSUME NEW o \in Request, o # r, Begin(o) \/ Statement(o) \/ Crash(o)
      PROVE  KeyInv(r)'
  <2>1. Others(o)
    BY <1>3, StatementFrame, BeginFrame DEF IInv
  <2>2. ~CommitKey(o) \/ r # o
    BY <1>3
  <2>3. RowsKept(r)
    BY <1>1, <1>3, StatementRows
  <2>4. Made(r)' => Made(r)
    BY <2>1, <2>3 DEF Made, RowsKept, Others
  <2>5. \A p \in Prefix : entry[p] = r => /\ entry'[p] = r
                                          /\ keys[p] = NoKey => keys'[p] = NoKey
    BY <1>1, <1>3, <2>1, ReservedPrefix DEF Others
  <2>6. QED
    BY <1>1, <1>3, <2>1, <2>3, <2>4, <2>5, KeyStable DEF Others
<1>4. QED
  BY <1>2, <1>3, KeyStatement, NextCases

LEMMA NextRow ==
    ASSUME IInv, Next, NEW q \in Issuer
    PROVE  RowInv(q)'
<1>1. TypeOK /\ RowInv(q) /\ \A r \in Request : KeyInv(r)
  BY DEF IInv
<1>2. ASSUME RowsKept(q), touched \subseteq touched', shown'[q] = shown[q]
      PROVE  RowInv(q)'
  <2>1. shown[q] # Nobody /\ q \notin touched => shown[q] \in WithId(q)
    BY <1>1 DEF RowInv, TypeOK, WithId
  <2>2. shown[q] # Nobody /\ q \notin touched' => keys'[shown[q]].by = q
    BY <1>2, <2>1 DEF RowsKept, WithId
  <2>3. QED
    BY <1>1, <1>2, <2>2 DEF RowInv, RowsKept
<1>3. ASSUME q \in touched'
      PROVE  RowInv(q)'
  BY <1>3 DEF RowInv
<1>4. CASE AdminStep
  BY <1>2, <1>3, <1>4, AdminFrame, AdminRows
<1>5. ASSUME NEW r \in Request, Begin(r) \/ Statement(r) \/ Crash(r)
      PROVE  RowInv(q)'
  <2>1. Others(r)
    BY <1>5, StatementFrame, BeginFrame DEF IInv
  <2>2. CASE q = r /\ CommitKey(r)
    <3>1. prefix[r] \in Prefix /\ shown'[q] = Nobody /\ WithId(q) = {}
      BY <1>1, <2>2 DEF KeyInv, Made, CommitKey
    <3>2. WithId(q)' \subseteq {prefix[r]}
      BY <1>1, <2>2, <3>1 DEF CommitKey, WithId, TypeOK
    <3>3. QED
      BY <3>1, <3>2 DEF RowInv
  <2>3. CASE q = r /\ AnswerKey(r)
    <3>1. prefix[r] \in Prefix /\ UNCHANGED <<keys, touched>>
      BY <1>1, <2>3 DEF KeyInv, AnswerKey, keyVars
    <3>2. shown'[q] = prefix[r]
      BY <1>1, <2>3 DEF AnswerKey, TypeOK
    <3>3. QED
      <4>1. q \notin touched' => keys'[prefix[r]].by = q
        BY <1>1, <2>3, <3>1 DEF KeyInv, AnswerKey
      <4>2. WithId(q)' = WithId(q)
        BY <3>1 DEF WithId
      <4>3. QED
        BY <1>1, <3>1, <3>2, <4>1, <4>2 DEF RowInv
  <2>4. CASE ~(q = r /\ CommitKey(r)) /\ ~(q = r /\ AnswerKey(r))
    <3>1. RowsKept(q)
      BY <1>5, <2>4, StatementRows
    <3>2. shown'[q] = shown[q]
      <4>1. CASE q # r
        BY <2>1, <4>1 DEF Others
      <4>2. CASE ~AnswerKey(r)
        BY <1>5, <4>2
        DEF Statement, Begin, Crash, CheckEmail, SocialAccount, InsertUser, CommitUser,
            InsertSubscription, LoadUser, FindKey, MarkUsed, Read, SaveProfile, Generate,
            InsertKey, TryAgain, CommitKey, FindOwnKey, SaveRevoked
      <4>3. QED
        BY <2>4, <4>1, <4>2
    <3>3. QED
      BY <1>2, <2>1, <3>1, <3>2 DEF Others
  <2>5. QED
    BY <2>2, <2>3, <2>4
<1>6. QED
  BY <1>4, <1>5, NextCases

-----------------------------------------------------------------------------
(* Uses and revocations.                                                   *)

\* The creation of a key that was shown is over: it gets no other row.
LEMMA ShownRows ==
    ASSUME IInv, Next, NEW q \in Issuer, shown[q] # Nobody
    PROVE  touched \subseteq touched' /\ (RowsKept(q) \/ q \in touched')
<1>1. CASE AdminStep
  BY <1>1, AdminRows
<1>2. ASSUME NEW r \in Request, Begin(r) \/ Statement(r) \/ Crash(r)
      PROVE  touched \subseteq touched' /\ RowsKept(q)
  <2>1. UNCHANGED touched
    BY <1>2, StatementFrame, BeginFrame DEF IInv, Others
  <2>2. ~(q = r /\ CommitKey(r))
    BY DEF IInv, KeyInv, CommitKey
  <2>3. QED
    BY <1>2, <2>1, <2>2, StatementRows
<1>3. QED
  BY <1>1, <1>2, NextCases

LEMMA DeadKept ==
    ASSUME IInv, Next, NEW q \in Issuer, shown[q] # Nobody, Dead(q)
    PROVE  Dead(q)'
<1>1. CASE q \in touched'
  BY <1>1 DEF Dead
<1>2. CASE RowsKept(q) /\ q \notin touched'
  <2>1. \A p \in WithId(q) : ~keys[p].active
    BY <1>2, ShownRows DEF Dead
  <2>2. \A p \in WithId(q)' : ~keys'[p].active
    BY <1>2, <2>1 DEF RowsKept
  <2>3. QED
    BY <2>2 DEF Dead
<1>3. QED
  BY <1>1, <1>2, ShownRows

\* Whoever was admitted or answered by a key presented one that was shown.
LEMMA TargetShown ==
    ASSUME IInv, NEW r \in Request,
           \/ reply[r].kind = "revoked"
           \/ late[r]
           \/ data[r].auth = "key" /\ pc[r] # "idle"
    PROVE  target[r] \in Issuer /\ shown[target[r]] # Nobody
<1>1. TypeOK /\ SessionInv(r) /\ UseInv(r)
  BY DEF IInv
<1>2. target[r] # Nobody
  <2>1. CASE reply[r].kind = "revoked"
    <3>1. NeedsKey(r) /\ pc[r] # "idle"
      BY <1>1, <2>1 DEF SessionInv, NeedsKey
    <3>2. QED
      BY <1>1, <3>1 DEF SessionInv
  <2>2. CASE late[r]
    BY <1>1, <2>2 DEF UseInv
  <2>3. CASE data[r].auth = "key" /\ pc[r] # "idle"
    BY <1>1, <2>3 DEF SessionInv, NeedsKey
  <2>4. QED
    BY <2>1, <2>2, <2>3
<1>3. QED
  BY <1>1, <1>2 DEF TypeOK, SessionInv

LEMMA Admitting ==
    ASSUME IInv, NEW r \in Request,
           pc[r] \in {"mark used", "read", "save profile"} \/ reply[r].kind \in {"ok", "updated"}
    PROVE  pc[r] # "idle"
<1>1. SessionInv(r) /\ NoReply.kind = "none"
  BY DEF IInv, NoReply, Answer
<1>2. QED
  BY <1>1 DEF SessionInv

\* What a step that is not of r leaves true.
LEMMA UseStable ==
    ASSUME IInv, Next, NEW r \in Request,
           pc'[r] = pc[r], reply'[r] = reply[r], target'[r] = target[r], late'[r] = late[r],
           UNCHANGED data
    PROVE  UseInv(r)'
<1>1. UseInv(r)
  BY DEF IInv
<1>2. PICK q : q = target[r] /\ q = target'[r]
  OBVIOUS
<1>3. reply[r].kind = "revoked" => Dead(q)'
  BY <1>1, <1>2, TargetShown, DeadKept DEF UseInv
<1>4. late[r] => q # Nobody /\ Dead(q)'
  BY <1>1, <1>2, TargetShown, DeadKept DEF UseInv
<1>5. ASSUME data[r].auth = "key", q \notin touched', pc[r] # "idle"
      PROVE  q \notin touched /\ RowsKept(q)
  BY <1>2, <1>5, TargetShown, ShownRows
<1>6. ASSUME data[r].auth = "key", q \notin touched', late[r]
      PROVE  /\ pc[r] \notin {"mark used", "read", "save profile"}
             /\ reply[r].kind \notin {"ok", "updated"}
  BY <1>1, <1>2, <1>5, <1>6, Admitting DEF UseInv
<1>7. ASSUME data[r].auth = "key", q \notin touched',
             pc[r] \in {"read", "save profile"} \/ reply[r].kind \in {"ok", "updated"}
      PROVE  \A p \in WithId(q)' : keys'[p].used
  <2>1. q \notin touched /\ RowsKept(q)
    BY <1>5, <1>7, Admitting
  <2>2. \A p \in WithId(q) : keys[p].used
    BY <1>1, <1>2, <1>7, <2>1 DEF UseInv
  <2>3. QED
    BY <2>1, <2>2 DEF RowsKept
<1>8. QED
  BY <1>2, <1>3, <1>4, <1>6, <1>7 DEF UseInv, Dead, WithId

LEMMA UseBegin ==
    ASSUME IInv, NEW r \in Request, Begin(r)
    PROVE  UseInv(r)'
<1>1. TypeOK /\ SessionInv(r) /\ \A o \in Request : UseInv(o)
  BY DEF IInv
<1>2. /\ UNCHANGED <<keys, touched, reply, data>>
      /\ pc[r] = "idle" /\ pc'[r] = FirstStep(r)
  BY <1>1 DEF Begin, Goto, TypeOK, keyVars
<1>3. reply'[r] = NoReply /\ NoReply.kind = "none"
  BY <1>1, <1>2 DEF SessionInv, NoReply, Answer
<1>4. PICK q : q = target'[r]
  OBVIOUS
<1>5. late'[r] => q # Nobody /\ Dead(q)
  <2>1. CASE UNCHANGED <<target, late>>
    BY <1>1, <1>4, <2>1 DEF UseInv
  <2>2. CASE \E i \in Issuer :
                /\ target' = [target EXCEPT ![r] = i]
                /\ late' = [late EXCEPT ![r] = \E o \in Request :
                                target[o] = i /\ reply[o].kind = "revoked"]
    <3>1. q \in Issuer
      BY <1>1, <1>4, <2>2 DEF TypeOK
    <3>2. late'[r] => \E o \in Request : target[o] = q /\ reply[o].kind = "revoked"
      BY <1>1, <1>4, <2>2 DEF TypeOK
    <3>3. late'[r] => Dead(q)
      BY <1>1, <3>2 DEF UseInv
    <3>4. QED
      BY <3>1, <3>3, Constants
  <2>3. QED
    BY <2>1, <2>2 DEF Begin
<1>6. data[r].auth = "key" => pc'[r] = "find key"
  BY <1>2 DEF FirstStep
<1>7. Dead(q)' = Dead(q)
  BY <1>2 DEF Dead, WithId
<1>8. QED
  BY <1>2, <1>3, <1>4, <1>5, <1>6, <1>7 DEF UseInv, Dead, WithId

\* Where a request that presents a key is admitted, answered, or answers a revocation.
LEMMA KeyMoves ==
    ASSUME IInv, NEW r \in Request, Statement(r) \/ Crash(r)
    PROVE  /\ reply'[r].kind = "revoked" => FindOwnKey(r) \/ SaveRevoked(r)
           /\ data[r].auth = "key" =>
                 /\ pc'[r] = "mark used" => FindKey(r)
                 /\ pc'[r] \in {"read", "save profile"} => MarkUsed(r)
                 /\ reply'[r].kind \in {"ok", "updated"} => Read(r) \/ SaveProfile(r)
<1>1. TypeOK /\ SessionInv(r)
  BY DEF IInv
<1>2. pc[r] # "done" /\ reply[r].kind = "none"
  <2>1. pc[r] # "done"
    BY StatementFrame DEF Own
  <2>2. NoReply.kind = "none"
    BY DEF NoReply, Answer
  <2>3. QED
    BY <1>1, <2>1, <2>2 DEF SessionInv
<1>3. ASSUME NEW kind \in Kind, Reply(r, kind)
      PROVE  pc'[r] = "done" /\ reply'[r].kind = kind
  BY <1>1, <1>3, EndsFrame DEF Reply, Answer
<1>4. ASSUME NEW step \in Step, Goto(r, step)
      PROVE  pc'[r] = step
  BY <1>1, <1>4 DEF Goto, TypeOK
<1>5. CASE CheckEmail(r) \/ SocialAccount(r) \/ InsertUser(r) \/ InsertSubscription(r)
  BY <1>1, <1>2, <1>3, <1>4, <1>5
  DEF CheckEmail, SocialAccount, InsertUser, InsertSubscription, Continue, Kind, Step,
      SessionInv, Registering
<1>6. CASE CommitUser(r)
  BY <1>3, <1>6 DEF CommitUser, Kind
<1>7. CASE LoadUser(r)
  <2>1. CASE Reply(r, "unauthorized")
    BY <1>3, <2>1 DEF Kind
  <2>2. CASE UNCHANGED reply
    BY <1>1, <1>2, <1>7, <2>2 DEF LoadUser, SessionInv
  <2>3. QED
    BY <1>7, <2>1, <2>2 DEF LoadUser, Continue
<1>8. CASE FindKey(r)
  BY <1>2, <1>3, <1>4, <1>8 DEF FindKey, Continue, Kind, Step
<1>9. CASE MarkUsed(r)
  <2>1. UNCHANGED reply
    BY <1>9 DEF MarkUsed, Continue
  <2>2. pc'[r] = Admitted(r)
    BY <1>4, <1>9, StepTypes DEF MarkUsed, Continue
  <2>3. QED
    BY <1>2, <1>9, <2>1, <2>2 DEF Admitted
<1>10. CASE Read(r) \/ TryAgain(r) \/ AnswerKey(r) \/ Crash(r)
  BY <1>3, <1>10 DEF Read, TryAgain, AnswerKey, Crash, Kind
<1>11. CASE SaveProfile(r)
  <2>1. PICK kind \in {"updated", "logged in", "unauthorized"} : Reply(r, kind)
    BY <1>11 DEF SaveProfile
  <2>2. QED
    BY <1>3, <1>11, <2>1 DEF Kind
<1>12. CASE Generate(r) \/ InsertKey(r) \/ CommitKey(r)
  BY <1>2, <1>4, <1>12 DEF Generate, InsertKey, CommitKey, Continue, Step
<1>13. CASE FindOwnKey(r) \/ SaveRevoked(r)
  <2>1. data[r].auth # "key"
    BY <1>1, <1>13, DataType DEF FindOwnKey, SaveRevoked, SessionInv
  <2>2. QED
    BY <1>13, <2>1
<1>14. QED
  BY <1>5, <1>6, <1>7, <1>8, <1>9, <1>10, <1>11, <1>12, <1>13 DEF Statement

LEMMA UseStatement ==
    ASSUME IInv, Next, NEW r \in Request, Statement(r) \/ Crash(r)
    PROVE  UseInv(r)'
<1>1. TypeOK /\ SessionInv(r) /\ UseInv(r) /\ \A q \in Issuer : RowInv(q)
  BY DEF IInv
<1>2. target'[r] = target[r] /\ late'[r] = late[r] /\ UNCHANGED <<data, touched>>
  BY StatementFrame DEF Others, Own
<1>3. PICK q : q = target[r] /\ q = target'[r]
  BY <1>2
<1>4. late[r] => q # Nobody /\ Dead(q)'
  BY <1>1, <1>3, TargetShown, DeadKept DEF UseInv
<1>5. pc[r] # "idle"
  BY DEF Statement, Crash, CheckEmail, SocialAccount, InsertUser, InsertSubscription, CommitUser,
         LoadUser, FindKey, MarkUsed, Read, SaveProfile, Generate, InsertKey, TryAgain, CommitKey,
         AnswerKey, FindOwnKey, SaveRevoked
<1>6. reply'[r].kind = "revoked" => Dead(q)'
  <2>1. CASE FindOwnKey(r) /\ reply'[r].kind = "revoked"
    <3>1. q \in Issuer /\ UNCHANGED keys
      BY <1>3, <2>1, InSession DEF FindOwnKey, keyVars
    <3>2. reply[r].kind # "revoked"
      BY <1>1, <2>1 DEF FindOwnKey, SessionInv
    <3>3. ~Reply(r, "not found")
      <4>1. Reply(r, "not found") => reply'[r] = Answer("not found", Nobody)
        BY <1>1, EndsFrame DEF Reply
      <4>2. Answer("not found", Nobody).kind = "not found"
        BY DEF Answer
      <4>3. QED
        BY <2>1, <4>1, <4>2
    <3>4. ~Continue(r, "save revoked")
      BY <2>1, <3>2 DEF Continue
    <3>5. PICK p \in WithId(q) : ~keys[p].active
      BY <1>3, <2>1, <3>3, <3>4 DEF FindOwnKey
    <3>6. q \in touched \/ \A p2 \in WithId(q) : ~keys[p2].active
      BY <1>1, <3>1, <3>5 DEF RowInv
    <3>7. QED
      BY <1>2, <3>1, <3>6 DEF Dead, WithId
  <2>2. CASE SaveRevoked(r)
    <3>1. q \in Issuer
      BY <1>3, <2>2, InSession DEF SaveRevoked
    <3>2. \A p \in WithId(q) : keys'[p] = Revoked(r, keys[p]) /\ ~keys'[p].active
      BY <1>1, <1>3, <2>2, <3>1, IdTypes, SaveTypes DEF SaveRevoked
    <3>3. WithId(q)' = WithId(q)
      BY <1>1, <1>3, <2>2, <3>1, UpdatedRows DEF SaveRevoked, RowsKept
    <3>4. QED
      BY <3>2, <3>3 DEF Dead
  <2>3. QED
    BY <2>1, <2>2, KeyMoves
<1>7. ASSUME data[r].auth = "key", q \notin touched', late[r]
      PROVE  /\ pc'[r] \notin {"mark used", "read", "save profile"}
             /\ reply'[r].kind \notin {"ok", "updated"}
  <2>1. /\ pc[r] \notin {"mark used", "read", "save profile"}
        /\ \A p \in WithId(q) : ~keys[p].active
    BY <1>1, <1>2, <1>3, <1>7 DEF UseInv, Dead
  <2>2. FindKey(r) => pc'[r] # "mark used"
    <3>1. SUFFICES ASSUME FindKey(r), pc'[r] = "mark used"
                   PROVE  FALSE
      OBVIOUS
    <3>2. shown[q] \in Prefix
      BY <1>3, <3>1, InSession DEF FindKey
    <3>3. pc'[r] # "done"
      BY <3>1
    <3>4. keys[shown[q]].active /\ keys[shown[q]].by = q
      BY <1>1, <1>3, <3>1, <3>3, EndsFrame DEF FindKey, Reply
    <3>5. QED
      BY <2>1, <3>2, <3>4 DEF WithId
  <2>3. QED
    BY <1>7, <2>1, <2>2, KeyMoves DEF MarkUsed, Read, SaveProfile
<1>8. ASSUME data[r].auth = "key", q \notin touched',
             pc'[r] \in {"read", "save profile"} \/ reply'[r].kind \in {"ok", "updated"}
      PROVE  \A p \in WithId(q)' : keys'[p].used
  <2>1. CASE MarkUsed(r)
    <3>1. q \in Issuer
      BY <1>3, <2>1, InSession DEF MarkUsed
    <3>2. \A p \in WithId(q) : keys'[p] = MarkedUsed(r, keys[p]) /\ keys'[p].used
      BY <1>1, <1>3, <2>1, <3>1, IdTypes, SaveTypes DEF MarkUsed
    <3>3. WithId(q)' = WithId(q)
      BY <1>1, <1>3, <2>1, <3>1, UpdatedRows DEF MarkUsed, RowsKept
    <3>4. QED
      BY <3>2, <3>3
  <2>2. CASE Read(r) \/ SaveProfile(r)
    <3>1. pc[r] \in {"read", "save profile"} /\ UNCHANGED keys
      BY <2>2 DEF Read, SaveProfile, keyVars
    <3>2. \A p \in WithId(q) : keys[p].used
      BY <1>1, <1>2, <1>3, <1>8, <3>1 DEF UseInv
    <3>3. QED
      BY <3>1, <3>2 DEF WithId
  <2>3. QED
    BY <1>8, <2>1, <2>2, KeyMoves
<1>9. QED
  BY <1>2, <1>3, <1>4, <1>6, <1>7, <1>8 DEF UseInv, Dead, WithId

LEMMA NextUse ==
    ASSUME IInv, Next, NEW r \in Request
    PROVE  UseInv(r)'
<1>1. CASE AdminStep
  BY <1>1, AdminFrame, UseStable
<1>2. ASSUME NEW o \in Request, o # r, Begin(o) \/ Statement(o) \/ Crash(o)
      PROVE  UseInv(r)'
  <2>1. Others(o)
    BY <1>2, StatementFrame, BeginFrame DEF IInv
  <2>2. QED
    BY <1>2, <2>1, UseStable DEF Others
<1>3. QED
  BY <1>1, <1>2, UseBegin, UseStatement, NextCases

-----------------------------------------------------------------------------
(* Theorems.                                                               *)

LEMMA NextIInv == IInv /\ [Next]_vars => IInv'
<1>1. ASSUME IInv, UNCHANGED vars
      PROVE  IInv'
  <2> USE <1>1 DEF vars, userVars, keyVars, adminVars, requestVars, objectVars
  <2>1. TypeOK'
    BY NextType
  <2>2. UserInv'
    BY DEF IInv, UserInv
  <2>3. ASSUME NEW r \in Request
        PROVE  SessionInv(r)' /\ KeyInv(r)' /\ UseInv(r)'
    <3>1. SessionInv(r)'
      BY DEF IInv, SessionInv, NeedsKey
    <3>2. KeyInv(r)'
      <4>1. Made(r)' = Made(r)
        BY DEF Made, WithId
      <4>2. QED
        BY <4>1 DEF IInv, KeyInv
    <3>3. UseInv(r)'
      BY DEF IInv, UseInv, Dead, WithId
    <3>4. QED
      BY <3>1, <3>2, <3>3
  <2>4. ASSUME NEW q \in Issuer
        PROVE  RowInv(q)'
    BY DEF IInv, RowInv, WithId
  <2>5. QED
    BY <2>1, <2>2, <2>3, <2>4 DEF IInv
<1>2. ASSUME IInv, Next
      PROVE  IInv'
  BY <1>2, NextType, NextUserInv, NextSession, NextKey, NextUse, NextRow DEF IInv
<1>3. QED
  BY <1>1, <1>2

LEMMA IInvHolds == Spec => []IInv
  BY InitIInv, NextIInv, PTL DEF Spec

\* Rows, objects and answers have their types: no interleaving of the statements of
\* accounts/services.py, the authentication classes and the admin puts a null into
\* a profile or an answer of another kind.
THEOREM TypeCorrect == Spec => []TypeOK
<1>1. IInv => TypeOK
  BY DEF IInv
<1>2. QED
  BY <1>1, IInvHolds, PTL

\* A user that user_create or the Google login made has its subscription: both rows
\* are of one transaction, whatever fails or crashes within it.
THEOREM RegisteredHasSubscriptionHolds == Spec => []RegisteredHasSubscription
<1>1. IInv => RegisteredHasSubscription
  BY DEF IInv, UserInv, RegisteredHasSubscription
<1>2. QED
  BY <1>1, IInvHolds, PTL

\* Of any number of registrations that race for an address the unique index lets
\* one be answered 201, and the user is its.
THEOREM RegisteredOnceHolds == Spec => []RegisteredOnce
<1>1. IInv => RegisteredOnce
  BY DEF IInv, SessionInv, RegisteredOnce
<1>2. QED
  BY <1>1, IInvHolds, PTL

\* A key that api_key_create showed to a client stays in its row, and a creation
\* that failed left none, until the admin acts on the key.
THEOREM IssuedKeysKeptHolds == Spec => []IssuedKeysKept
<1>1. ASSUME IInv
      PROVE  IssuedKeysKept
  <2>1. \A q \in Issuer : shown[q] # Nobody /\ q \notin touched => keys[shown[q]].by = q
    BY <1>1 DEF IInv, RowInv
  <2>2. ASSUME NEW r \in Request, reply[r].kind = "error"
        PROVE  WithId(r) = {}
    <3>1. SessionInv(r) /\ KeyInv(r) /\ NoReply.kind = "none"
      BY <1>1 DEF IInv, NoReply, Answer
    <3>2. pc[r] = "done"
      BY <2>2, <3>1 DEF SessionInv
    <3>3. QED
      BY <2>2, <3>1, <3>2 DEF KeyInv, Made
  <2>3. QED
    BY <2>1, <2>2 DEF IssuedKeysKept
<1>2. QED
  BY <1>1, IInvHolds, PTL

\* Once api_key_revoke answered, the key admits no request that begins later, however
\* many requests are recording a use of it.
THEOREM RevokedIsRefusedHolds == Spec => []RevokedIsRefused
<1>1. IInv => RevokedIsRefused
  BY DEF IInv, UseInv, RevokedIsRefused, Admissions
<1>2. QED
  BY <1>1, IInvHolds, PTL

\* What api_key_mark_used wrote stays, whatever revocations save the row meanwhile.
THEOREM UseIsMarkedHolds == Spec => []UseIsMarked
<1>1. IInv => UseIsMarked
  BY DEF IInv, UseInv, UseIsMarked, Admissions
<1>2. QED
  BY <1>1, IInvHolds, PTL

\* The save of user_update_profile and of pre_social_login gives a field the value
\* asked for, or leaves it as it is in the row.
THEOREM OmittedKeptHolds == Spec => OmittedKept
<1> DEFINE Kept(r) == pc[r] = "save profile" /\ pc'[r] = "done" /\ reply'[r] # NoReply =>
                         \A f \in Field : user'.profile[f] \in
                            {user.profile[f]} \cup ({data[r].asked[f]} \ {Omitted})
<1>1. ASSUME IInv, NEW r \in Request, SaveProfile(r)
      PROVE  Kept(r)
  <2>1. user \in User
    BY <1>1, InSession DEF SaveProfile, Authenticated
  <2>2. CASE user' = user
    BY <2>2
  <2>3. CASE user' = ProfileSaved(r)
    <3>1. user'.profile = [f \in Field |-> IF f \in UpdateFields(r) THEN data[r].asked[f]
                                           ELSE user.profile[f]]
      BY <2>1, <2>3 DEF ProfileSaved, User
    <3>2. \A f \in UpdateFields(r) : data[r].asked[f] # Omitted
      BY DEF UpdateFields
    <3>3. QED
      BY <3>1, <3>2
  <2>4. QED
    BY <1>1, <2>2, <2>3 DEF SaveProfile
<1>2. ASSUME IInv, NEW r \in Request, NEW o \in Request, Begin(o) \/ Statement(o) \/ Crash(o)
      PROVE  Kept(r)
  <2>1. CASE o # r
    <3>1. Others(o)
      BY <1>2, StatementFrame, BeginFrame DEF IInv
    <3>2. pc'[r] = pc[r]
      BY <2>1, <3>1 DEF Others
    <3>3. QED
      BY <3>2
  <2>2. CASE o = r /\ pc[r] = "save profile"
    <3>1. SaveProfile(r) \/ Crash(r)
      BY <1>2, <2>2
      DEF Statement, Begin, CheckEmail, SocialAccount, InsertUser, InsertSubscription, CommitUser,
          LoadUser, FindKey, MarkUsed, Read, Generate, InsertKey, TryAgain, CommitKey,
          AnswerKey, FindOwnKey, SaveRevoked
    <3>2. Crash(r) => reply'[r] = NoReply
      <4>1. TypeOK
        BY <1>2 DEF IInv
      <4>2. Crash(r) => Finish(r, NoReply)
        BY DEF Crash, Reply, NoReply
      <4>3. QED
        BY <4>1, <4>2, EndsFrame
    <3>3. QED
      BY <1>1, <1>2, <3>1, <3>2
  <2>3. QED
    BY <2>1, <2>2
<1>3. ASSUME IInv, AdminStep, NEW r \in Request
      PROVE  Kept(r)
  BY <1>3, AdminFrame
<1>4. IInv /\ [Next]_vars => [\A r \in Request : Kept(r)]_vars
  BY <1>2, <1>3, NextCases
<1>5. QED
  BY <1>4, IInvHolds, PTL DEF Spec, OmittedKept
=============================================================================
