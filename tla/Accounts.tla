------------------------------- MODULE Accounts -------------------------------
(***************************************************************************)
(* The account behind one e-mail address: registration with its default    *)
(* subscription (user_create and the Google login), the profile, and API   *)
(* keys, which are created, used to authenticate and revoked, against one  *)
(* another and against the admin.                                          *)
(*                                                                         *)
(* Each action is one statement or one commit.  A row is read into a model *)
(* object and saved later; update_fields says which columns a save writes. *)
(***************************************************************************)
EXTENDS Naturals, FiniteSets

CONSTANTS
    Request,      \* HTTP requests and calls of user_create
    Loads,        \* the combinations of requests, a subset of [Request -> Data]
    Value, Blank, \* values of full_name and avatar_url, and the empty one
    Prefix,       \* values of generate_api_key_prefix
    Older,        \* the request that created the user and the key of Init
    UserForms,    \* what administrators fill into the form of a user
    MaxEdits      \* bound on edits

Nobody  == "nobody"
Omitted == "omitted"

Field  == {"name", "avatar"}
Issuer == Request \cup {Older}

\* "me" is any request that only reads. An empty value in a Google profile is not
\* compared, like a field that a PATCH omits.
Data == [op: {"register", "google", "patch", "create key", "revoke", "me"},
         auth: {"none", "jwt", "key"},
         asked: [Field -> Value \cup {Omitted}]]

ASSUME AccountAssumption ==
    /\ Loads \subseteq [Request -> Data]
    /\ \A load \in Loads, r \in Request :
          LET d == load[r] IN
          /\ d.op \in {"register", "google"} <=> d.auth = "none"
          /\ d.op \in {"create key", "revoke"} => d.auth = "jwt"
          /\ d.op = "patch" => \E f \in Field : d.asked[f] # Omitted
          /\ d.op = "google" => \A f \in Field : d.asked[f] # Blank
    /\ UserForms \subseteq [active: BOOLEAN, profile: [Field -> Value]]
    /\ MaxEdits \in Nat
    /\ Blank \in Value /\ Omitted \notin Value
    /\ Older \notin Request
    /\ Nobody \notin Issuer \cup Prefix /\ Omitted \notin Issuer /\ "email" \notin Prefix

VARIABLES
    user,        \* the committed User row
    social,      \* whether a SocialAccount links it to Google
    subscribed,  \* whether it has a Subscription row
    freePlan,    \* whether the Free plan is active
    keys,        \* [Prefix -> committed APIKey row]
    entry,       \* [Index -> the transaction with an uncommitted entry in it]
    pc,          \* [Request -> next statement]
    data,        \* [Request -> what it asks for]
    target,      \* [Request -> the key it presents or revokes]
    late,        \* [Request -> whether the revocation of that key was answered before]
    copy,        \* [Request -> the User object it works with]
    keyCopy,     \* [Request -> the APIKey object]
    prefix,      \* [Request -> generated prefix]
    reply,       \* [Request -> answer]
    edits,       \* acts of administrators so far, SaveForm not counted
    form,        \* the APIKey object of the administrator's change view
    shown,       \* [Issuer -> prefix of the key its client was shown], an observation
    touched      \* keys that the admin saved or deleted, an observation

userVars    == <<user, social, subscribed>>
keyVars     == <<keys, touched>>
adminVars   == <<edits, form>>
objectVars  == <<copy, keyCopy, prefix>>
requestVars == <<pc, target, late, objectVars, reply>>
vars == <<userVars, freePlan, keyVars, adminVars, entry, data, requestVars, shown>>

-----------------------------------------------------------------------------
(* Rows.  A row and the secret of a key are named by the request that made *)
(* it; so is the time of a revocation.                                     *)

User   == [by: Issuer \cup {Nobody}, active: BOOLEAN, profile: [Field -> Value]]
NoUser == [by |-> Omitted, active |-> FALSE, profile |-> [f \in Field |-> Blank]]
APIKey == [by: Issuer, active: BOOLEAN, used: BOOLEAN, revoked: Request \cup {Nobody}]
NoKey  == [by |-> Nobody, active |-> FALSE, used |-> FALSE, revoked |-> Nobody]

\* full_name and avatar_url are empty by default.
NewUser(r) ==
    [by |-> r, active |-> TRUE,
     profile |-> [f \in Field |-> IF data[r].asked[f] = Omitted THEN Blank
                                                                ELSE data[r].asked[f]]]
NewKey(q) == [by |-> q, active |-> TRUE, used |-> FALSE, revoked |-> Nobody]

Form   == [prefix: Prefix, row: APIKey]
NoForm == [prefix |-> Nobody, row |-> NoKey]

Index == {"email"} \cup Prefix
Step  == {"idle", "check email", "social account", "insert user", "insert subscription",
          "commit user", "load user", "find key", "mark used", "save profile",
          "generate", "insert key", "try again", "commit key", "answer key", "find own key",
          "save revoked", "read", "done"}
Kind  == {"none", "registered", "logged in", "exists", "unauthorized", "not found",
          "updated", "key", "ok", "revoked", "error"}

Answer(kind, time) == [kind |-> kind, revoked |-> time]
NoReply            == Answer("none", Nobody)

\* The unique index on email sees the committed row. The mutant has no index.
NoUniqueEmail(r) == FALSE
EmailTaken(r)    == user # NoUser

\* The same for the unique index on prefix.
NoUniquePrefix(r) == FALSE
PrefixTaken(r)    == keys[prefix[r]] # NoKey

\* What others see of a user that is inserted: nothing, as it is in a transaction.
\* The mutant commits every statement.
Autocommitted(r) == NewUser(r)
SeenOfInsert(r)  == user

\* update_fields of user_update_profile and pre_social_login: the fields asked
\* for that differ from the object. The mutant takes an omitted field for None.
OmittedIsNone(r) == {f \in Field : data[r].asked[f] # copy[r].profile[f]}
UpdateFields(r)  == {f \in Field : data[r].asked[f] \notin {Omitted, copy[r].profile[f]}}

\* save(update_fields) against a save() of the whole object.
WholeProfile(r) ==
    [user EXCEPT !.profile = [f \in Field |-> IF f \in UpdateFields(r)
                                              THEN data[r].asked[f] ELSE copy[r].profile[f]]]
ProfileSaved(r) ==
    [user EXCEPT !.profile = [f \in Field |-> IF f \in UpdateFields(r)
                                              THEN data[r].asked[f] ELSE user.profile[f]]]

\* api_key_mark_used: an UPDATE of last_used_at alone; the mutant saves the object.
MarkedByObject(r, row) == [keyCopy[r] EXCEPT !.used = TRUE]
MarkedUsed(r, row)     == [row EXCEPT !.used = TRUE]

\* api_key_revoke: is_active and revoked_at; the mutant saves the object.
RevokedByObject(r, row) == [keyCopy[r] EXCEPT !.active = FALSE, !.revoked = r]
Revoked(r, row)         == [row EXCEPT !.active = FALSE, !.revoked = r]

Goto(r, step) == pc' = [pc EXCEPT ![r] = step]

-----------------------------------------------------------------------------
Init ==
    /\ user \in {NoUser, [by |-> Older, active |-> TRUE, profile |-> NoUser.profile]}
    /\ social \in {FALSE, user # NoUser}
    /\ subscribed = (user # NoUser)
    /\ freePlan = TRUE
    /\ shown \in [Issuer -> Prefix \cup {Nobody}]
    /\ \A q \in Issuer : shown[q] # Nobody => q = Older /\ user # NoUser
    /\ keys = [p \in Prefix |-> IF p = shown[Older] THEN NewKey(Older) ELSE NoKey]
    /\ entry = [i \in Index |-> Nobody]
    /\ pc = [r \in Request |-> "idle"]
    /\ data \in Loads
    /\ target = [r \in Request |-> Nobody]
    /\ late = [r \in Request |-> FALSE]
    /\ copy = [r \in Request |-> NoUser]
    /\ keyCopy = [r \in Request |-> NoKey]
    /\ prefix = [r \in Request |-> Nobody]
    /\ reply = [r \in Request |-> NoReply]
    /\ edits = 0
    /\ form = NoForm
    /\ touched = {}

\* The request is over, and its objects and uncommitted index entries with it.
Finish(r, answer) ==
    /\ reply' = [reply EXCEPT ![r] = answer]
    /\ Goto(r, "done")
    /\ entry' = [i \in Index |-> IF entry[i] = r THEN Nobody ELSE entry[i]]
    /\ copy' = [copy EXCEPT ![r] = NoUser]
    /\ keyCopy' = [keyCopy EXCEPT ![r] = NoKey]
    /\ prefix' = [prefix EXCEPT ![r] = Nobody]

Reply(r, kind) == Finish(r, Answer(kind, Nobody))
Continue(r, step) == Goto(r, step) /\ UNCHANGED <<entry, reply>>

\* A client presents or revokes a key that some client was shown.
NeedsKey(r) == data[r].auth = "key" \/ data[r].op = "revoke"

FirstStep(r) ==
    IF data[r].auth = "jwt" THEN "load user"
    ELSE IF data[r].auth = "key" THEN "find key"
    ELSE IF data[r].op = "google" THEN "social account"
    ELSE "check email"

Begin(r) ==
    /\ pc[r] = "idle"
    /\ \/ /\ NeedsKey(r)
          /\ \E q \in Issuer :
                /\ shown[q] # Nobody
                /\ target' = [target EXCEPT ![r] = q]
                /\ late' = [late EXCEPT ![r] = \E o \in Request :
                                target[o] = q /\ reply[o].kind = "revoked"]
       \/ ~NeedsKey(r) /\ UNCHANGED <<target, late>>
    /\ Goto(r, FirstStep(r))
    /\ UNCHANGED <<userVars, freePlan, keyVars, adminVars, entry, data, objectVars, reply, shown>>

\* What follows authentication.
Admitted(r) ==
    IF data[r].op = "patch" THEN "save profile"
    ELSE IF data[r].op = "create key" THEN "generate"
    ELSE IF data[r].op = "revoke" THEN "find own key"
    ELSE "read"

-----------------------------------------------------------------------------
(* user_create, and the login with Google.                                 *)

CheckEmail(r) ==
    /\ pc[r] = "check email"
    /\ IF user # NoUser THEN Reply(r, "exists")
                        ELSE Continue(r, "insert user") /\ UNCHANGED objectVars
    /\ UNCHANGED <<userVars, freePlan, keyVars, adminVars, data, target, late, shown>>

\* allauth finds the SocialAccount and its user, or signs a new one up unless
\* the address is taken.
SocialAccount(r) ==
    /\ pc[r] = "social account"
    /\ \/ /\ social
          /\ copy' = [copy EXCEPT ![r] = user]
          /\ Continue(r, "save profile")
          /\ UNCHANGED <<keyCopy, prefix>>
       \/ ~social /\ user # NoUser /\ Reply(r, "exists")
       \/ ~social /\ user = NoUser /\ Continue(r, "insert user") /\ UNCHANGED objectVars
    /\ UNCHANGED <<userVars, freePlan, keyVars, adminVars, data, target, late, shown>>

\* INSERT: it waits for an uncommitted user with the address.
InsertUser(r) ==
    /\ pc[r] = "insert user"
    /\ entry["email"] = Nobody
    /\ IF EmailTaken(r)
       THEN Reply(r, "error") /\ UNCHANGED user
       ELSE /\ entry' = [entry EXCEPT !["email"] = r]
            /\ user' = SeenOfInsert(r)
            /\ Goto(r, "insert subscription")
            /\ UNCHANGED <<objectVars, reply>>
    /\ UNCHANGED <<social, subscribed, freePlan, keyVars, adminVars, data, target, late, shown>>

\* subscription_create_default: RuntimeError if there is no active Free plan.
InsertSubscription(r) ==
    /\ pc[r] = "insert subscription"
    /\ IF freePlan THEN Continue(r, "commit user") /\ UNCHANGED objectVars
                   ELSE Reply(r, "error")
    /\ UNCHANGED <<userVars, freePlan, keyVars, adminVars, data, target, late, shown>>

CommitUser(r) ==
    /\ pc[r] = "commit user"
    /\ user' = NewUser(r)
    /\ social' = (data[r].op = "google")
    /\ subscribed' = TRUE
    /\ Reply(r, "registered")
    /\ UNCHANGED <<freePlan, keyVars, adminVars, data, target, late, shown>>

-----------------------------------------------------------------------------
(* Authentication.                                                         *)

\* JWTAuthentication reads the user and refuses an inactive one.
LoadUser(r) ==
    /\ pc[r] = "load user"
    /\ IF user.active
       THEN /\ copy' = [copy EXCEPT ![r] = user]
            /\ Continue(r, Admitted(r))
            /\ UNCHANGED <<keyCopy, prefix>>
       ELSE Reply(r, "unauthorized")
    /\ UNCHANGED <<userVars, freePlan, keyVars, adminVars, data, target, late, shown>>

\* api_key_get_active_by_prefix with the owner joined, and the secret.
FindKey(r) ==
    LET row == keys[shown[target[r]]] IN
    /\ pc[r] = "find key"
    /\ IF row.active /\ row.by = target[r]
       THEN /\ keyCopy' = [keyCopy EXCEPT ![r] = row]
            /\ copy' = [copy EXCEPT ![r] = user]
            /\ Continue(r, "mark used")
            /\ UNCHANGED prefix
       ELSE Reply(r, "unauthorized")
    /\ UNCHANGED <<userVars, freePlan, keyVars, adminVars, data, target, late, shown>>

\* WHERE id = ...: one row, or none once it was deleted.
WithId(q) == {p \in Prefix : keys[p].by = q}

MarkUsed(r) ==
    /\ pc[r] = "mark used"
    /\ keys' = [p \in Prefix |-> IF p \in WithId(target[r]) THEN MarkedUsed(r, keys[p])
                                                           ELSE keys[p]]
    /\ Continue(r, Admitted(r))
    /\ UNCHANGED <<userVars, freePlan, touched, adminVars, data, target, late, objectVars, shown>>

Read(r) ==
    /\ pc[r] = "read"
    /\ Reply(r, "ok")
    /\ UNCHANGED <<userVars, freePlan, keyVars, adminVars, data, target, late, shown>>

\* user_update_profile and pre_social_login: no save when nothing differs. allauth
\* looks at is_active of the object after pre_social_login.
SaveProfile(r) ==
    /\ pc[r] = "save profile"
    /\ user' = IF UpdateFields(r) = {} THEN user ELSE ProfileSaved(r)
    /\ Reply(r, IF data[r].op = "patch" THEN "updated"
                 ELSE IF copy[r].active THEN "logged in" ELSE "unauthorized")
    /\ UNCHANGED <<social, subscribed, freePlan, keyVars, adminVars, data, target, late, shown>>

-----------------------------------------------------------------------------
(* api_key_create and api_key_revoke.                                      *)

Generate(r) ==
    /\ pc[r] = "generate"
    /\ \E p \in Prefix : prefix' = [prefix EXCEPT ![r] = p]
    /\ Continue(r, "insert key")
    /\ UNCHANGED <<userVars, freePlan, keyVars, adminVars, data, target, late, copy, keyCopy, shown>>

\* The loop of API_KEY_GENERATION_ATTEMPTS catches the IntegrityError, but the
\* atomic block has no savepoint: Django marks it for rollback.
InsertKey(r) ==
    /\ pc[r] = "insert key"
    /\ entry[prefix[r]] = Nobody
    /\ \/ /\ PrefixTaken(r)
          /\ Continue(r, "try again")
       \/ /\ ~PrefixTaken(r)
          /\ entry' = [entry EXCEPT ![prefix[r]] = r]
          /\ Goto(r, "commit key")
          /\ UNCHANGED reply
    /\ UNCHANGED <<userVars, freePlan, keyVars, adminVars, data, target, late, objectVars, shown>>

\* The next INSERT raises TransactionManagementError before it is sent.
TryAgain(r) ==
    /\ pc[r] = "try again"
    /\ Reply(r, "error")
    /\ UNCHANGED <<userVars, freePlan, keyVars, adminVars, data, target, late, shown>>

CommitKey(r) ==
    /\ pc[r] = "commit key"
    /\ keys' = [keys EXCEPT ![prefix[r]] = NewKey(r)]
    /\ entry' = [entry EXCEPT ![prefix[r]] = Nobody]
    /\ Goto(r, "answer key")
    /\ UNCHANGED <<userVars, freePlan, touched, adminVars, data, target, late, objectVars, reply, shown>>

\* The only time the secret is shown.
AnswerKey(r) ==
    /\ pc[r] = "answer key"
    /\ shown' = [shown EXCEPT ![r] = prefix[r]]
    /\ Reply(r, "key")
    /\ UNCHANGED <<userVars, freePlan, keyVars, adminVars, data, target, late>>

\* api_key_get_for_user; a key that is not active is answered as it is.
FindOwnKey(r) ==
    /\ pc[r] = "find own key"
    /\ \/ WithId(target[r]) = {} /\ Reply(r, "not found")
       \/ \E p \in WithId(target[r]) :
             \/ /\ ~keys[p].active
                /\ Finish(r, Answer("revoked", keys[p].revoked))
             \/ /\ keys[p].active
                /\ keyCopy' = [keyCopy EXCEPT ![r] = keys[p]]
                /\ Continue(r, "save revoked")
                /\ UNCHANGED <<copy, prefix>>
    /\ UNCHANGED <<userVars, freePlan, keyVars, adminVars, data, target, late, shown>>

\* save(update_fields) raises DatabaseError when the row is gone.
SaveRevoked(r) ==
    /\ pc[r] = "save revoked"
    /\ keys' = [p \in Prefix |-> IF p \in WithId(target[r]) THEN Revoked(r, keys[p])
                                                           ELSE keys[p]]
    /\ IF WithId(target[r]) = {} THEN Reply(r, "error")
                                 ELSE Finish(r, Answer("revoked", r))
    /\ UNCHANGED <<userVars, freePlan, touched, adminVars, data, target, late, shown>>

\* The web process is killed.
Crash(r) ==
    /\ pc[r] \notin {"idle", "done"}
    /\ Reply(r, "none")
    /\ UNCHANGED <<userVars, freePlan, keyVars, adminVars, data, target, late, shown>>

-----------------------------------------------------------------------------
(* The administrator, and whoever else.                                    *)

Act == edits < MaxEdits /\ edits' = edits + 1

ToggleFreePlan ==
    /\ Act
    /\ freePlan' = ~freePlan
    /\ UNCHANGED <<userVars, keyVars, form, entry, data, requestVars, shown>>

\* user_deactivate, user_activate: save(update_fields=["is_active", ...]).
SetActive(active) ==
    /\ Act
    /\ user # NoUser
    /\ user' = [user EXCEPT !.active = active]
    /\ UNCHANGED <<social, subscribed, freePlan, keyVars, form, entry, data, requestVars, shown>>

\* The admin's form for a user saves every column.
EditUser ==
    /\ Act
    /\ user # NoUser
    /\ \E f \in UserForms : user' = [user EXCEPT !.active = f.active, !.profile = f.profile]
    /\ UNCHANGED <<social, subscribed, freePlan, keyVars, form, entry, data, requestVars, shown>>

\* The POST of the admin's form for a key reads the object ...
LoadForm(p) ==
    /\ Act
    /\ form = NoForm
    /\ keys[p] # NoKey
    /\ form' = [prefix |-> p, row |-> keys[p]]
    /\ UNCHANGED <<userVars, freePlan, keyVars, entry, data, requestVars, shown>>

\* ... and saves every column of it, with the is_active the browser sent, as old as
\* the page: save() inserts the row again if it is gone, unless its prefix is taken.
SaveForm(active) ==
    LET id == form.row.by IN
    /\ form # NoForm
    /\ entry[form.prefix] = Nobody
    /\ keys' = IF keys[form.prefix].by \in {id, Nobody}
               THEN [keys EXCEPT ![form.prefix] = [form.row EXCEPT !.active = active]]
               ELSE keys
    /\ touched' = touched \cup {id}
    /\ form' = NoForm
    /\ UNCHANGED <<userVars, freePlan, edits, entry, data, requestVars, shown>>

DeleteKey(p) ==
    /\ Act
    /\ keys[p] # NoKey
    /\ keys' = [keys EXCEPT ![p] = NoKey]
    /\ touched' = touched \cup {keys[p].by}
    /\ UNCHANGED <<userVars, freePlan, form, entry, data, requestVars, shown>>

\* allauth's own sign-up page under auth/: no adapter of the repository runs.
Signup ==
    /\ user = NoUser
    /\ entry["email"] = Nobody
    /\ user' = [by |-> Nobody, active |-> TRUE, profile |-> NoUser.profile]
    /\ UNCHANGED <<social, subscribed, freePlan, keyVars, adminVars, entry, data, requestVars, shown>>

Statement(r) ==
    \/ CheckEmail(r) \/ SocialAccount(r) \/ InsertUser(r) \/ InsertSubscription(r)
    \/ CommitUser(r) \/ LoadUser(r) \/ FindKey(r) \/ MarkUsed(r) \/ Read(r) \/ SaveProfile(r)
    \/ Generate(r) \/ InsertKey(r) \/ TryAgain(r) \/ CommitKey(r) \/ AnswerKey(r)
    \/ FindOwnKey(r) \/ SaveRevoked(r)

Next ==
    \/ \E r \in Request : Begin(r) \/ Statement(r) \/ Crash(r)
    \/ \E active \in BOOLEAN : SetActive(active) \/ SaveForm(active)
    \/ \E p \in Prefix : LoadForm(p) \/ DeleteKey(p)
    \/ ToggleFreePlan \/ EditUser \/ Signup

Spec == Init /\ [][Next]_vars

-----------------------------------------------------------------------------
(* Properties.                                                             *)

\* Rows, objects and answers have their types; a profile never becomes null.
TypeOK ==
    /\ user \in User \cup {NoUser}
    /\ social \in BOOLEAN /\ subscribed \in BOOLEAN /\ freePlan \in BOOLEAN
    /\ keys \in [Prefix -> APIKey \cup {NoKey}]
    /\ entry \in [Index -> Request \cup {Nobody}]
    /\ pc \in [Request -> Step]
    /\ data \in Loads
    /\ target \in [Request -> Issuer \cup {Nobody}]
    /\ late \in [Request -> BOOLEAN]
    /\ copy \in [Request -> User \cup {NoUser}]
    /\ keyCopy \in [Request -> APIKey \cup {NoKey}]
    /\ prefix \in [Request -> Prefix \cup {Nobody}]
    /\ reply \in [Request -> [kind: Kind, revoked: Request \cup {Nobody}]]
    /\ edits \in 0..MaxEdits
    /\ form \in Form \cup {NoForm}
    /\ shown \in [Issuer -> Prefix \cup {Nobody}]
    /\ touched \subseteq Issuer

\* A user that user_create or the Google login made is never seen without its
\* subscription, though a crash or a missing Free plan may come between the two.
RegisteredHasSubscription == user.by \in Issuer => subscribed

\* Of registrations and logins that race for an address one makes the user, and
\* the others are told so.
RegisteredOnce ==
    \A r \in Request : reply[r].kind = "registered" => user.by = r

\* A PATCH leaves a field it omits as it is at that moment, not as it was when
\* the request was authenticated, and a field it names gets no other value.
OmittedKept ==
    [][\A r \in Request : pc[r] = "save profile" /\ pc'[r] = "done" /\ reply'[r] # NoReply =>
          \A f \in Field :
             user'.profile[f] \in {user.profile[f]} \cup ({data[r].asked[f]} \ {Omitted})]_vars

Admissions == {r \in Request : data[r].auth = "key" /\ reply[r].kind \in {"ok", "updated"}}

\* Once a revocation was answered no request that begins later is admitted by
\* the key, whatever uses of it were being recorded, until the admin acts on it.
RevokedIsRefused ==
    \A r \in Admissions : late[r] => target[r] \in touched

\* A key that was shown to a client stays its row, and a creation that failed
\* leaves none.
IssuedKeysKept ==
    /\ \A q \in Issuer : shown[q] # Nobody /\ q \notin touched => keys[shown[q]].by = q
    /\ \A r \in Request : reply[r].kind = "error" => WithId(r) = {}

\* A use of a key stays recorded, whatever revocation was under way.
UseIsMarked ==
    \A r \in Admissions : target[r] \notin touched =>
        \A p \in WithId(target[r]) : keys[p].used

-----------------------------------------------------------------------------
(* Expectations the code does not meet.                                    *)

\* Every user has a subscription.
EveryUserHasSubscription == user # NoUser => subscribed

\* api_key_create makes API_KEY_GENERATION_ATTEMPTS attempts: a prefix that is
\* taken is no error.
CollisionIsRetried ==
    \A r \in Request : data[r].op = "create key" => reply[r].kind # "error"

\* The revocation of a key is idempotent: its time stays that of the first.
RevokedAtKept ==
    [][\A p \in Prefix : keys[p].revoked # Nobody /\ keys'[p].by = keys[p].by =>
          keys'[p].revoked = keys[p].revoked]_vars

\* A revocation that was answered stands, also against the POST of an admin's form.
RevocationStands ==
    \A r \in Request : reply[r].kind = "revoked" =>
        \A p \in WithId(target[r]) : ~keys[p].active
=============================================================================
