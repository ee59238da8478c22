-------------------------- MODULE ShortLinkRedirect --------------------------
(***************************************************************************)
(* GET /{short_code}: the redirect looks the code up in the Redis cache,   *)
(* then in the database, and stores what it found; PATCH, DELETE and POST  *)
(* of a link and the deactivation task change the row, commit, and only    *)
(* then (on_commit) delete the cache entry.                                *)
(*                                                                         *)
(* Times are relative: expires_at and the TTL of an entry count down with  *)
(* Tick, a unit longer than a redirect request. The fields of a link no    *)
(* redirect depends on (title, owner) are left out.                        *)
(***************************************************************************)
EXTENDS Naturals

CONSTANTS
    Code, Url,
    Reader,       \* redirect requests in progress at a time; each slot is reused
    Writer,       \* owners' requests, each made once
    CacheKey,
    Fold,         \* [Code -> CacheKey]: codes that differ in case share a key
    Lifetime,     \* the values of expires_at a link is given, in ticks
    Patches,      \* the PATCH bodies clients send
    Timeout,      \* SHORT_LINK_CACHE_TIMEOUT
    MissTimeout,  \* the timeout of a cached miss
    MaxEdits,     \* bound on the changes made in the admin
    MayFail,      \* whether Redis calls fail and processes are killed
    Never,        \* expires_at is null
    Keep          \* a field a PATCH does not name

ASSUME LifetimeAssumption ==
    /\ Never \notin Nat /\ Keep \notin (Nat \cup Url \cup {Never} \cup BOOLEAN)
    /\ Lifetime \subseteq (Nat \ {0}) \cup {Never}
    /\ Code # {} /\ Fold \in [Code -> CacheKey]
    /\ Timeout \in Nat \ {0} /\ MissTimeout \in Nat \ {0}
    /\ MaxEdits \in Nat /\ MayFail \in BOOLEAN
\* The serializer checks what a body names: an expires_at lies in the future.
ASSUME PatchesAssumption ==
    Patches \subseteq [url: Url \cup {Keep}, active: BOOLEAN \cup {Keep},
                      left: (Nat \ {0}) \cup {Never, Keep}]

VARIABLES
    rows,       \* [Code -> the committed ShortLink row]
    cache,      \* [CacheKey -> Entry]
    rpc,        \* [Reader -> next step of the redirect view]
    target,     \* [Reader -> the code asked for]
    found,      \* [Reader -> what it read, then what it answers]
    late,       \* [Reader -> whether a tick passed since it began]
    wpc, subject, patch, copy,  \* [Writer -> next step, code, body, link object]
    batch,      \* the links short_link_deactivate_expired has listed
    tpc,        \* its next step
    since,      \* [Code -> ticks since its row changed], an observation
    edits       \* changes made in the admin so far

readerVars == <<rpc, target, found, late>>
writerVars == <<wpc, subject, patch, copy>>
taskVars   == <<batch, tpc>>
vars == <<rows, cache, readerVars, writerVars, taskVars, since, edits>>

-----------------------------------------------------------------------------
(* Rows, entries and time.                                                 *)

Seed    == "seed"
LinkId  == Code \X (Writer \cup {Seed})
NoId    == <<>>
Left    == Nat \cup {Never}

\* What short_link_get_redirectable_by_code returns, or None.
Found    == [id: LinkId, url: Url, left: Left]
NotFound == [id |-> NoId, url |-> Keep, left |-> Never]

Row   == [id: LinkId, url: Url, active: BOOLEAN, left: Left]
NoRow == [id |-> NoId, url |-> Keep, active |-> FALSE, left |-> Never]

Entry   == [what: {"link", "miss", "nothing"}, link: Found \cup {NotFound}, ttl: Nat]
Nothing == [what |-> "nothing", link |-> NotFound, ttl |-> 0]

NoPatch == [url |-> Keep, active |-> Keep, left |-> Keep]

Exists(c) == rows[c] # NoRow

\* _short_link_get_redirectable_from_db: the exact code, active, not expired.
Redirectable(c) ==
    IF rows[c].active /\ rows[c].left # 0
    THEN [id |-> rows[c].id, url |-> rows[c].url, left |-> rows[c].left]
    ELSE NotFound

\* get_redirect_cache_timeout: never zero, which Redis would not accept.
RedirectTimeout(left) ==
    CASE left = Never        -> Timeout
      [] left = 0            -> 1
      [] left \in Nat \ {0} -> IF left < Timeout THEN left ELSE Timeout

LongMiss(link) ==   \* mutant: a miss is kept as long as a link
    IF link = NotFound
    THEN [what |-> "miss", link |-> NotFound, ttl |-> Timeout]
    ELSE [what |-> "link", link |-> link, ttl |-> RedirectTimeout(link.left)]

EntryFor(link) ==
    IF link = NotFound
    THEN [what |-> "miss", link |-> NotFound, ttl |-> MissTimeout]
    ELSE [what |-> "link", link |-> link, ttl |-> RedirectTimeout(link.left)]

\* IGNORE_EXCEPTIONS: a call to Redis that fails is one that does nothing.
Set(k, entry) ==
    \/ cache' = [cache EXCEPT ![k] = entry]
    \/ MayFail /\ UNCHANGED cache
Delete(k) == Set(k, Nothing)

MaxSince == Timeout + MissTimeout + 1
Later(left) == IF left \in {0, Never} THEN left ELSE left - 1
Aged(entry) ==
    IF entry.ttl <= 1 THEN Nothing
    ELSE [entry EXCEPT !.ttl = @ - 1, !.link.left = Later(@)]

-----------------------------------------------------------------------------
Init ==
    /\ rows \in [Code -> {NoRow} \cup [id: LinkId, url: Url, active: {TRUE}, left: Lifetime]]
    /\ \A c \in Code : rows[c] # NoRow => rows[c].id = <<c, Seed>>
    /\ cache = [k \in CacheKey |-> Nothing]
    /\ rpc = [r \in Reader |-> "idle"]
    /\ target = [r \in Reader |-> CHOOSE c \in Code : TRUE]
    /\ found = [r \in Reader |-> NotFound]
    /\ late = [r \in Reader |-> FALSE]
    /\ wpc = [w \in Writer |-> "idle"]
    /\ subject = [w \in Writer |-> CHOOSE c \in Code : TRUE]
    /\ patch = [w \in Writer |-> NoPatch]
    /\ copy = [w \in Writer |-> NoRow]
    /\ batch = {}
    /\ tpc = "idle"
    /\ since = [c \in Code |-> MaxSince]
    /\ edits = 0

-----------------------------------------------------------------------------
(* short_link_get_redirectable_by_code.                                    *)

Goto(r, step)   == rpc' = [rpc EXCEPT ![r] = step]
Answer(r, link) == Goto(r, "answer") /\ found' = [found EXCEPT ![r] = link]

\* The expires_at of a hit is checked again. The mutant trusts the TTL.
TrustTTL(link) == TRUE
Live(link)     == link.left # 0

\* Mutant: every hit renews the entry.
SlidingGet(r, c) ==
    LET entry == cache[Fold[c]] IN
    /\ rpc[r] = "idle"
    /\ target' = [target EXCEPT ![r] = c]
    /\ IF entry = Nothing
       THEN Goto(r, "read") /\ UNCHANGED <<found, cache>>
       ELSE Answer(r, entry.link) /\ cache' = [cache EXCEPT ![Fold[c]].ttl = Timeout]
    /\ UNCHANGED <<rows, late, writerVars, taskVars, since, edits>>

\* cache.get: a miss is answered at once, a live link too; an expired one is
\* dropped; nothing there, or a failing Redis, leads to the database.
GetCached(r, c) ==
    LET entry == cache[Fold[c]] IN
    /\ rpc[r] = "idle"
    /\ target' = [target EXCEPT ![r] = c]
    /\ \/ entry.what = "miss" /\ Answer(r, NotFound)
       \/ entry.what = "link" /\ Live(entry.link) /\ Answer(r, entry.link)
       \/ entry.what = "link" /\ ~Live(entry.link) /\ Goto(r, "drop") /\ UNCHANGED found
       \/ (entry = Nothing \/ MayFail) /\ Goto(r, "read") /\ UNCHANGED found
    /\ UNCHANGED <<rows, cache, late, writerVars, taskVars, since, edits>>

DropExpired(r) ==
    /\ rpc[r] = "drop"
    /\ Delete(Fold[target[r]])
    /\ Answer(r, NotFound)
    /\ UNCHANGED <<rows, target, late, writerVars, taskVars, since, edits>>

ReadRow(r) ==
    /\ rpc[r] = "read"
    /\ found' = [found EXCEPT ![r] = Redirectable(target[r])]
    /\ Goto(r, "store")
    /\ UNCHANGED <<rows, cache, target, late, writerVars, taskVars, since, edits>>

\* cache.set of what was read, whatever happened to the row since.
StoreEntry(r) ==
    /\ rpc[r] = "store"
    /\ Set(Fold[target[r]], EntryFor(found[r]))
    /\ Answer(r, found[r])
    /\ UNCHANGED <<rows, target, late, writerVars, taskVars, since, edits>>

\* The response is sent; the slot takes another request.
Finish(r) ==
    /\ rpc[r] = "answer"
    /\ Goto(r, "idle")
    /\ found' = [found EXCEPT ![r] = NotFound]
    /\ late' = [late EXCEPT ![r] = FALSE]
    /\ UNCHANGED <<rows, cache, target, writerVars, taskVars, since, edits>>

-----------------------------------------------------------------------------
(* The owner's requests. Each loads the link, commits a change to it, and  *)
(* clears the cache in its on_commit handler.                              *)

WGoto(w, step) == wpc' = [wpc EXCEPT ![w] = step]
DropObject(w) == /\ copy' = [copy EXCEPT ![w] = NoRow]
                 /\ patch' = [patch EXCEPT ![w] = NoPatch]
Changed(c, row) == /\ rows' = [rows EXCEPT ![c] = row]
                   /\ since' = [since EXCEPT ![c] = 0]

LoadForPatch(w, c, body) ==
    /\ wpc[w] = "idle" /\ Exists(c)
    /\ copy' = [copy EXCEPT ![w] = rows[c]]
    /\ subject' = [subject EXCEPT ![w] = c]
    /\ patch' = [patch EXCEPT ![w] = body]
    /\ WGoto(w, "patch")
    /\ UNCHANGED <<rows, cache, readerVars, taskVars, since, edits>>

\* short_link_update compares the body with the object it loaded and saves the
\* fields that differ; with none it saves, and clears, nothing. A row that is
\* gone makes save raise DatabaseError.
AnyDifference(w) == {f \in {"url", "active", "left"} : patch[w][f] # copy[w][f]}   \* mutant
UpdateFields(w) == {f \in {"url", "active", "left"} : patch[w][f] \notin {Keep, copy[w][f]}}

SavePatch(w) ==
    LET c == subject[w] IN
    /\ wpc[w] = "patch"
    /\ \/ /\ UpdateFields(w) = {} \/ rows[c].id # copy[w].id
          /\ WGoto(w, "done")
          /\ UNCHANGED <<rows, since>>
       \/ /\ UpdateFields(w) # {} /\ rows[c].id = copy[w].id
          /\ Changed(c, [f \in DOMAIN rows[c] |->
                           IF f \in UpdateFields(w) THEN patch[w][f] ELSE rows[c][f]])
          /\ WGoto(w, "clear")
    /\ DropObject(w)
    /\ UNCHANGED <<cache, readerVars, subject, taskVars, edits>>

LoadForDelete(w, c) ==
    /\ wpc[w] = "idle" /\ Exists(c)
    /\ copy' = [copy EXCEPT ![w] = rows[c]]
    /\ subject' = [subject EXCEPT ![w] = c]
    /\ WGoto(w, "delete")
    /\ UNCHANGED <<rows, cache, readerVars, patch, taskVars, since, edits>>

\* The DELETE of a row that is gone already affects no row and goes on.
DeleteRow(w) ==
    LET c == subject[w] IN
    /\ wpc[w] = "delete"
    /\ IF rows[c].id = copy[w].id THEN Changed(c, NoRow) ELSE UNCHANGED <<rows, since>>
    /\ WGoto(w, "clear")
    /\ DropObject(w)
    /\ UNCHANGED <<cache, readerVars, subject, taskVars, edits>>

\* The commit of a creation (ShortLinkCreation has the rest of it).
CreateLink(w, c, url, left) ==
    /\ wpc[w] = "idle" /\ ~Exists(c)
    /\ Changed(c, [id |-> <<c, w>>, url |-> url, active |-> TRUE, left |-> left])
    /\ subject' = [subject EXCEPT ![w] = c]
    /\ WGoto(w, "clear")
    /\ UNCHANGED <<cache, readerVars, patch, copy, taskVars, edits>>

\* The on_commit handler, unless the process is killed before it.
ClearCache(w) ==
    /\ wpc[w] = "clear"
    /\ Delete(Fold[subject[w]])
    /\ WGoto(w, "done")
    /\ UNCHANGED <<rows, readerVars, subject, patch, copy, taskVars, since, edits>>

\* ShortLinkAdmin saves the row and has no handler at all.
AdminSave(c, url, active, left) ==
    /\ edits < MaxEdits
    /\ Exists(c)
    /\ edits' = edits + 1
    /\ Changed(c, [rows[c] EXCEPT !.url = url, !.active = active, !.left = left])
    /\ UNCHANGED <<cache, readerVars, writerVars, taskVars>>

-----------------------------------------------------------------------------
(* short_link_deactivate_expired, every five minutes.                      *)

ListExpired ==
    /\ tpc = "idle"
    /\ batch' = {rows[c].id : c \in {b \in Code : rows[b].active /\ rows[b].left = 0}}
    /\ batch' # {}
    /\ tpc' = "update"
    /\ UNCHANGED <<rows, cache, readerVars, writerVars, since, edits>>

\* One UPDATE by id of the rows that are still active, expired or not.
DeactivateListed ==
    LET hit == {c \in Code : rows[c].id \in batch /\ rows[c].active} IN
    /\ tpc = "update"
    /\ rows' = [c \in Code |-> IF c \in hit THEN [rows[c] EXCEPT !.active = FALSE] ELSE rows[c]]
    /\ since' = [c \in Code |-> IF c \in hit THEN 0 ELSE since[c]]
    /\ tpc' = "clear"
    /\ UNCHANGED <<cache, readerVars, writerVars, batch, edits>>

\* The handler deletes one entry after the other.
ClearListed(id) ==
    /\ tpc = "clear"
    /\ id \in batch
    /\ Delete(Fold[id[1]])
    /\ batch' = batch \ {id}
    /\ tpc' = IF batch = {id} THEN "idle" ELSE "clear"
    /\ UNCHANGED <<rows, readerVars, writerVars, since, edits>>

TaskDies ==
    /\ MayFail
    /\ tpc # "idle"
    /\ batch' = {}
    /\ tpc' = "idle"
    /\ UNCHANGED <<rows, cache, readerVars, writerVars, since, edits>>

-----------------------------------------------------------------------------
\* A redirect ends within the tick after the one it began in.
Tick ==
    /\ \A r \in Reader : ~late[r]
    /\ rows' = [c \in Code |-> [rows[c] EXCEPT !.left = Later(@)]]
    /\ cache' = [k \in CacheKey |-> Aged(cache[k])]
    /\ found' = [r \in Reader |-> [found[r] EXCEPT !.left = Later(@)]]
    /\ copy' = [w \in Writer |-> [copy[w] EXCEPT !.left = Later(@)]]
    /\ late' = [r \in Reader |-> rpc[r] # "idle"]
    /\ since' = [c \in Code |-> IF since[c] < MaxSince THEN since[c] + 1 ELSE MaxSince]
    /\ UNCHANGED <<rpc, target, wpc, subject, patch, taskVars, edits>>

RedirectNext(r) == DropExpired(r) \/ ReadRow(r) \/ StoreEntry(r) \/ Finish(r)
WriterNext(w)   == SavePatch(w) \/ DeleteRow(w) \/ ClearCache(w)
TaskNext == DeactivateListed \/ \E id \in batch : ClearListed(id)

Next ==
    \/ \E r \in Reader : RedirectNext(r) \/ \E c \in Code : GetCached(r, c)
    \/ \E w \in Writer : WriterNext(w)
    \/ \E w \in Writer, c \in Code :
          \/ \E body \in Patches : LoadForPatch(w, c, body)
          \/ LoadForDelete(w, c)
          \/ \E url \in Url, left \in Lifetime : CreateLink(w, c, url, left)
    \/ \E c \in Code, url \in Url, active \in BOOLEAN, left \in Lifetime :
          AdminSave(c, url, active, left)
    \/ ListExpired \/ TaskNext \/ TaskDies
    \/ Tick

Spec == Init /\ [][Next]_vars

\* Requests that began and the task go on, and time passes. Nobody has to ask
\* for a redirect or change a link.
Fairness ==
    /\ \A r \in Reader : WF_vars(RedirectNext(r))
    /\ \A w \in Writer : WF_vars(WriterNext(w))
    /\ WF_vars(TaskNext)
    /\ WF_vars(Tick)

FairSpec == Spec /\ Fairness

-----------------------------------------------------------------------------
(* Properties.                                                             *)

TypeOK ==
    /\ rows \in [Code -> Row \cup {NoRow}]
    /\ cache \in [CacheKey -> Entry]
    /\ rpc \in [Reader -> {"idle", "drop", "read", "store", "answer"}]
    /\ target \in [Reader -> Code]
    /\ found \in [Reader -> Found \cup {NotFound}]
    /\ late \in [Reader -> BOOLEAN]
    /\ wpc \in [Writer -> {"idle", "patch", "delete", "clear", "done"}]
    /\ subject \in [Writer -> Code]
    /\ patch \in [Writer -> Patches \cup {NoPatch}]
    /\ copy \in [Writer -> Row \cup {NoRow}]
    /\ batch \subseteq LinkId
    /\ tpc \in {"idle", "update", "clear"}
    /\ since \in [Code -> 0..MaxSince]
    /\ edits \in 0..MaxEdits

\* What a hit on the entry answers.
Hit(entry) == IF entry.link.left = 0 THEN NotFound ELSE entry.link

\* The entry answers a request for c as the database would.
Agrees(c) ==
    \/ cache[Fold[c]] = Nothing
    \/ Hit(cache[Fold[c]]) = Redirectable(c)

\* However updates, deletions, the deactivation task, failed invalidations and
\* slow cache fills interleave, a cached link is wrong for no longer than
\* SHORT_LINK_CACHE_TIMEOUT (and a cached miss than its 30 seconds) after the
\* last change of the row, up to the length of a request.
StalenessBounded ==
    \A c \in Code : ~Agrees(c) =>
        \/ cache[Fold[c]].what = "link" /\ since[c] <= Timeout
        \/ cache[Fold[c]].what = "miss" /\ since[c] <= MissTimeout

\* An answer that contradicts the row is explained by a change of the row that
\* recent, or by a link that expired during this very request: a link that is
\* deleted, changed or expired is not served, nor a live one missed, for longer.
AnswersRecent ==
    \A r \in Reader : rpc[r] = "answer" /\ found[r] # Redirectable(target[r]) =>
        \/ since[target[r]] <= Timeout + 1
        \/ late[r] /\ found[r].left = 0

\* The cache is coherent again, for good, once the changes stop.
EventuallyCoherent == <>[](\A c \in Code : Agrees(c))

\* The redirect of a code leads to the link with that code.
OwnLinkServed ==
    \A r \in Reader : rpc[r] = "answer" /\ found[r] # NotFound => found[r].id[1] = target[r]

\* When no request and no task is at work, the handlers have left no entry
\* that contradicts the database.
InvalidationHolds ==
    (/\ \A r \in Reader : rpc[r] = "idle"
     /\ \A w \in Writer : wpc[w] \in {"idle", "done"}
     /\ tpc = "idle") => \A c \in Code : Agrees(c)

\* The task deactivates expired links only.
OnlyExpiredDeactivated ==
    [][tpc = "update" =>
         \A c \in Code : rows[c].active /\ ~rows'[c].active => rows[c].left = 0]_vars

\* When a PATCH is answered, the row has had the values its body names.
PatchApplied ==
    [][\A w \in Writer : wpc[w] = "patch" /\ wpc'[w] # "patch" /\ rows[subject[w]].id = copy[w].id =>
         \A f \in {"url", "active", "left"} :
             patch[w][f] # Keep => rows'[subject[w]][f] = patch[w][f]]_vars
=============================================================================
