---------------------- MODULE ShortLinkRedirect_proofs ----------------------
(***************************************************************************)
(* Proofs about ShortLinkRedirect for every set of links, redirects and    *)
(* owners' requests, every lifetime, timeout and PATCH body, with and      *)
(* without failures of Redis.  The two bounds on staleness assume that no  *)
(* two codes share a cache key: OwnLinkServed fails without it.            *)
(***************************************************************************)
EXTENDS ShortLinkRedirect, TLAPS

OwnKey == \A c, d \in Code : Fold[c] = Fold[d] => c = d

\* What was read of a row still answers a request for the code as the row does.
Current(link, c) == (IF link.left = 0 THEN NotFound ELSE link) = Redirectable(c)

\* The ticks that passed since the redirect began.
Ticks(r) == IF late[r] THEN 1 ELSE 0

Limit(entry) == IF entry.what = "link" THEN Timeout ELSE MissTimeout
Longest == IF Timeout < MissTimeout THEN MissTimeout ELSE Timeout

\* An entry that contradicts its row was read before the row changed, at most
\* a tick before the entry was stored; its TTL says how long ago that was.
EntryInv(c) ==
    LET entry == cache[Fold[c]] IN
    entry # Nothing =>
        /\ entry.what \in {"link", "miss"}
        /\ entry.what = "miss" => entry.link = NotFound
        /\ entry.ttl \in 1..Limit(entry)
        /\ Current(entry.link, c) \/ since[c] + entry.ttl <= Limit(entry) + 1

\* What a redirect goes by: the row it read, or the entry it hit.
ReaderInv(r) ==
    /\ rpc[r] = "idle" => ~late[r] /\ found[r] = NotFound
    /\ found[r].left = 0 => late[r]
    /\ rpc[r] = "store" => Current(found[r], target[r]) \/ since[target[r]] <= Ticks(r)
    /\ rpc[r] = "drop" =>
          Redirectable(target[r]) = NotFound \/ since[target[r]] <= Longest + Ticks(r)
    /\ rpc[r] = "answer" =>
          Current(found[r], target[r]) \/ since[target[r]] <= Longest + Ticks(r)

\* A request that is about to save or delete holds the object of a link.
WriterInv(w) == wpc[w] \in {"patch", "delete"} => copy[w] \in Row

IInv == TypeOK /\ \A w \in Writer : WriterInv(w)

AgeInv ==
    /\ \A c \in Code : EntryInv(c)
    /\ \A r \in Reader : ReaderInv(r)

-----------------------------------------------------------------------------
(* Type correctness.                                                       *)

LEMMA Constants ==
    /\ Timeout \in Nat \ {0} /\ MissTimeout \in Nat \ {0}
    /\ MaxSince \in Nat /\ MaxSince > Timeout /\ MaxSince > MissTimeout
    /\ 0 \in 0..MaxSince /\ MaxSince \in 0..MaxSince
    /\ Never \notin Nat /\ Lifetime \subseteq Left \ {0}
    /\ MaxEdits \in Nat /\ MayFail \in BOOLEAN
    /\ \A c \in Code : Fold[c] \in CacheKey
  BY LifetimeAssumption DEF MaxSince, Left

\* No link has the id of an absent row.
LEMMA Ids == NoId \notin LinkId
  BY DEF NoId, LinkId

LEMMA LaterType ==
    ASSUME NEW left \in Left
    PROVE  Later(left) \in Left
  BY Constants DEF Later, Left

LEMMA EntryTypes ==
    /\ Nothing \in Entry
    /\ \A link \in Found \cup {NotFound} : EntryFor(link) \in Entry
<1>1. Nothing \in Entry
  BY DEF Nothing, Entry
<1>2. ASSUME NEW link \in Found
      PROVE  RedirectTimeout(link.left) \in Nat
  <2>1. link.left \in Left
    BY DEF Found
  <2>2. CASE link.left = Never
    BY <2>2, Constants DEF RedirectTimeout
  <2>3. CASE link.left = 0
    BY <2>3, Constants DEF RedirectTimeout
  <2>4. CASE link.left \in Nat \ {0}
    BY <2>4, Constants DEF RedirectTimeout
  <2>5. QED
    BY <2>1, <2>2, <2>3, <2>4 DEF Left
<1>3. ASSUME NEW link \in Found \cup {NotFound}
      PROVE  EntryFor(link) \in Entry
  BY <1>2, Constants DEF EntryFor, Entry
<1>4. QED
  BY <1>1, <1>3

\* What a row gives a redirect.
LEMMA RedirectableType ==
    ASSUME TypeOK, NEW c \in Code
    PROVE  Redirectable(c) \in Found \cup {NotFound}
<1>1. rows[c] \in Row \cup {NoRow}
  BY DEF TypeOK
<1>2. QED
  BY <1>1 DEF Redirectable, Row, NoRow, Found

\* Rows, links and entries stay what they are while time passes.
LEMMA AgedTypes ==
    /\ \A row \in Row \cup {NoRow} : [row EXCEPT !.left = Later(@)] \in Row \cup {NoRow}
    /\ \A row \in Row : [row EXCEPT !.left = Later(@)] \in Row
    /\ \A link \in Found \cup {NotFound} :
          [link EXCEPT !.left = Later(@)] \in Found \cup {NotFound}
    /\ \A entry \in Entry : Aged(entry) \in Entry
<1>1. ASSUME NEW row \in Row
      PROVE  [row EXCEPT !.left = Later(@)] \in Row
  <2>1. Later(row.left) \in Left
    BY LaterType DEF Row
  <2>2. QED
    BY <2>1 DEF Row
<1>2. [NoRow EXCEPT !.left = Later(@)] = NoRow
  BY DEF NoRow, Later
<1>3. [NotFound EXCEPT !.left = Later(@)] = NotFound
  BY DEF NotFound, Later
<1>4. ASSUME NEW link \in Found
      PROVE  [link EXCEPT !.left = Later(@)] \in Found
  <2>1. Later(link.left) \in Left
    BY LaterType DEF Found
  <2>2. QED
    BY <2>1 DEF Found
<1>5. ASSUME NEW entry \in Entry
      PROVE  Aged(entry) \in Entry
  <2>1. entry.link \in Found \cup {NotFound} /\ entry.ttl \in Nat
    BY DEF Entry
  <2>2. [entry.link EXCEPT !.left = Later(@)] \in Found \cup {NotFound}
    BY <1>3, <1>4, <2>1
  <2>3. CASE entry.ttl <= 1
    BY <2>3, EntryTypes DEF Aged
  <2>4. CASE ~(entry.ttl <= 1)
    <3>1. Aged(entry) = [what |-> entry.what, ttl |-> entry.ttl - 1,
                         link |-> [entry.link EXCEPT !.left = Later(@)]]
      BY <2>4 DEF Aged, Entry
    <3>2. QED
      BY <2>1, <2>2, <2>4, <3>1 DEF Entry
  <2>5. QED
    BY <2>3, <2>4
<1>6. QED
  BY <1>1, <1>2, <1>3, <1>4, <1>5

LEMMA InitIInv == Init => IInv
<1> SUFFICES ASSUME Init PROVE IInv
  OBVIOUS
<1> USE DEF Init
<1>1. rows \in [Code -> Row \cup {NoRow}]
  <2>1. [id: LinkId, url: Url, active: {TRUE}, left: Lifetime] \subseteq Row
    BY Constants DEF Row
  <2>2. QED
    BY <2>1
<1>2. \A r \in Reader : target[r] \in Code
  BY LifetimeAssumption
<1>3. \A w \in Writer : subject[w] \in Code
  BY LifetimeAssumption
<1>4. cache \in [CacheKey -> Entry] /\ edits \in 0..MaxEdits /\ since \in [Code -> 0..MaxSince]
  BY Constants, EntryTypes
<1>5. /\ target \in [Reader -> Code] /\ subject \in [Writer -> Code]
  BY <1>2, <1>3
<1>6. QED
  BY <1>1, <1>4, <1>5 DEF IInv, WriterInv, TypeOK

\* A cache call writes one entry or none.
LEMMA SetType ==
    ASSUME TypeOK, NEW k, NEW entry \in Entry, Set(k, entry)
    PROVE  cache' \in [CacheKey -> Entry]
  BY DEF Set, TypeOK

LEMMA ReaderType ==
    ASSUME IInv, NEW r \in Reader,
           RedirectNext(r) \/ \E c \in Code : GetCached(r, c)
    PROVE  IInv'
<1> USE DEF IInv, TypeOK, writerVars, taskVars
<1>1. UNCHANGED <<rows, wpc, subject, patch, copy, batch, tpc, since, edits>>
  BY DEF RedirectNext, GetCached, DropExpired, ReadRow, StoreEntry, Finish
<1>2. cache' \in [CacheKey -> Entry]
  <2>1. CASE DropExpired(r)
    BY <2>1, SetType, EntryTypes DEF DropExpired, Delete
  <2>2. CASE StoreEntry(r)
    BY <2>2, SetType, EntryTypes DEF StoreEntry
  <2>3. CASE cache' = cache
    BY <2>3
  <2>4. QED
    BY <2>1, <2>2, <2>3 DEF RedirectNext, GetCached, ReadRow, Finish
<1>3. found' \in [Reader -> Found \cup {NotFound}]
  <2>1. \E link \in Found \cup {NotFound} : found' \in {found, [found EXCEPT ![r] = link]}
    <3>1. CASE DropExpired(r) \/ StoreEntry(r) \/ Finish(r)
      BY <3>1 DEF DropExpired, StoreEntry, Finish, Answer
    <3>2. CASE ReadRow(r)
      BY <3>2, RedirectableType DEF ReadRow
    <3>3. ASSUME NEW c \in Code, GetCached(r, c)
          PROVE  \E link \in Found \cup {NotFound} : found' \in {found, [found EXCEPT ![r] = link]}
      <4>1. cache[Fold[c]] \in Entry
        BY Constants
      <4>2. cache[Fold[c]].link \in Found \cup {NotFound}
        BY <4>1 DEF Entry
      <4>3. QED
        BY <3>3, <4>2 DEF GetCached, Answer
    <3>4. QED
      BY <3>1, <3>2, <3>3 DEF RedirectNext
  <2>2. QED
    BY <2>1
<1>4. /\ rpc' \in [Reader -> {"idle", "drop", "read", "store", "answer"}]
      /\ target' \in [Reader -> Code]
      /\ late' \in [Reader -> BOOLEAN]
  <2>1. CASE RedirectNext(r)
    BY <2>1 DEF RedirectNext, DropExpired, ReadRow, StoreEntry, Finish, Answer, Goto
  <2>2. ASSUME NEW c \in Code, GetCached(r, c)
        PROVE  /\ rpc' \in [Reader -> {"idle", "drop", "read", "store", "answer"}]
               /\ target' \in [Reader -> Code]
               /\ late' = late
    BY <2>2 DEF GetCached, Answer, Goto
  <2>3. QED
    BY <2>1, <2>2
<1>5. QED
  BY <1>1, <1>2, <1>3, <1>4 DEF WriterInv

\* A PATCH leaves a row of a link.
LEMMA PatchedType ==
    ASSUME IInv, NEW w \in Writer, SavePatch(w), UpdateFields(w) # {},
           rows[subject[w]].id = copy[w].id
    PROVE  [f \in DOMAIN rows[subject[w]] |->
              IF f \in UpdateFields(w) THEN patch[w][f] ELSE rows[subject[w]][f]] \in Row
<1> DEFINE row == rows[subject[w]]
<1>1. row \in Row
  <2>1. copy[w] \in Row /\ row \in Row \cup {NoRow}
    BY DEF IInv, WriterInv, SavePatch, TypeOK
  <2>2. QED
    BY <2>1, Ids DEF Row, NoRow
<1>2. /\ "url" \in UpdateFields(w) => patch[w].url \in Url
      /\ "active" \in UpdateFields(w) => patch[w].active \in BOOLEAN
      /\ "left" \in UpdateFields(w) => patch[w].left \in Left
      /\ "id" \notin UpdateFields(w)
  <2>1. patch[w] \in Patches \cup {NoPatch}
    BY DEF IInv, TypeOK
  <2>2. CASE patch[w] = NoPatch
    BY <2>2 DEF NoPatch, UpdateFields
  <2>3. CASE patch[w] \in Patches
    BY <2>3, PatchesAssumption DEF UpdateFields, Left
  <2>4. QED
    BY <2>1, <2>2, <2>3
<1>3. DOMAIN row = {"id", "url", "active", "left"}
  BY <1>1 DEF Row
<1>4. row.id \in LinkId /\ row.url \in Url /\ row.active \in BOOLEAN /\ row.left \in Left
  BY <1>1 DEF Row
<1> HIDE DEF row
<1>5. [f \in DOMAIN row |-> IF f \in UpdateFields(w) THEN patch[w][f] ELSE row[f]] \in Row
  BY <1>2, <1>3, <1>4 DEF Row
<1>6. QED
  BY <1>5 DEF row

\* A change of one row by a row of a link, or by none.
LEMMA ChangedType ==
    ASSUME TypeOK, NEW c \in Code, NEW row \in Row \cup {NoRow}, Changed(c, row)
    PROVE  rows' \in [Code -> Row \cup {NoRow}] /\ since' \in [Code -> 0..MaxSince]
  BY Constants DEF Changed, TypeOK

LEMMA WriterType ==
    ASSUME IInv, NEW w \in Writer,
           \/ WriterNext(w)
           \/ \E c \in Code :
                 \/ \E body \in Patches : LoadForPatch(w, c, body)
                 \/ LoadForDelete(w, c)
                 \/ \E url \in Url, left \in Lifetime : CreateLink(w, c, url, left)
    PROVE  IInv'
<1> DEFINE Step == {"idle", "patch", "delete", "clear", "done"}
           Stored == /\ rows' \in [Code -> Row \cup {NoRow}]
                     /\ since' \in [Code -> 0..MaxSince]
                     /\ cache' \in [CacheKey -> Entry]
           Local == /\ wpc' \in [Writer -> Step] /\ subject' \in [Writer -> Code]
                    /\ patch' \in [Writer -> Patches \cup {NoPatch}]
                    /\ copy' \in [Writer -> Row \cup {NoRow}]
                    /\ \A u \in Writer : WriterInv(u)'
<1> USE DEF readerVars, taskVars
<1>0. TypeOK /\ \A u \in Writer : WriterInv(u)
  BY DEF IInv
<1>1. UNCHANGED <<rpc, target, found, late, batch, tpc, edits>>
  BY DEF WriterNext, SavePatch, DeleteRow, ClearCache, LoadForPatch, LoadForDelete, CreateLink
<1>2. Stored
  <2>1. CASE SavePatch(w)
    <3>1. subject[w] \in Code
      BY <1>0 DEF TypeOK
    <3>2. CASE rows' = rows /\ since' = since
      BY <1>0, <2>1, <3>2 DEF SavePatch, TypeOK
    <3>3. CASE ~(rows' = rows /\ since' = since)
      <4>1. UpdateFields(w) # {} /\ rows[subject[w]].id = copy[w].id
        BY <2>1, <3>3 DEF SavePatch
      <4>2. PICK row \in Row : Changed(subject[w], row)
        BY <2>1, <3>3, <4>1, PatchedType DEF SavePatch
      <4>3. QED
        BY <1>0, <2>1, <3>1, <4>2, ChangedType DEF SavePatch, TypeOK
    <3>4. QED
      BY <3>2, <3>3
  <2>2. CASE DeleteRow(w)
    <3>1. subject[w] \in Code /\ cache' = cache
      BY <1>0, <2>2 DEF DeleteRow, TypeOK
    <3>2. CASE Changed(subject[w], NoRow)
      BY <1>0, <3>1, <3>2, ChangedType DEF TypeOK
    <3>3. CASE rows' = rows /\ since' = since
      BY <1>0, <3>1, <3>3 DEF TypeOK
    <3>4. QED
      BY <2>2, <3>2, <3>3 DEF DeleteRow
  <2>3. CASE ClearCache(w)
    <3>1. cache' \in [CacheKey -> Entry]
      BY <1>0, <2>3, SetType, EntryTypes DEF ClearCache, Delete
    <3>2. QED
      BY <1>0, <2>3, <3>1 DEF ClearCache, TypeOK
  <2>4. ASSUME NEW c \in Code,
               LoadForDelete(w, c) \/ \E body \in Patches : LoadForPatch(w, c, body)
        PROVE  Stored
    BY <1>0, <2>4 DEF LoadForPatch, LoadForDelete, TypeOK
  <2>5. ASSUME NEW c \in Code, NEW url \in Url, NEW left \in Lifetime, CreateLink(w, c, url, left)
        PROVE  Stored
    <3>1. [id |-> <<c, w>>, url |-> url, active |-> TRUE, left |-> left] \in Row
      BY Constants DEF Row, LinkId
    <3>2. QED
      BY <1>0, <2>5, <3>1, ChangedType DEF CreateLink, TypeOK
  <2>6. QED
    BY <2>1, <2>2, <2>3, <2>4, <2>5 DEF WriterNext
<1>3. Local
  <2>1. CASE SavePatch(w) \/ DeleteRow(w)
    <3>1. /\ wpc' \in {[wpc EXCEPT ![w] = "done"], [wpc EXCEPT ![w] = "clear"]}
          /\ copy' = [copy EXCEPT ![w] = NoRow] /\ patch' = [patch EXCEPT ![w] = NoPatch]
          /\ subject' = subject
      BY <2>1 DEF SavePatch, DeleteRow, WGoto, DropObject
    <3>2. QED
      BY <1>0, <3>1 DEF TypeOK, WriterInv
  <2>2. CASE ClearCache(w)
    BY <1>0, <2>2 DEF ClearCache, WGoto, TypeOK, WriterInv
  <2>3. ASSUME NEW c \in Code, NEW body \in Patches, LoadForPatch(w, c, body)
        PROVE  Local
    <3>1. rows[c] \in Row
      BY <1>0, <2>3 DEF LoadForPatch, Exists, TypeOK
    <3>2. QED
      BY <1>0, <2>3, <3>1 DEF LoadForPatch, WGoto, TypeOK, WriterInv
  <2>4. ASSUME NEW c \in Code, LoadForDelete(w, c)
        PROVE  Local
    <3>1. rows[c] \in Row
      BY <1>0, <2>4 DEF LoadForDelete, Exists, TypeOK
    <3>2. QED
      BY <1>0, <2>4, <3>1 DEF LoadForDelete, WGoto, TypeOK, WriterInv
  <2>5. ASSUME NEW c \in Code, NEW url \in Url, NEW left \in Lifetime, CreateLink(w, c, url, left)
        PROVE  Local
    BY <1>0, <2>5 DEF CreateLink, WGoto, TypeOK, WriterInv
  <2>6. QED
    BY <2>1, <2>2, <2>3, <2>4, <2>5 DEF WriterNext
<1>4. QED
  BY <1>0, <1>1, <1>2, <1>3 DEF IInv, TypeOK

LEMMA AdminType ==
    ASSUME IInv, NEW c \in Code, NEW url \in Url, NEW active \in BOOLEAN, NEW left \in Lifetime,
           AdminSave(c, url, active, left)
    PROVE  IInv'
<1>1. TypeOK /\ rows[c] \in Row
  BY DEF IInv, TypeOK, AdminSave, Exists
<1>2. [rows[c] EXCEPT !.url = url, !.active = active, !.left = left] \in Row
  BY <1>1, Constants DEF Row
<1>3. rows' \in [Code -> Row \cup {NoRow}] /\ since' \in [Code -> 0..MaxSince]
  BY <1>1, <1>2, ChangedType DEF AdminSave
<1>4. edits' \in 0..MaxEdits
  BY <1>1, Constants DEF AdminSave, TypeOK
<1>5. QED
  BY <1>1, <1>3, <1>4
     DEF AdminSave, IInv, TypeOK, WriterInv, readerVars, writerVars, taskVars

LEMMA DeactivationType ==
    ASSUME IInv, ListExpired \/ TaskNext \/ TaskDies
    PROVE  IInv'
<1> DEFINE Stored == /\ rows' \in [Code -> Row \cup {NoRow}]
                     /\ since' \in [Code -> 0..MaxSince]
                     /\ cache' \in [CacheKey -> Entry]
<1> USE DEF readerVars, writerVars
<1>0. TypeOK
  BY DEF IInv
<1>1. /\ UNCHANGED <<rpc, target, found, late, wpc, subject, patch, copy, edits>>
      /\ tpc' \in {"idle", "update", "clear"}
  BY DEF ListExpired, TaskNext, TaskDies, DeactivateListed, ClearListed
<1>2. batch' \subseteq LinkId
  <2>1. CASE ListExpired
    <3>1. ASSUME NEW c \in Code, rows[c].active
          PROVE  rows[c].id \in LinkId
      <4>1. rows[c] \in Row \cup {NoRow}
        BY <1>0 DEF TypeOK
      <4>2. QED
        BY <3>1, <4>1 DEF Row, NoRow
    <3>2. QED
      BY <2>1, <3>1 DEF ListExpired
  <2>2. CASE TaskNext \/ TaskDies
    BY <1>0, <2>2 DEF TaskNext, TaskDies, DeactivateListed, ClearListed, TypeOK
  <2>3. QED
    BY <2>1, <2>2
<1>3. Stored
  <2>1. CASE DeactivateListed
    <3>1. ASSUME NEW c \in Code, rows[c].active
          PROVE  [rows[c] EXCEPT !.active = FALSE] \in Row
      <4>1. rows[c] \in Row
        BY <1>0, <3>1 DEF TypeOK, NoRow
      <4>2. QED
        BY <4>1 DEF Row
    <3>2. rows' \in [Code -> Row \cup {NoRow}]
      BY <1>0, <2>1, <3>1 DEF DeactivateListed, TypeOK
    <3>3. since' \in [Code -> 0..MaxSince]
      BY <1>0, <2>1, Constants DEF DeactivateListed, TypeOK
    <3>4. QED
      BY <1>0, <2>1, <3>2, <3>3 DEF DeactivateListed, TypeOK
  <2>2. ASSUME NEW id \in batch, ClearListed(id)
        PROVE  Stored
    BY <1>0, <2>2, SetType, EntryTypes DEF ClearListed, Delete, TypeOK
  <2>3. CASE ListExpired \/ TaskDies
    BY <1>0, <2>3 DEF ListExpired, TaskDies, TypeOK
  <2>4. QED
    BY <2>1, <2>2, <2>3 DEF TaskNext
<1>4. QED
  BY <1>0, <1>1, <1>2, <1>3 DEF IInv, TypeOK, WriterInv

LEMMA TickType ==
    ASSUME IInv, Tick
    PROVE  IInv'
<1>0. TypeOK
  BY DEF IInv
<1>1. rows' \in [Code -> Row \cup {NoRow}]
  BY <1>0, AgedTypes DEF Tick, TypeOK
<1>2. cache' \in [CacheKey -> Entry]
  BY <1>0, AgedTypes DEF Tick, TypeOK
<1>3. found' \in [Reader -> Found \cup {NotFound}]
  BY <1>0, AgedTypes DEF Tick, TypeOK
<1>4. copy' \in [Writer -> Row \cup {NoRow}] /\ \A w \in Writer : copy[w] \in Row => copy'[w] \in Row
  BY <1>0, AgedTypes DEF Tick, TypeOK
<1>5. since' \in [Code -> 0..MaxSince] /\ late' \in [Reader -> BOOLEAN]
  BY <1>0, Constants DEF Tick, TypeOK
<1>6. QED
  BY <1>0, <1>1, <1>2, <1>3, <1>4, <1>5 DEF Tick, IInv, TypeOK, WriterInv, taskVars

LEMMA NextIInv == IInv /\ [Next]_vars => IInv'
<1> SUFFICES ASSUME IInv, [Next]_vars PROVE IInv'
  OBVIOUS
<1>1. CASE UNCHANGED vars
  BY <1>1 DEF vars, readerVars, writerVars, taskVars, IInv, TypeOK, WriterInv
<1>2. QED
  BY <1>1, ReaderType, WriterType, AdminType, DeactivationType, TickType DEF Next

\* Every reachable state is well typed: no PATCH, race or task leaves a row or
\* an entry that is no link, and the cache never holds half of one.
THEOREM TypeCorrect == Spec => []TypeOK
<1>1. IInv => TypeOK
  BY DEF IInv
<1>2. QED
  BY <1>1, InitIInv, NextIInv, PTL DEF Spec

-----------------------------------------------------------------------------
(* How old what a redirect goes by can be.                                 *)

\* A row that changes is one that changed just now.
RowKept(c) == \/ rows'[c] = rows[c] /\ since'[c] = since[c]
              \/ since'[c] = 0

LEMMA ChangedRow ==
    ASSUME TypeOK, NEW c \in Code, NEW row, Changed(c, row), NEW d \in Code
    PROVE  RowKept(d)
  BY DEF Changed, TypeOK, RowKept

LEMMA WriterKeeps ==
    ASSUME IInv, NEW w \in Writer,
           \/ WriterNext(w)
           \/ \E c \in Code :
                 \/ \E body \in Patches : LoadForPatch(w, c, body)
                 \/ LoadForDelete(w, c)
                 \/ \E url \in Url, left \in Lifetime : CreateLink(w, c, url, left)
    PROVE  /\ UNCHANGED readerVars
           /\ \A c \in Code : RowKept(c)
           /\ \A k \in CacheKey : cache'[k] \in {cache[k], Nothing}
<1> USE DEF readerVars
<1>0. TypeOK /\ subject[w] \in Code
  BY DEF IInv, TypeOK
<1>1. CASE SavePatch(w)
  <2>1. UNCHANGED <<cache, readerVars>>
    BY <1>1 DEF SavePatch
  <2>2. (rows' = rows /\ since' = since) \/ \E row : Changed(subject[w], row)
    BY <1>1 DEF SavePatch
  <2>3. QED
    BY <1>0, <2>1, <2>2, ChangedRow DEF RowKept
<1>2. CASE DeleteRow(w)
  <2>1. UNCHANGED <<cache, readerVars>>
    BY <1>2 DEF DeleteRow
  <2>2. (rows' = rows /\ since' = since) \/ Changed(subject[w], NoRow)
    BY <1>2 DEF DeleteRow
  <2>3. QED
    BY <1>0, <2>1, <2>2, ChangedRow DEF RowKept
<1>3. CASE ClearCache(w)
  BY <1>0, <1>3 DEF ClearCache, Delete, Set, RowKept, TypeOK
<1>4. ASSUME NEW c \in Code,
             LoadForDelete(w, c) \/ \E body \in Patches : LoadForPatch(w, c, body)
      PROVE  UNCHANGED <<rows, since, cache, readerVars>>
  BY <1>4 DEF LoadForDelete, LoadForPatch
<1>5. ASSUME NEW c \in Code, NEW url \in Url, NEW left \in Lifetime, CreateLink(w, c, url, left)
      PROVE  UNCHANGED <<cache, readerVars>> /\ \A d \in Code : RowKept(d)
  BY <1>0, <1>5, ChangedRow DEF CreateLink
<1>6. QED
  BY <1>1, <1>2, <1>3, <1>4, <1>5 DEF WriterNext, RowKept

LEMMA OthersKeep ==
    ASSUME IInv,
           \/ \E c \in Code, url \in Url, active \in BOOLEAN, left \in Lifetime :
                 AdminSave(c, url, active, left)
           \/ ListExpired \/ TaskNext \/ TaskDies
    PROVE  /\ UNCHANGED readerVars
           /\ \A c \in Code : RowKept(c)
           /\ \A k \in CacheKey : cache'[k] \in {cache[k], Nothing}
<1> USE DEF readerVars
<1>0. TypeOK
  BY DEF IInv
<1>1. ASSUME NEW c \in Code, NEW url \in Url, NEW active \in BOOLEAN, NEW left \in Lifetime,
             AdminSave(c, url, active, left)
      PROVE  UNCHANGED <<cache, readerVars>> /\ \A d \in Code : RowKept(d)
  BY <1>0, <1>1, ChangedRow DEF AdminSave
<1>2. CASE ListExpired \/ TaskDies
  BY <1>2 DEF ListExpired, TaskDies, RowKept
<1>3. CASE DeactivateListed
  BY <1>0, <1>3 DEF DeactivateListed, RowKept, TypeOK
<1>4. ASSUME NEW id \in batch, ClearListed(id)
      PROVE  /\ UNCHANGED <<rows, since, readerVars>>
             /\ \A k \in CacheKey : cache'[k] \in {cache[k], Nothing}
  BY <1>0, <1>4 DEF ClearListed, Delete, Set, TypeOK
<1>5. QED
  BY <1>1, <1>2, <1>3, <1>4 DEF TaskNext, RowKept

\* What nobody touched is no worse than before.
LEMMA EntryFrame ==
    ASSUME IInv, NEW c \in Code, EntryInv(c), RowKept(c),
           cache'[Fold[c]] \in {cache[Fold[c]], Nothing}
    PROVE  EntryInv(c)'
<1> DEFINE entry == cache[Fold[c]]
<1>1. CASE cache'[Fold[c]] = Nothing
  BY <1>1 DEF EntryInv
<1>2. CASE cache'[Fold[c]] = entry /\ entry # Nothing
  <2>1. Limit(entry) \in Nat /\ entry.ttl \in Nat
    BY <1>2, Constants DEF EntryInv, Limit
  <2>2. /\ entry'.what \in {"link", "miss"}
        /\ entry'.what = "miss" => entry'.link = NotFound
        /\ entry'.ttl \in 1..Limit(entry')
    BY <1>2 DEF EntryInv, Limit
  <2>3. CASE rows'[c] = rows[c] /\ since'[c] = since[c]
    BY <1>2, <2>2, <2>3 DEF EntryInv, Limit, Current, Redirectable
  <2>4. CASE since'[c] = 0
    <3>1. since'[c] + entry'.ttl <= Limit(entry') + 1
      BY <1>2, <2>1, <2>4 DEF EntryInv, Limit
    <3>2. QED
      BY <2>2, <3>1 DEF EntryInv, Limit
  <2>5. QED
    BY <2>3, <2>4 DEF RowKept
<1>3. QED
  BY <1>1, <1>2

LEMMA ReaderFrame ==
    ASSUME IInv, NEW r \in Reader, ReaderInv(r), RowKept(target[r]),
           rpc'[r] = rpc[r], target'[r] = target[r], found'[r] = found[r], late'[r] = late[r]
    PROVE  ReaderInv(r)'
<1>1. Longest \in Nat /\ Ticks(r) \in Nat /\ Ticks(r)' = Ticks(r)
  BY Constants DEF Longest, Ticks
<1>2. CASE rows'[target[r]] = rows[target[r]] /\ since'[target[r]] = since[target[r]]
  BY <1>1, <1>2 DEF ReaderInv, Current, Redirectable
<1>3. CASE since'[target[r]] = 0
  <2>1. since'[target'[r]] <= Ticks(r)' /\ since'[target'[r]] <= Longest + Ticks(r)'
    BY <1>1, <1>3
  <2>2. QED
    BY <2>1 DEF ReaderInv
<1>4. QED
  BY <1>2, <1>3 DEF RowKept

\* What a hit is worth: the entry's age bounds that of what it says.
LEMMA HitAge ==
    ASSUME IInv, NEW c \in Code, EntryInv(c), cache[Fold[c]] # Nothing
    PROVE  Current(cache[Fold[c]].link, c) \/ since[c] <= Longest
<1>1. since[c] \in Nat /\ cache[Fold[c]].ttl \in Nat
  BY Constants DEF IInv, TypeOK, EntryInv, Limit
<1>2. Limit(cache[Fold[c]]) \in Nat /\ Limit(cache[Fold[c]]) <= Longest /\ Longest \in Nat
  BY Constants DEF Limit, Longest
<1>3. cache[Fold[c]].ttl >= 1
  BY <1>2 DEF EntryInv
<1>4. QED
  BY <1>1, <1>2, <1>3 DEF EntryInv

LEMMA GetCachedAge ==
    ASSUME IInv, NEW r \in Reader, NEW c \in Code, ReaderInv(r), EntryInv(c), GetCached(r, c)
    PROVE  ReaderInv(r)'
<1> PICK entry : entry = cache[Fold[c]]
  OBVIOUS
<1>1. /\ rpc[r] = "idle" /\ ~late[r] /\ found[r] = NotFound
      /\ target'[r] = c /\ late' = late /\ rows' = rows /\ since' = since
  BY DEF GetCached, ReaderInv, IInv, TypeOK
<1>2. /\ since[c] \in Nat /\ Longest \in Nat /\ Ticks(r)' = 0
      /\ entry # Nothing => Current(entry.link, c) \/ since[c] <= Longest
  BY <1>1, HitAge, Constants DEF IInv, TypeOK, Ticks, Longest
<1>3. NotFound.left # 0
  BY Constants DEF NotFound
<1>4. \A link, d : Current(link, d)' <=> Current(link, d)
  BY <1>1 DEF Current, Redirectable
<1>5. CASE entry.what = "miss" /\ Answer(r, NotFound)
  <2>1. entry # Nothing /\ entry.link = NotFound
    BY <1>5 DEF Nothing, EntryInv
  <2>2. rpc'[r] = "answer" /\ found'[r] = NotFound
    BY <1>5 DEF Answer, Goto, IInv, TypeOK
  <2>3. QED
    BY <1>1, <1>2, <1>3, <1>4, <2>1, <2>2 DEF ReaderInv
<1>6. CASE entry.what = "link" /\ Live(entry.link) /\ Answer(r, entry.link)
  <2>1. entry # Nothing /\ entry.link.left # 0
    BY <1>6 DEF Nothing, Live
  <2>2. rpc'[r] = "answer" /\ found'[r] = entry.link
    BY <1>6 DEF Answer, Goto, IInv, TypeOK
  <2>3. QED
    BY <1>1, <1>2, <1>4, <2>1, <2>2 DEF ReaderInv
<1>7. CASE entry.what = "link" /\ ~Live(entry.link) /\ Goto(r, "drop") /\ UNCHANGED found
  <2>1. entry # Nothing /\ entry.link.left = 0
    BY <1>7 DEF Nothing, Live
  <2>2. rpc'[r] = "drop" /\ found'[r] = NotFound
    BY <1>1, <1>7 DEF Goto, IInv, TypeOK
  <2>3. NotFound = Redirectable(c) \/ since[c] <= Longest
    BY <1>2, <2>1 DEF Current
  <2>4. Redirectable(c)' = Redirectable(c)
    BY <1>1 DEF Redirectable
  <2>5. (Redirectable(target[r]) = NotFound \/ since[target[r]] <= Longest + Ticks(r))'
    BY <1>1, <1>2, <2>3, <2>4 DEF Redirectable
  <2>6. QED
    BY <1>1, <1>3, <2>2, <2>5 DEF ReaderInv
<1>8. CASE Goto(r, "read") /\ UNCHANGED found
  <2>1. rpc'[r] = "read" /\ found'[r] = NotFound
    BY <1>1, <1>8 DEF Goto, IInv, TypeOK
  <2>2. QED
    BY <1>3, <2>1 DEF ReaderInv
<1>9. QED
  BY <1>5, <1>6, <1>7, <1>8 DEF GetCached

LEMMA RedirectAge ==
    ASSUME IInv, NEW r \in Reader, ReaderInv(r), RedirectNext(r)
    PROVE  ReaderInv(r)'
<1>1. /\ rows' = rows /\ since' = since /\ target' = target
      /\ since[target[r]] \in Nat /\ Longest \in Nat /\ Longest >= 1
      /\ target[r] \in Code /\ rpc \in [Reader -> {"idle", "drop", "read", "store", "answer"}]
      /\ r \in DOMAIN found /\ r \in DOMAIN late
  BY Constants DEF RedirectNext, DropExpired, ReadRow, StoreEntry, Finish, IInv, TypeOK, Longest
<1>2. \A link, d : Current(link, d)' <=> Current(link, d)
  BY <1>1 DEF Current, Redirectable
<1>3. NotFound.left # 0 /\ Ticks(r) \in {0, 1}
  BY Constants DEF NotFound, Ticks
<1>4. CASE DropExpired(r)
  <2>1. /\ rpc[r] = "drop" /\ rpc'[r] = "answer" /\ found'[r] = NotFound /\ late' = late
        /\ Ticks(r)' = Ticks(r)
    BY <1>1, <1>4 DEF DropExpired, Answer, Goto, Ticks
  <2>2. Current(NotFound, target[r]) \/ since[target[r]] <= Longest + Ticks(r)
    BY <1>3, <2>1 DEF ReaderInv, Current
  <2>3. QED
    BY <1>1, <1>2, <1>3, <2>1, <2>2 DEF ReaderInv
<1>5. CASE ReadRow(r)
  <2>1. /\ rpc[r] = "read" /\ rpc'[r] = "store" /\ found'[r] = Redirectable(target[r])
        /\ late' = late
    BY <1>1, <1>5 DEF ReadRow, Goto
  <2>2. Redirectable(target[r]).left # 0
    BY <1>3 DEF Redirectable
  <2>3. Current(Redirectable(target[r]), target[r])
    BY <2>2 DEF Current
  <2>4. QED
    BY <1>1, <1>2, <2>1, <2>2, <2>3 DEF ReaderInv
<1>6. CASE StoreEntry(r)
  <2>1. /\ rpc[r] = "store" /\ rpc'[r] = "answer" /\ found'[r] = found[r] /\ late' = late
        /\ Ticks(r)' = Ticks(r)
    BY <1>1, <1>6 DEF StoreEntry, Answer, Goto, Ticks
  <2>2. Current(found[r], target[r]) \/ since[target[r]] <= Longest + Ticks(r)
    <3>1. Current(found[r], target[r]) \/ since[target[r]] <= Ticks(r)
      BY <2>1 DEF ReaderInv
    <3>2. QED
      BY <1>1, <1>3, <3>1
  <2>3. QED
    BY <1>1, <1>2, <2>1, <2>2 DEF ReaderInv
<1>7. CASE Finish(r)
  <2>1. rpc'[r] = "idle" /\ found'[r] = NotFound /\ ~late'[r]
    BY <1>1, <1>7 DEF Finish, Goto
  <2>2. QED
    BY <1>3, <2>1 DEF ReaderInv
<1>8. QED
  BY <1>4, <1>5, <1>6, <1>7 DEF RedirectNext

\* A redirect that stores what it read stores it at most a tick late.
LEMMA StoredAge ==
    ASSUME OwnKey, IInv, NEW r \in Reader, ReaderInv(r), StoreEntry(r),
           NEW c \in Code, EntryInv(c)
    PROVE  EntryInv(c)'
<1>1. /\ rows' = rows /\ since' = since /\ target[r] \in Code /\ rpc[r] = "store"
      /\ Set(Fold[target[r]], EntryFor(found[r])) /\ since[c] \in Nat
      /\ found[r] \in Found \cup {NotFound}
  BY DEF StoreEntry, IInv, TypeOK
<1>2. CASE cache'[Fold[c]] = cache[Fold[c]]
  BY <1>1, <1>2, EntryFrame DEF RowKept
<1>3. CASE cache'[Fold[c]] # cache[Fold[c]]
  <2>1. Fold[c] = Fold[target[r]] /\ cache'[Fold[c]] = EntryFor(found[r])
    BY <1>1, <1>3, Constants DEF Set, IInv, TypeOK
  <2>2. c = target[r]
    BY <1>1, <2>1 DEF OwnKey
  <2>3. PICK entry : entry = EntryFor(found[r])
    OBVIOUS
  <2>4. /\ entry.what \in {"link", "miss"} /\ entry.link = found[r]
        /\ entry.what = "miss" => entry.link = NotFound
        /\ entry.ttl \in 1..Limit(entry) /\ Limit(entry) \in Nat
    <3>1. CASE found[r] = NotFound
      BY <2>3, <3>1, Constants DEF EntryFor, Limit
    <3>2. CASE found[r] # NotFound
      <4>1. found[r].left \in Left
        BY <1>1, <3>2 DEF Found
      <4>2. RedirectTimeout(found[r].left) \in 1..Timeout
        <5>1. CASE found[r].left = Never
          BY <5>1, Constants DEF RedirectTimeout
        <5>2. CASE found[r].left = 0
          BY <5>2, Constants DEF RedirectTimeout
        <5>3. CASE found[r].left \in Nat \ {0}
          BY <5>3, Constants DEF RedirectTimeout
        <5>4. QED
          BY <4>1, <5>1, <5>2, <5>3 DEF Left
      <4>3. QED
        BY <2>3, <3>2, <4>2, Constants DEF EntryFor, Limit
    <3>3. QED
      BY <3>1, <3>2
  <2>5. Current(entry.link, c)' \/ since'[c] + entry.ttl <= Limit(entry) + 1
    <3>1. Current(found[r], c) \/ since[c] <= 1
      BY <1>1, <2>2 DEF ReaderInv, Ticks
    <3>2. Current(found[r], c) => (IF entry.link.left = 0 THEN NotFound ELSE entry.link)
                                    = Redirectable(c)'
      BY <1>1, <2>4 DEF Current, Redirectable
    <3>3. since[c] <= 1 => since'[c] + entry.ttl <= Limit(entry) + 1
      BY <1>1, <2>4
    <3>4. QED
      BY <3>1, <3>2, <3>3 DEF Current
  <2>6. QED
    BY <2>1, <2>3, <2>4, <2>5 DEF EntryInv, Current, Limit
<1>4. QED
  BY <1>2, <1>3

\* A row and what was read of it grow old together.
LEMMA CurrentAges ==
    ASSUME TypeOK, Tick, NEW c \in Code, NEW link \in Found \cup {NotFound}, Current(link, c)
    PROVE  (IF Later(link.left) = 0 THEN NotFound ELSE [link EXCEPT !.left = Later(@)])
              = Redirectable(c)'
<1>1. /\ rows[c] \in Row \cup {NoRow}
      /\ rows'[c] = [rows[c] EXCEPT !.left = Later(@)]
  BY DEF TypeOK, Tick
<1>2. /\ rows'[c].id = rows[c].id /\ rows'[c].url = rows[c].url
      /\ rows'[c].active = rows[c].active /\ rows'[c].left = Later(rows[c].left)
      /\ rows[c].left \in Left
  BY <1>1 DEF Row, NoRow, Left
<1>3. Later(Never) = Never /\ Later(0) = 0 /\ Never # 0 /\ NotFound.left = Never
  BY Constants DEF Later, NotFound
<1>4. CASE Redirectable(c) = NotFound
  <2>1. ~rows[c].active \/ rows[c].left = 0
    <3> SUFFICES ASSUME rows[c].active, rows[c].left # 0
                 PROVE  FALSE
      OBVIOUS
    <3>1. rows[c].id \in LinkId /\ NotFound.id = rows[c].id
      BY <1>1, <1>4 DEF Redirectable, NotFound, Row, NoRow
    <3>2. QED
      BY <3>1, Ids DEF NotFound
  <2>2. Redirectable(c)' = NotFound
    BY <1>2, <1>3, <2>1 DEF Redirectable
  <2>3. link = NotFound \/ link.left = 0
    BY <1>4 DEF Current
  <2>4. [NotFound EXCEPT !.left = Later(@)] = NotFound
    BY <1>3 DEF NotFound
  <2>5. QED
    BY <1>3, <2>2, <2>3, <2>4
<1>5. CASE Redirectable(c) # NotFound
  <2>1. /\ rows[c].active /\ rows[c].left # 0
        /\ link = [id |-> rows[c].id, url |-> rows[c].url, left |-> rows[c].left]
    BY <1>5 DEF Redirectable, Current
  <2>2. Redirectable(c)' =
           IF Later(rows[c].left) # 0
           THEN [id |-> rows[c].id, url |-> rows[c].url, left |-> Later(rows[c].left)]
           ELSE NotFound
    BY <1>2, <2>1 DEF Redirectable
  <2>3. QED
    BY <2>1, <2>2
<1>6. QED
  BY <1>4, <1>5

LEMMA SinceAges ==
    ASSUME TypeOK, Tick, NEW c \in Code
    PROVE  since[c] \in Nat /\ since'[c] \in Nat /\ since'[c] <= since[c] + 1
  BY Constants DEF TypeOK, Tick

LEMMA TickEntry ==
    ASSUME IInv, Tick, NEW c \in Code, EntryInv(c)
    PROVE  EntryInv(c)'
<1> PICK entry : entry = cache[Fold[c]]
  OBVIOUS
<1>0. TypeOK /\ Fold[c] \in CacheKey
  BY Constants DEF IInv
<1>1. cache'[Fold[c]] = Aged(entry) /\ entry \in Entry
  BY <1>0 DEF Tick, TypeOK
<1>2. CASE Aged(entry) = Nothing
  BY <1>1, <1>2 DEF EntryInv
<1>3. CASE Aged(entry) # Nothing
  <2>1. entry.ttl \in Nat /\ entry.link \in Found \cup {NotFound} /\ ~(entry.ttl <= 1)
    BY <1>1, <1>3 DEF Aged, Entry
  <2>2. entry # Nothing /\ Limit(entry) \in Nat
    BY <2>1, Constants DEF Nothing, Limit
  <2>3. /\ entry.what \in {"link", "miss"} /\ entry.ttl \in 1..Limit(entry)
        /\ entry.what = "miss" => entry.link = NotFound
        /\ Current(entry.link, c) \/ since[c] + entry.ttl <= Limit(entry) + 1
    BY <2>2 DEF EntryInv
  <2>4. PICK aged : aged = [entry.link EXCEPT !.left = Later(@)]
    OBVIOUS
  <2>5. Aged(entry) = [what |-> entry.what, ttl |-> entry.ttl - 1, link |-> aged]
    BY <1>1, <2>1, <2>4 DEF Aged, Entry
  <2>6. aged.left = Later(entry.link.left)
    BY <2>1, <2>4 DEF Found, NotFound
  <2>7. Current(entry.link, c) => (IF aged.left = 0 THEN NotFound ELSE aged) = Redirectable(c)'
    BY <1>0, <2>1, <2>4, <2>6, CurrentAges
  <2>8. /\ entry.ttl - 1 \in 1..Limit(entry)
        /\ since[c] + entry.ttl <= Limit(entry) + 1 =>
              since'[c] + (entry.ttl - 1) <= Limit(entry) + 1
    BY <1>0, <2>1, <2>2, <2>3, SinceAges
  <2>9. entry.what = "miss" => aged = NotFound
    BY <2>3, <2>4 DEF NotFound, Later
  <2>10. Limit(Aged(entry)) = Limit(entry)
    BY <2>5 DEF Limit
  <2>11. PICK new : new = Aged(entry)
    OBVIOUS
  <2>12. /\ new.what \in {"link", "miss"}
         /\ new.what = "miss" => new.link = NotFound
         /\ new.ttl \in 1..Limit(new)
         /\ \/ (IF new.link.left = 0 THEN NotFound ELSE new.link) = Redirectable(c)'
            \/ since'[c] + new.ttl <= Limit(new) + 1
    BY <2>3, <2>5, <2>7, <2>8, <2>9, <2>10, <2>11
  <2>13. QED
    BY <1>1, <2>11, <2>12 DEF EntryInv, Current, Limit
<1>4. QED
  BY <1>2, <1>3

LEMMA TickReader ==
    ASSUME IInv, Tick, NEW r \in Reader, ReaderInv(r)
    PROVE  ReaderInv(r)'
<1>0. TypeOK
  BY DEF IInv
<1>1. /\ target[r] \in Code /\ found[r] \in Found \cup {NotFound}
      /\ rpc' = rpc /\ target' = target /\ ~late[r]
      /\ found'[r] = [found[r] EXCEPT !.left = Later(@)]
      /\ late'[r] = (rpc[r] # "idle")
  BY <1>0 DEF TypeOK, Tick
<1>2. found'[r].left = Later(found[r].left)
  BY <1>1 DEF Found, NotFound
<1>3. CASE rpc[r] = "idle"
  <2>1. found[r] = NotFound /\ NotFound.left = Never /\ Later(Never) = Never /\ Never # 0
    BY <1>3, Constants DEF ReaderInv, NotFound, Later
  <2>2. [NotFound EXCEPT !.left = Later(@)] = NotFound
    BY <2>1 DEF NotFound
  <2>3. QED
    BY <1>1, <1>3, <2>1, <2>2 DEF ReaderInv
<1>4. CASE rpc[r] # "idle"
  <2>1. /\ Ticks(r) = 0 /\ Ticks(r)' = 1 /\ late'[r] /\ Longest \in Nat
        /\ since[target[r]] \in Nat /\ since'[target[r]] \in Nat
        /\ since'[target[r]] <= since[target[r]] + 1
    BY <1>0, <1>1, <1>4, SinceAges, Constants DEF Ticks, Longest
  <2>2. Current(found[r], target[r]) => Current(found[r], target[r])'
    <3>1. Current(found[r], target[r]) =>
             (IF found'[r].left = 0 THEN NotFound ELSE found'[r]) = Redirectable(target[r])'
      BY <1>0, <1>1, <1>2, CurrentAges DEF Redirectable
    <3>2. QED
      BY <3>1 DEF Current
  <2>3. Redirectable(target[r]) = NotFound => Redirectable(target[r])' = NotFound
    <3>1. NotFound.left = Never /\ Later(Never) = Never /\ Never # 0
      BY Constants DEF NotFound, Later
    <3>2. [NotFound EXCEPT !.left = Later(@)] = NotFound
      BY <3>1 DEF NotFound
    <3>3. Redirectable(target[r]) = NotFound => Current(NotFound, target[r])
      BY DEF Current
    <3>4. Current(NotFound, target[r]) => NotFound = Redirectable(target[r])'
      BY <1>0, <1>1, <3>1, <3>2, CurrentAges DEF Redirectable
    <3>5. QED
      BY <3>3, <3>4
  <2>4. QED
    BY <1>1, <1>4, <2>1, <2>2, <2>3 DEF ReaderInv
<1>5. QED
  BY <1>3, <1>4

LEMMA InitAge == Init => AgeInv
<1> SUFFICES ASSUME Init PROVE AgeInv
  OBVIOUS
<1>1. ASSUME NEW c \in Code
      PROVE  EntryInv(c)
  BY Constants DEF Init, EntryInv
<1>2. ASSUME NEW r \in Reader
      PROVE  ReaderInv(r)
  BY Constants DEF Init, ReaderInv, NotFound
<1>3. QED
  BY <1>1, <1>2 DEF AgeInv

LEMMA NextAge ==
    ASSUME OwnKey, IInv, AgeInv, [Next]_vars
    PROVE  AgeInv'
<1> USE DEF AgeInv
<1>0. TypeOK /\ \A c \in Code : Fold[c] \in CacheKey
  BY Constants DEF IInv
<1>1. ASSUME UNCHANGED readerVars, \A c \in Code : RowKept(c),
             \A k \in CacheKey : cache'[k] \in {cache[k], Nothing}
      PROVE  AgeInv'
  <2>1. \A c \in Code : EntryInv(c)'
    BY <1>0, <1>1, EntryFrame
  <2>2. \A r \in Reader : target[r] \in Code
    BY <1>0 DEF TypeOK
  <2>3. \A r \in Reader : ReaderInv(r)'
    BY <1>1, <2>2, ReaderFrame DEF readerVars
  <2>4. QED
    BY <2>1, <2>3
<1>2. ASSUME NEW r \in Reader,
             RedirectNext(r) \/ \E c \in Code : GetCached(r, c)
      PROVE  AgeInv'
  <2> DEFINE OwnStep ==
               /\ rows' = rows /\ since' = since
               /\ \A q \in Reader \ {r} : /\ rpc'[q] = rpc[q] /\ target'[q] = target[q]
                                          /\ found'[q] = found[q] /\ late'[q] = late[q]
  <2>1. OwnStep
    <3>1. CASE RedirectNext(r)
      BY <1>0, <3>1 DEF RedirectNext, DropExpired, ReadRow, StoreEntry, Finish, Answer, Goto, TypeOK
    <3>2. ASSUME NEW c \in Code, GetCached(r, c)
          PROVE  OwnStep
      <4>1. UNCHANGED <<rows, since, late>>
        BY <3>2 DEF GetCached
      <4>2. \A q \in Reader \ {r} : rpc'[q] = rpc[q] /\ target'[q] = target[q]
        BY <1>0, <3>2 DEF GetCached, Answer, Goto, TypeOK
      <4>3. \A q \in Reader \ {r} : found'[q] = found[q]
        BY <1>0, <3>2 DEF GetCached, Answer, Goto, TypeOK
      <4>4. QED
        BY <4>1, <4>2, <4>3
    <3>3. QED
      BY <1>2, <3>1, <3>2
  <2>2. \A q \in Reader \ {r} : ReaderInv(q)'
    <3>1. \A q \in Reader : target[q] \in Code
      BY <1>0 DEF TypeOK
    <3>2. QED
      BY <2>1, <3>1, ReaderFrame DEF RowKept
  <2>3. ReaderInv(r)'
    BY <1>2, RedirectAge, GetCachedAge
  <2>4. ASSUME NEW c \in Code
        PROVE  EntryInv(c)'
    <3>1. CASE StoreEntry(r)
      BY <3>1, StoredAge
    <3>2. CASE ~StoreEntry(r)
      <4>1. cache'[Fold[c]] \in {cache[Fold[c]], Nothing}
        BY <1>0, <1>2, <3>2
           DEF RedirectNext, DropExpired, Delete, Set, ReadRow, Finish, GetCached, TypeOK
      <4>2. QED
        BY <2>1, <4>1, EntryFrame DEF RowKept
    <3>3. QED
      BY <3>1, <3>2
  <2>5. QED
    BY <2>2, <2>3, <2>4
<1>3. CASE Tick
  BY <1>3, TickEntry, TickReader
<1>4. CASE UNCHANGED vars
  BY <1>1, <1>4 DEF vars, RowKept
<1>5. QED
  BY <1>1, <1>2, <1>3, <1>4, WriterKeeps, OthersKeep DEF Next

\* In every reachable state the age of each entry, and of what each redirect
\* goes by, is bounded as EntryInv and ReaderInv say.
THEOREM Inductive ==
    ASSUME OwnKey
    PROVE  Spec => [](IInv /\ AgeInv)
<1>1. Init => IInv /\ AgeInv
  BY InitIInv, InitAge
<1>2. (IInv /\ AgeInv) /\ [Next]_vars => (IInv /\ AgeInv)'
  BY NextIInv, NextAge
<1>3. QED
  BY <1>1, <1>2, PTL DEF Spec

\* A cached link contradicts its row for at most SHORT_LINK_CACHE_TIMEOUT after
\* the row's last change, a cached miss for its own timeout, however updates,
\* deletions, the deactivation task, lost invalidations and slow fills interleave.
THEOREM StalenessBoundedHolds ==
    ASSUME OwnKey
    PROVE  Spec => []StalenessBounded
<1>1. IInv /\ AgeInv => StalenessBounded
  <2> SUFFICES ASSUME IInv, AgeInv, NEW c \in Code, ~Agrees(c)
               PROVE  \/ cache[Fold[c]].what = "link" /\ since[c] <= Timeout
                      \/ cache[Fold[c]].what = "miss" /\ since[c] <= MissTimeout
    BY DEF StalenessBounded
  <2> PICK entry : entry = cache[Fold[c]]
    OBVIOUS
  <2>1. /\ entry # Nothing /\ ~Current(entry.link, c)
        /\ entry.what \in {"link", "miss"} /\ entry.ttl \in 1..Limit(entry)
        /\ since[c] + entry.ttl <= Limit(entry) + 1
    BY DEF Agrees, Hit, Current, AgeInv, EntryInv
  <2>2. since[c] \in Nat /\ Limit(entry) \in Nat
    BY Constants DEF IInv, TypeOK, Limit
  <2>3. since[c] <= Limit(entry)
    BY <2>1, <2>2
  <2>4. QED
    BY <2>1, <2>3 DEF Limit
<1>2. QED
  BY <1>1, Inductive, PTL

\* An answer that contradicts the row is explained by a change of the row within
\* that time, or by a link that expired during this very request. The timeout
\* of a miss is 30 seconds, that of a link five minutes.
THEOREM AnswersRecentHolds ==
    ASSUME OwnKey, MissTimeout <= Timeout
    PROVE  Spec => []AnswersRecent
<1>1. IInv /\ AgeInv => AnswersRecent
  <2> SUFFICES ASSUME IInv, AgeInv, NEW r \in Reader, rpc[r] = "answer",
                      found[r] # Redirectable(target[r])
               PROVE  since[target[r]] <= Timeout + 1 \/ (late[r] /\ found[r].left = 0)
    BY DEF AnswersRecent
  <2>1. ReaderInv(r)
    BY DEF AgeInv
  <2>2. CASE Current(found[r], target[r])
    <3>1. found[r].left = 0
      BY <2>2 DEF Current
    <3>2. QED
      BY <2>1, <3>1 DEF ReaderInv
  <2>3. CASE since[target[r]] <= Longest + Ticks(r)
    <3>1. since[target[r]] \in Nat /\ Longest = Timeout /\ Ticks(r) \in {0, 1}
      BY Constants DEF IInv, TypeOK, Longest, Ticks
    <3>2. QED
      BY <2>3, <3>1, Constants
  <2>4. QED
    BY <2>1, <2>2, <2>3 DEF ReaderInv
<1>2. QED
  BY <1>1, Inductive, PTL
=============================================================================
