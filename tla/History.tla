------------------------------ MODULE History -------------------------------
(***************************************************************************)
(* packages/history on top of a store that keeps its promise (module       *)
(* Journal): the items in memory, the search index over them, the cached   *)
(* previews that a locked screen evicts, the reload that brings them back, *)
(* and the blobs that have to go when nothing names them any more.         *)
(*                                                                         *)
(* Every method awaits a load in flight and then runs to its end without   *)
(* another await, so it is one step; only load() spans several, because it *)
(* awaits each record of the log.  Of a step that makes several calls to   *)
(* the store, each call may fail and the process may die between two.      *)
(***************************************************************************)
EXTENDS Events, Retention, SequencesExt

CONSTANTS
  Ids,        (* item ids; an id nothing mentions any more stands for a    *)
              (* fresh one, so this bounds the items alive at a time       *)
  Contents,   (* what can be copied, by content hash                       *)
  Secrets,    (* the contents that privacy.classify flags as secret        *)
  Refs,       (* Refs[c]: the blobs of content c, thumbnail included       *)
  Sizes,      (* Sizes[c]: its byteLength                                  *)
  Tabs,       (* tab names, normalised                                     *)
  Titles,     (* may an item have a title?                                 *)
  TagsMax, TabsMax,        (* TAGS_MAX_PER_ITEM, TABS_MAX                  *)
  Ttl,                     (* SECRET_TTL_MS                                *)
  MaxBytes, MaxAge,        (* limits.maxBytes and limits.maxAgeMs          *)
  LimitChoices,            (* what limits.maxItems can be set to           *)
  IndexCap,                (* the capacity of the search index             *)
  Faults,     (* the calls to the store that may fail: "append", "put",    *)
              (* "delete", "read", and "startup" for the read of the first *)
              (* load                                                      *)
  MaxTime     (* bound: the clock stops here                               *)

ASSUME HistoryAssumption ==
  /\ Ids \subseteq Int /\ IsFiniteSet(Ids)
  /\ Secrets \subseteq Contents
  /\ DOMAIN Refs = Contents /\ \A c \in Contents : IsFiniteSet(Refs[c])
  /\ Sizes \in [Contents -> Nat]
  /\ Titles \subseteq BOOLEAN /\ FALSE \in Titles
  /\ TagsMax \in Nat /\ TabsMax \in Nat /\ Ttl \in Nat \ {0}
  /\ LimitChoices \subseteq Nat /\ LimitChoices # {}
  /\ MaxBytes \in Nat /\ IndexCap \in Nat
  /\ Faults \subseteq {"append", "put", "delete", "read", "startup"}
  /\ MaxTime \in Nat

VARIABLES
  (* On the disk.                                                          *)
  book,       (* what the log says: the live items and the created tabs    *)
  added,      (* the live items in the order of their ITEM_ADDED records   *)
  dead,       (* the blobs of the items whose ITEM_DELETED the log holds   *)
  blobs,      (* the blobs in the blob directory                           *)
  (* In memory.                                                            *)
  proc,       (* "down", "starting" or "serving"                           *)
  items, explicitTabs, ord, byHash, pendingBlobDeletes, previewsLoaded,
  index,      (* the entries of the search index, by item id               *)
  loading,    (* "no", or the load in flight: "running", or "overtaken" by *)
              (* an eviction                                               *)
  asked,      (* no part of the code: has load() been called since the     *)
              (* last eviction?                                            *)
  maxItems,   (* limits.maxItems                                           *)
  now         (* the clock                                                 *)

disk   == <<book, added, dead, blobs>>
load   == <<loading, asked>>
memory == <<items, explicitTabs, ord, byHash, pendingBlobDeletes,
            previewsLoaded, index, load>>
vars   == <<disk, proc, memory, maxItems, now>>

-----------------------------------------------------------------------------
(* Items.                                                                  *)

SecretExpiresAt(c, t) == IF c \in Secrets THEN t + Ttl ELSE Null

NewItem(c) ==
  [contentHash |-> c, title |-> FALSE, preview |-> TRUE, pinned |-> FALSE,
   tags |-> {}, createdAt |-> now, updatedAt |-> now,
   expiresAt |-> SecretExpiresAt(c, now), byteLength |-> Sizes[c]]

IsLive(it) == ~IsExpired(it, now)

(* What memory keeps of an item while the previews are evicted.            *)
ScrubPreview(it) == [it EXCEPT !.title = FALSE, !.preview = FALSE]

Remembered(it, loaded) == IF loaded THEN it ELSE ScrubPreview(it)

(* Mutant: what changes after an eviction is remembered in full.           *)
Remember_InFull(its, i, it) == With(its, i, it)

Remember(its, i, it) == With(its, i, Remembered(it, previewsLoaded))

BlobIds(its) == UNION {Refs[its[i].contentHash] : i \in DOMAIN its}

-----------------------------------------------------------------------------
(* The search index.                                                       *)

Entry(it) == [text |-> IF it.title THEN "title" ELSE "preview",
              pinned |-> it.pinned, tagged |-> it.tags # {},
              updatedAt |-> it.updatedAt]

Position(o, i) == CHOOSE k \in DOMAIN o : o[k] = i

(* byRecency: later updated first, and of those updated together the one   *)
(* added later.                                                            *)
MoreRecent(es, o, i, j) ==
  \/ es[i].updatedAt > es[j].updatedAt
  \/ es[i].updatedAt = es[j].updatedAt /\ Position(o, i) > Position(o, j)

(* Mutant: filing an entry does not keep it in the index.                  *)
EvictOverflow_PinsOnly(es, o) ==
  LET loose == {i \in DOMAIN es : ~es[i].pinned}
      gone  == {i \in loose :
                  Cardinality({j \in loose : MoreRecent(es, o, i, j)})
                    < Cardinality(DOMAIN es) - IndexCap}
  IN  [i \in DOMAIN es \ gone |-> es[i]]

(* evictOverflow: past the capacity, the oldest entries that are neither   *)
(* pinned nor tagged go.                                                   *)
EvictOverflow(es, o) ==
  LET loose == {i \in DOMAIN es : ~es[i].pinned /\ ~es[i].tagged}
      gone  == {i \in loose :
                  Cardinality({j \in loose : MoreRecent(es, o, i, j)})
                    < Cardinality(DOMAIN es) - IndexCap}
  IN  [i \in DOMAIN es \ gone |-> es[i]]

(* Mutant: an entry that is there already is not replaced.                 *)
Indexed_OnlyNew(es, o, i, it) ==
  IF previewsLoaded /\ i \notin DOMAIN es
  THEN EvictOverflow(With(es, i, Entry(it)), o)
  ELSE es

Indexed(es, o, i, it) ==
  IF previewsLoaded THEN EvictOverflow(With(es, i, Entry(it)), o) ELSE es

(* Indexing the items of sequence s one by one.                            *)
IndexedAll(es, s, its, o) ==
  LET upTo[k \in 0..Len(s)] ==
        IF k = 0 THEN es
        ELSE EvictOverflow(With(upTo[k - 1], s[k], Entry(its[s[k]])), o)
  IN  upTo[Len(s)]

(* The items of o that are in S, in their order.                           *)
Only(o, S) ==
  LET upTo[k \in 0..Len(o)] ==
        IF k = 0 THEN <<>>
        ELSE IF o[k] \in S THEN Append(upTo[k - 1], o[k]) ELSE upTo[k - 1]
  IN  upTo[Len(o)]

-----------------------------------------------------------------------------
(* The log.                                                                *)

Logged(e) ==
  /\ book' = ApplyEvent(book, e)
  /\ UNCHANGED <<added, dead>>

LoggedAdd(i, it) ==
  /\ book' = ApplyEvent(book, ItemAdded(i, it))
  /\ added' = Append(added, i)
  /\ UNCHANGED dead

LoggedDeletes(S) ==
  /\ book' = [book EXCEPT !.items = [i \in DOMAIN book.items \ S |-> book.items[i]]]
  /\ added' = Only(added, DOMAIN book.items \ S)
  /\ dead' = dead \cup UNION {Refs[book.items[i].contentHash] : i \in S}

NotLogged == UNCHANGED <<book, added, dead>>

-----------------------------------------------------------------------------
(* Blobs.                                                                  *)

(* Mutant: a deletion that failed is not retried.                          *)
DeleteUnreferenced_Once(pending, its) ==
  LET due == pending \ BlobIds(its)
  IN  \E gone \in SUBSET due :
        /\ "delete" \notin Faults => gone = due
        /\ blobs' = blobs \ gone
        /\ pendingBlobDeletes' = {}

(* deleteUnreferencedBlobs, with `pending' to delete and `its' alive.  The *)
(* deletions that fail stay pending.                                       *)
DeleteUnreferenced(pending, its) ==
  LET due == pending \ BlobIds(its)
  IN  \E gone \in SUBSET due :
        /\ "delete" \notin Faults => gone = due
        /\ blobs' = blobs \ gone
        /\ pendingBlobDeletes' = due \ gone

(* ... cut short by a crash.                                               *)
DeleteSome(pending, its) ==
  \E gone \in SUBSET (pending \ BlobIds(its)) : blobs' = blobs \ gone

-----------------------------------------------------------------------------
NoMemory ==
  /\ items' = <<>> /\ explicitTabs' = {} /\ ord' = <<>> /\ byHash' = <<>>
  /\ pendingBlobDeletes' = {} /\ previewsLoaded' = TRUE /\ index' = <<>>

Init ==
  /\ book = EmptyBook /\ added = <<>> /\ dead = {} /\ blobs = {}
  /\ proc = "down"
  /\ items = <<>> /\ explicitTabs = {} /\ ord = <<>> /\ byHash = <<>>
  /\ pendingBlobDeletes = {} /\ previewsLoaded = TRUE /\ index = <<>>
  /\ loading = "no" /\ asked = FALSE
  /\ maxItems \in LimitChoices
  /\ now = 0

(* Every method first waits for the load in flight.                        *)
Serving == proc = "serving" /\ loading = "no"

Die == proc' = "down" /\ loading' = "no" /\ asked' = FALSE /\ NoMemory

-----------------------------------------------------------------------------
(* The life of the process, and loading.                                   *)

(* index.ts awaits history.load() before anything else can call it.        *)
Start ==
  /\ proc = "down"
  /\ proc' = "starting"
  /\ loading' = "running" /\ asked' = TRUE
  /\ UNCHANGED <<disk, items, explicitTabs, ord, byHash, pendingBlobDeletes,
                 previewsLoaded, index, maxItems, now>>

(* A load while one is in flight joins it.                                 *)
Load ==
  /\ proc = "serving"
  /\ loading' = IF loading = "no" THEN "running" ELSE loading
  /\ asked' = TRUE
  /\ UNCHANGED <<disk, proc, items, explicitTabs, ord, byHash,
                 pendingBlobDeletes, previewsLoaded, index, maxItems, now>>

(* indexByContentHash: of items with one content, the last one added.      *)
ByHash(its, o) ==
  LET latest(c) == CHOOSE i \in DOMAIN its :
        /\ its[i].contentHash = c
        /\ \A j \in DOMAIN its :
             its[j].contentHash = c /\ j # i => Position(o, j) < Position(o, i)
  IN  [c \in {its[i].contentHash : i \in DOMAIN its} |-> latest(c)]

(* The end of replay: the restored snapshot replaces all of memory.  An    *)
(* eviction during the replay stays in force.                              *)
Loaded ==
  /\ loading # "no"
  /\ loading' = "no"
  /\ proc' = "serving"
  /\ previewsLoaded' = (loading = "running")
  /\ items' = [i \in DOMAIN book.items |->
                 Remembered(book.items[i], loading = "running")]
  /\ explicitTabs' = book.tabs
  /\ ord' = added
  /\ byHash' = ByHash(book.items, added)
  /\ index' = IF loading = "running" THEN IndexedAll(<<>>, added, book.items, added)
                                       ELSE <<>>
  /\ DeleteUnreferenced(pendingBlobDeletes \cup dead, book.items)
  /\ UNCHANGED <<book, added, dead, asked, maxItems, now>>

(* A record cannot be read: nothing is published.  index.ts ignores the    *)
(* answer of the first load, and serves from the empty memory.             *)
LoadFails ==
  /\ loading # "no"
  /\ (IF proc = "starting" THEN "startup" ELSE "read") \in Faults
  /\ loading' = "no"
  /\ proc' = "serving"
  /\ UNCHANGED <<disk, items, explicitTabs, ord, byHash, pendingBlobDeletes,
                 previewsLoaded, index, asked, maxItems, now>>

(* Mutant: an eviction during a load is forgotten when the load ends.      *)
EvictPreviewCache_KeepsLoad ==
  /\ proc = "serving"
  /\ index' = <<>>
  /\ previewsLoaded' = FALSE
  /\ asked' = FALSE
  /\ items' = [i \in DOMAIN items |-> ScrubPreview(items[i])]
  /\ UNCHANGED <<disk, proc, explicitTabs, ord, byHash, pendingBlobDeletes,
                 loading, maxItems, now>>

(* evictPreviewCache does not wait for a load.                             *)
EvictPreviewCache ==
  /\ proc = "serving"
  /\ index' = <<>>
  /\ previewsLoaded' = FALSE
  /\ loading' = IF loading = "no" THEN "no" ELSE "overtaken"
  /\ asked' = FALSE
  /\ items' = [i \in DOMAIN items |-> ScrubPreview(items[i])]
  /\ UNCHANGED <<disk, proc, explicitTabs, ord, byHash, pendingBlobDeletes,
                 maxItems, now>>

SetMaxItems(n) ==
  /\ proc = "serving"
  /\ n # maxItems
  /\ maxItems' = n
  /\ UNCHANGED <<disk, proc, memory, now>>

Tick ==
  /\ now < MaxTime
  /\ now' = now + 1
  /\ UNCHANGED <<disk, proc, memory, maxItems>>

Crash ==
  /\ proc # "down"
  /\ Die
  /\ UNCHANGED <<disk, maxItems, now>>

-----------------------------------------------------------------------------
(* ingest.                                                                 *)

(* Mutant: a copy is recognised by its preview.                            *)
Known_ByPreview(c) ==
  c \in DOMAIN byHash /\ byHash[c] \in DOMAIN items /\ items[byHash[c]].preview

Known(c) == c \in DOMAIN byHash /\ byHash[c] \in DOMAIN items

(* What is in memory and in the index after an item was changed in the log.*)
Updated(i, patch) ==
  LET it == Merged(items[i], patch)
  IN  /\ Logged(ItemUpdated(i, patch))
      /\ items' = Remember(items, i, it)
      /\ index' = Indexed(index, ord, i, it)
      /\ UNCHANGED <<blobs, proc, explicitTabs, ord, byHash, pendingBlobDeletes,
                     previewsLoaded, load, maxItems, now>>

Recopy(c) ==
  /\ Serving
  /\ Known(c)
  /\ Updated(byHash[c], [updatedAt |-> now])

Fresh == {i \in Ids : i \notin DOMAIN items \cup DOMAIN book.items}

IngestNew(c, i) ==
  /\ Serving
  /\ ~Known(c)
  /\ i \in Fresh
  /\ blobs' = blobs \cup Refs[c]
  /\ LoggedAdd(i, NewItem(c))
  /\ items' = Remember(items, i, NewItem(c))
  /\ ord' = Append(ord, i)
  /\ byHash' = With(byHash, c, i)
  /\ index' = Indexed(index, ord', i, NewItem(c))
  /\ UNCHANGED <<proc, explicitTabs, pendingBlobDeletes, previewsLoaded,
                 load, maxItems, now>>

(* Mutant: memory takes the item before the log does.                      *)
IngestFails_Remembered(c) ==
  /\ Serving
  /\ ~Known(c)
  /\ "append" \in Faults
  /\ blobs' = blobs \cup Refs[c]
  /\ \E i \in Fresh : items' = Remember(items, i, NewItem(c))
  /\ NotLogged
  /\ UNCHANGED <<proc, explicitTabs, ord, byHash, pendingBlobDeletes,
                 previewsLoaded, index, load, maxItems, now>>

(* A putBlob fails, after others, or the append does, after all of them.   *)
IngestFails(c) ==
  /\ Serving
  /\ ~Known(c)
  /\ \/ /\ "put" \in Faults
        /\ \E done \in SUBSET Refs[c] : blobs' = blobs \cup done
     \/ "append" \in Faults /\ blobs' = blobs \cup Refs[c]
  /\ NotLogged
  /\ UNCHANGED <<proc, memory, maxItems, now>>

(* The process dies before the append, or after it.                        *)
IngestCrashes(c) ==
  /\ Serving
  /\ ~Known(c)
  /\ \/ /\ \E done \in SUBSET Refs[c] : blobs' = blobs \cup done
        /\ NotLogged
     \/ /\ blobs' = blobs \cup Refs[c]
        /\ \E i \in Fresh : LoggedAdd(i, NewItem(c))
  /\ Die
  /\ UNCHANGED <<maxItems, now>>

-----------------------------------------------------------------------------
(* Changing an item, and tabs.  A refusal or a failing append changes      *)
(* nothing, in memory or in the log.                                       *)

(* Mutant: a secret can be pinned.                                         *)
Pin_Secret(i, pinned) ==
  /\ Serving
  /\ Updated(i, [updatedAt |-> items[i].updatedAt, pinned |-> pinned])

Pin(i, pinned) ==
  /\ Serving
  /\ pinned => items[i].contentHash \notin Secrets
  /\ Updated(i, [updatedAt |-> items[i].updatedAt, pinned |-> pinned])

Tag(i, t, tagged) ==
  /\ Serving
  /\ tagged # (t \in items[i].tags)
  /\ tagged => Cardinality(items[i].tags) < TagsMax
  /\ Updated(i, [updatedAt |-> items[i].updatedAt,
                 tags |-> IF tagged THEN items[i].tags \cup {t}
                                    ELSE items[i].tags \ {t}])

SetTitle(i, title) ==
  /\ Serving
  /\ ~(previewsLoaded /\ title = items[i].title)
  /\ Updated(i, [updatedAt |-> items[i].updatedAt, title |-> title])

(* tabCounts: the created tabs and the tabs of the live items.             *)
TabNames ==
  explicitTabs \cup
    UNION {items[i].tags : i \in {j \in DOMAIN items : IsLive(items[j])}}

CreateTab(t) ==
  /\ Serving
  /\ t \notin explicitTabs
  /\ t \in TabNames \/ Cardinality(TabNames) < TabsMax
  /\ Logged(TabCreated(t))
  /\ explicitTabs' = explicitTabs \cup {t}
  /\ UNCHANGED <<blobs, proc, items, ord, byHash, pendingBlobDeletes,
                 previewsLoaded, index, load, maxItems, now>>

Affected(t) == {i \in DOMAIN items : t \in items[i].tags}

RemoveTab(t) ==
  /\ Serving
  /\ t \in explicitTabs \/ Affected(t) # {}
  /\ Logged(TabDeleted(t))
  /\ explicitTabs' = explicitTabs \ {t}
  /\ items' = [i \in DOMAIN items |->
                 IF i \in Affected(t)
                 THEN Remembered([items[i] EXCEPT !.tags = @ \ {t}], previewsLoaded)
                 ELSE items[i]]
  /\ index' = IF previewsLoaded
              THEN IndexedAll(index, Only(ord, Affected(t)), items', ord)
              ELSE index
  /\ UNCHANGED <<blobs, proc, ord, byHash, pendingBlobDeletes, previewsLoaded,
                 load, maxItems, now>>

-----------------------------------------------------------------------------
(* Removing items.                                                         *)

(* Mutant: the index by content keeps the items that are gone.             *)
Forget_KeepsHash(S) ==
  /\ items' = [i \in DOMAIN items \ S |-> items[i]]
  /\ ord' = Only(ord, DOMAIN items \ S)
  /\ index' = [i \in DOMAIN index \ S |-> index[i]]
  /\ UNCHANGED byHash

(* forget, for every item of S.                                            *)
Forget(S) ==
  /\ items' = [i \in DOMAIN items \ S |-> items[i]]
  /\ ord' = Only(ord, DOMAIN items \ S)
  /\ index' = [i \in DOMAIN index \ S |-> index[i]]
  /\ byHash' = [c \in {d \in DOMAIN byHash : byHash[d] \notin S} |-> byHash[c]]

BlobsOf(S) == UNION {Refs[items[i].contentHash] : i \in S}

Removed(S) ==
  /\ LoggedDeletes(S)
  /\ Forget(S)
  /\ DeleteUnreferenced(pendingBlobDeletes \cup BlobsOf(S), items')
  /\ UNCHANGED <<proc, explicitTabs, previewsLoaded, load, maxItems, now>>

(* The process dies before the blobs are gone.                             *)
RemovedAndDied(S) ==
  /\ LoggedDeletes(S)
  /\ DeleteSome(pendingBlobDeletes \cup BlobsOf(S),
                [i \in DOMAIN items \ S |-> items[i]])
  /\ Die
  /\ UNCHANGED <<maxItems, now>>

RemoveItem(i) == Serving /\ Removed({i})

RemoveCrashes(i) == Serving /\ RemovedAndDied({i})

(* Removing an item that is gone retries the deletions that failed.        *)
RemoveGone ==
  /\ Serving
  /\ DeleteUnreferenced(pendingBlobDeletes, items)
  /\ UNCHANGED <<book, added, dead, proc, items, explicitTabs, ord, byHash,
                 previewsLoaded, index, load, maxItems, now>>

Limits == [maxItems |-> maxItems, maxBytes |-> MaxBytes, maxAge |-> MaxAge]
Plan == PlanEviction(items, now, Limits)

EvictNow == Serving /\ Removed(DOMAIN Plan)

(* An append fails half-way: what was evicted before it stays evicted.     *)
EvictFails ==
  /\ Serving
  /\ "append" \in Faults
  /\ \E S \in PartialPlans(items, Plan) : Removed(S)

EvictCrashes ==
  /\ Serving
  /\ \E S \in PartialPlans(items, Plan) : RemovedAndDied(S)

ItemStep(i) ==
  \/ \E pinned \in BOOLEAN : Pin(i, pinned)
  \/ \E t \in Tabs, tagged \in BOOLEAN : Tag(i, t, tagged)
  \/ \E title \in Titles : SetTitle(i, title)
  \/ RemoveItem(i)
  \/ RemoveCrashes(i)

IngestStep(c) ==
  \/ Recopy(c)
  \/ \E i \in Ids : IngestNew(c, i)
  \/ IngestFails(c)
  \/ IngestCrashes(c)

Next ==
  \/ Start
  \/ Load
  \/ Loaded
  \/ LoadFails
  \/ EvictPreviewCache
  \/ \E n \in LimitChoices : SetMaxItems(n)
  \/ Tick
  \/ Crash
  \/ \E c \in Contents : IngestStep(c)
  \/ \E i \in DOMAIN items : ItemStep(i)
  \/ \E t \in Tabs : CreateTab(t) \/ RemoveTab(t)
  \/ RemoveGone
  \/ EvictNow
  \/ EvictFails
  \/ EvictCrashes

Spec == Init /\ [][Next]_vars

-----------------------------------------------------------------------------
(* Properties.                                                             *)

(* What a restart would rebuild from the log (replay) is what the methods  *)
(* made of memory one call at a time, whatever failed or was evicted in    *)
(* between -- but for the previews, which are there or not as a whole.     *)
AgreesWithLog ==
  proc = "serving" =>
    /\ items = [i \in DOMAIN book.items |-> Remembered(book.items[i], previewsLoaded)]
    /\ explicitTabs = book.tabs
    /\ ord = added
    /\ byHash = ByHash(book.items, added)

(* A locked screen leaves no preview and no title in memory, nor in the    *)
(* index, whatever is copied, changed or removed while it is locked        *)
(* (evictPreviewCache, remember, reindex).                                 *)
EvictedStaysEvicted ==
  ~previewsLoaded =>
    /\ index = <<>>
    /\ \A i \in DOMAIN items : ~items[i].preview /\ ~items[i].title

(* An eviction during a reload stays in force: the previews come back only *)
(* by a load that was asked for after it (evictionEpoch in replay).        *)
PreviewsReturnWhenAsked ==
  [][~previewsLoaded /\ previewsLoaded' /\ proc' # "down" => asked]_vars

(* Below the capacity of the index, typing in the palette finds every      *)
(* item, as it is now (reindex).                                           *)
SearchFindsEverything ==
  proc = "serving" /\ previewsLoaded =>
    index = [i \in DOMAIN items |-> Entry(items[i])]

(* At the capacity of the index, what it holds is still as it is now, and  *)
(* it holds whatever is pinned or filed (evictOverflow).                   *)
SearchKeepsTheKept ==
  proc = "serving" /\ previewsLoaded =>
    /\ \A i \in DOMAIN index : i \in DOMAIN items /\ index[i] = Entry(items[i])
    /\ \A i \in DOMAIN items : IsKept(items[i]) => i \in DOMAIN index

(* Blobs live as long as the items that name them.  No deletion, retried   *)
(* or resumed after a restart, takes a blob another item shares or that a  *)
(* later copy brought back; and the blobs of deleted items that are still  *)
(* there are not forgotten: the next sweep deletes them.                   *)
(* (deleteUnreferencedBlobs, replay.)                                      *)
BlobsFollowItems ==
  /\ BlobIds(book.items) \subseteq blobs
  /\ proc = "serving" =>
       (dead \cap blobs) \ BlobIds(items) \subseteq pendingBlobDeletes

(* The rows the log holds, by content.                                     *)
Row(it) == [title |-> it.title, pinned |-> it.pinned, tags |-> it.tags,
            createdAt |-> it.createdAt, updatedAt |-> it.updatedAt]
Rows ==
  [c \in {book.items[i].contentHash : i \in DOMAIN book.items} |->
     Row(book.items[CHOOSE i \in DOMAIN book.items :
                      book.items[i].contentHash = c])]

C == INSTANCE ClipBook WITH rows <- Rows, tabs <- book.tabs
ImplementsClipBook == C!Spec

-----------------------------------------------------------------------------
(* What the documents and tests say, and the code does not do.             *)

(* "True after `evictPreviewCache()` until the next `load()`"              *)
(* (packages/history/src/history.ts:110).                                  *)
LoadRestoresPreviews == [][Loaded /\ asked => previewsLoaded']_vars

(* "never a second row" (packages/history/src/dedupe.ts:10).               *)
NeverASecondRow ==
  \A i, j \in DOMAIN book.items :
    book.items[i].contentHash = book.items[j].contentHash => i = j
=============================================================================
