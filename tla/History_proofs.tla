--------------------------- MODULE History_proofs ---------------------------
(***************************************************************************)
(* What holds of packages/history for any contents, blobs and limits, any  *)
(* number of items, and whichever calls to the store fail.                 *)
(***************************************************************************)
EXTENDS History, FiniteSetTheorems, TLAPS

-----------------------------------------------------------------------------
(* Items and changes of items.                                             *)
Item ==
  [contentHash : Contents, title : BOOLEAN, preview : BOOLEAN, pinned : BOOLEAN,
   tags : SUBSET Tabs, createdAt : Int, updatedAt : Int, expiresAt : Int, byteLength : Nat]

Patches ==
  [updatedAt : Int] \cup [updatedAt : Int, pinned : BOOLEAN]
    \cup [updatedAt : Int, tags : SUBSET Tabs] \cup [updatedAt : Int, title : BOOLEAN]

Map(f) == f = [i \in DOMAIN f |-> f[i]]
ItemMap(f) == Map(f) /\ \A i \in DOMAIN f : f[i] \in Item

LEMMA ItemIs ==
  ASSUME NEW it \in Item
  PROVE  it = [contentHash |-> it.contentHash, title |-> it.title, preview |-> it.preview,
               pinned |-> it.pinned, tags |-> it.tags, createdAt |-> it.createdAt,
               updatedAt |-> it.updatedAt, expiresAt |-> it.expiresAt,
               byteLength |-> it.byteLength]
  BY DEF Item

LEMMA ScrubbedItem ==
  ASSUME NEW it \in Item
  PROVE  /\ ScrubPreview(it) \in Item
         /\ ScrubPreview(it) =
              [contentHash |-> it.contentHash, title |-> FALSE, preview |-> FALSE,
               pinned |-> it.pinned, tags |-> it.tags, createdAt |-> it.createdAt,
               updatedAt |-> it.updatedAt, expiresAt |-> it.expiresAt,
               byteLength |-> it.byteLength]
<1>1. ScrubPreview(it) =
        [contentHash |-> it.contentHash, title |-> FALSE, preview |-> FALSE,
         pinned |-> it.pinned, tags |-> it.tags, createdAt |-> it.createdAt,
         updatedAt |-> it.updatedAt, expiresAt |-> it.expiresAt,
         byteLength |-> it.byteLength]
  <2> DEFINE fields == {"contentHash", "title", "preview", "pinned", "tags", "createdAt",
                        "updatedAt", "expiresAt", "byteLength"}
  <2>1. it = [f \in fields |-> it[f]]
    BY DEF Item
  <2>2. ScrubPreview(it) = [f \in fields |-> IF f \in {"title", "preview"} THEN FALSE ELSE it[f]]
    BY <2>1 DEF ScrubPreview
  <2> QED BY <2>2
<1>2. ScrubPreview(it) \in Item
  BY <1>1 DEF Item
<1> QED BY <1>1, <1>2

LEMMA RememberedItem ==
  ASSUME NEW it \in Item, NEW loaded \in BOOLEAN
  PROVE  /\ Remembered(it, loaded) \in Item
         /\ Remembered(it, loaded).contentHash = it.contentHash
         /\ Remembered(it, loaded).tags = it.tags
         /\ ~loaded => ~Remembered(it, loaded).preview /\ ~Remembered(it, loaded).title
         /\ loaded => Remembered(it, loaded) = it
  BY ScrubbedItem DEF Remembered

LEMMA NewItemType ==
  ASSUME HistoryAssumption, NEW c \in Contents, now \in Nat
  PROVE  NewItem(c) \in Item /\ NewItem(c).contentHash = c
<1>1. SecretExpiresAt(c, now) \in Int /\ Sizes[c] \in Nat
  BY DEF HistoryAssumption, SecretExpiresAt, Null
<1> QED BY <1>1 DEF NewItem, Item

(* What a patch makes of an item, field by field.                          *)
LEMMA MergedItem ==
  ASSUME NEW it \in Item, NEW p \in Patches
  PROVE  /\ Merged(it, p) \in Item
         /\ Merged(it, p).contentHash = it.contentHash
         /\ Merged(it, p) =
              [contentHash |-> it.contentHash,
               title |-> IF "title" \in DOMAIN p THEN p.title ELSE it.title,
               preview |-> it.preview,
               pinned |-> IF "pinned" \in DOMAIN p THEN p.pinned ELSE it.pinned,
               tags |-> IF "tags" \in DOMAIN p THEN p.tags ELSE it.tags,
               createdAt |-> it.createdAt, updatedAt |-> p.updatedAt,
               expiresAt |-> it.expiresAt, byteLength |-> it.byteLength]
<1> DEFINE m == Merged(it, p)
           fields == {"contentHash", "title", "preview", "pinned", "tags", "createdAt",
                      "updatedAt", "expiresAt", "byteLength"}
<1>1. DOMAIN it = fields
  BY DEF Item
<1>2. /\ DOMAIN p \subseteq {"updatedAt", "pinned", "tags", "title"} /\ "updatedAt" \in DOMAIN p
      /\ p.updatedAt \in Int /\ ("pinned" \in DOMAIN p => p.pinned \in BOOLEAN)
      /\ ("tags" \in DOMAIN p => p.tags \subseteq Tabs) /\ ("title" \in DOMAIN p => p.title \in BOOLEAN)
  BY DEF Patches
<1>3. m = [f \in fields |-> IF f \in DOMAIN p THEN p[f] ELSE it[f]]
  BY <1>1, <1>2 DEF Merged
<1> HIDE DEF m
<1>4. m = [contentHash |-> it.contentHash,
           title |-> IF "title" \in DOMAIN p THEN p.title ELSE it.title,
           preview |-> it.preview,
           pinned |-> IF "pinned" \in DOMAIN p THEN p.pinned ELSE it.pinned,
           tags |-> IF "tags" \in DOMAIN p THEN p.tags ELSE it.tags,
           createdAt |-> it.createdAt, updatedAt |-> p.updatedAt,
           expiresAt |-> it.expiresAt, byteLength |-> it.byteLength]
  BY <1>2, <1>3
<1>5. m \in Item
  BY <1>2, <1>4 DEF Item
<1> QED BY <1>4, <1>5 DEF m

LEMMA WithIs ==
  ASSUME NEW f, NEW k, NEW v
  PROVE  /\ Map(With(f, k, v)) /\ DOMAIN With(f, k, v) = DOMAIN f \cup {k}
         /\ With(f, k, v)[k] = v /\ \A j \in DOMAIN f : j # k => With(f, k, v)[j] = f[j]
  BY DEF With, Map

LEMMA WithItem ==
  ASSUME NEW f, NEW k, NEW v \in Item, ItemMap(f)
  PROVE  ItemMap(With(f, k, v))
<1>1. /\ Map(With(f, k, v)) /\ DOMAIN With(f, k, v) = DOMAIN f \cup {k}
      /\ With(f, k, v)[k] = v /\ \A j \in DOMAIN f : j # k => With(f, k, v)[j] = f[j]
  BY DEF With, Map
<1> QED BY <1>1 DEF ItemMap

-----------------------------------------------------------------------------
(* Types.                                                                   *)
HistoryTypes ==
  /\ book = [items |-> book.items, tabs |-> book.tabs] /\ ItemMap(book.items)
  /\ ItemMap(items) /\ Map(byHash)
  /\ now \in Nat /\ previewsLoaded \in BOOLEAN /\ asked \in BOOLEAN
  /\ loading \in {"no", "running", "overtaken"}
  /\ proc \in {"down", "starting", "serving"}

(* Every change of an item is a patch of an item that is there.             *)
Changes ==
  \/ \E c \in Contents : Recopy(c)
  \/ \E i \in DOMAIN items :
       \/ \E pinned \in BOOLEAN : Pin(i, pinned)
       \/ \E t \in Tabs, tagged \in BOOLEAN : Tag(i, t, tagged)
       \/ \E title \in Titles : SetTitle(i, title)

LEMMA ChangesUpdate ==
  ASSUME HistoryAssumption, HistoryTypes, Changes
  PROVE  Serving /\ \E i \in DOMAIN items, p \in Patches : Updated(i, p)
<1>1. \A i \in DOMAIN items : items[i].updatedAt \in Int /\ items[i].tags \subseteq Tabs
  BY DEF HistoryTypes, ItemMap, Item
<1>2. ASSUME NEW c \in Contents, Recopy(c)
      PROVE  Serving /\ \E i \in DOMAIN items, p \in Patches : Updated(i, p)
  <2>1. Serving /\ byHash[c] \in DOMAIN items /\ Updated(byHash[c], [updatedAt |-> now])
    BY <1>2 DEF Recopy, Known
  <2>2. [updatedAt |-> now] \in Patches
    BY DEF HistoryTypes, Patches
  <2> QED BY <2>1, <2>2
<1>3. ASSUME NEW i \in DOMAIN items, NEW pinned \in BOOLEAN, Pin(i, pinned)
      PROVE  Serving /\ \E p \in Patches : Updated(i, p)
  <2> DEFINE p == [updatedAt |-> items[i].updatedAt, pinned |-> pinned]
  <2>1. p \in Patches
    BY <1>1 DEF Patches
  <2> QED BY <1>3, <2>1 DEF Pin
<1>4. ASSUME NEW i \in DOMAIN items, NEW t \in Tabs, NEW tagged \in BOOLEAN, Tag(i, t, tagged)
      PROVE  Serving /\ \E p \in Patches : Updated(i, p)
  <2> DEFINE tags == IF tagged THEN items[i].tags \cup {t} ELSE items[i].tags \ {t}
             p == [updatedAt |-> items[i].updatedAt, tags |-> tags]
  <2>1. tags \subseteq Tabs
    BY <1>1
  <2> HIDE DEF tags
  <2>2. p \in Patches
    BY <1>1, <2>1 DEF Patches
  <2> QED BY <1>4, <2>2 DEF Tag, tags
<1>5. ASSUME NEW i \in DOMAIN items, NEW title \in Titles, SetTitle(i, title)
      PROVE  Serving /\ \E p \in Patches : Updated(i, p)
  <2> DEFINE p == [updatedAt |-> items[i].updatedAt, title |-> title]
  <2>1. p \in Patches
    BY <1>1 DEF Patches, HistoryAssumption
  <2> QED BY <1>5, <2>1 DEF SetTitle
<1> QED BY <1>2, <1>3, <1>4, <1>5 DEF Changes

(* Every removal is of items that are there: a plan condemns no others.     *)
Removals ==
  \/ \E i \in DOMAIN items : RemoveItem(i) \/ RemoveCrashes(i)
  \/ EvictNow \/ EvictFails \/ EvictCrashes

LEMMA PlansAreOfItems == DOMAIN Plan \subseteq DOMAIN items
  BY DEF Plan, PlanEviction, Expiring, Aging, Unkept, Surplus, Overweight

LEMMA RemovalsRemove ==
  ASSUME Removals
  PROVE  Serving /\ \E S \in SUBSET DOMAIN items : Removed(S) \/ RemovedAndDied(S)
<1>1. ASSUME NEW i \in DOMAIN items, RemoveItem(i) \/ RemoveCrashes(i)
      PROVE  Serving /\ \E S \in SUBSET DOMAIN items : Removed(S) \/ RemovedAndDied(S)
  BY <1>1 DEF RemoveItem, RemoveCrashes
<1>2. PartialPlans(items, Plan) \subseteq SUBSET DOMAIN items
  BY PlansAreOfItems DEF PartialPlans
<1>3. CASE EvictNow \/ EvictFails \/ EvictCrashes
  BY <1>2, <1>3, PlansAreOfItems DEF EvictNow, EvictFails, EvictCrashes
<1> QED BY <1>1, <1>3 DEF Removals

(* What each kind of step does to the log and to memory.                    *)
LEMMA UpdateEffect ==
  ASSUME HistoryTypes, NEW i \in DOMAIN items, NEW p \in Patches, Updated(i, p)
  PROVE  /\ book' = [items |-> Patched(book.items, i, p), tabs |-> book.tabs]
         /\ items' = With(items, i, Remembered(Merged(items[i], p), previewsLoaded))
         /\ ItemMap(items') /\ ItemMap(book'.items)
<1>1. book' = [items |-> Patched(book.items, i, p), tabs |-> book.tabs]
  <2>1. book' = [book EXCEPT !.items = Patched(book.items, i, p)]
    BY DEF Updated, Logged, ApplyEvent, ItemUpdated
  <2> QED BY <2>1 DEF HistoryTypes
<1>2. items' = With(items, i, Remembered(Merged(items[i], p), previewsLoaded))
  BY DEF Updated, Remember
<1>3. ItemMap(items')
  <2>1. Remembered(Merged(items[i], p), previewsLoaded) \in Item
    BY MergedItem, RememberedItem DEF HistoryTypes, ItemMap
  <2> QED BY <1>2, <2>1, WithItem DEF HistoryTypes
<1>4. ItemMap(Patched(book.items, i, p))
  <2>1. CASE i \in DOMAIN book.items
    <3>1. Merged(book.items[i], p) \in Item
      BY <2>1, MergedItem DEF HistoryTypes, ItemMap
    <3> QED BY <2>1, <3>1, WithItem DEF HistoryTypes, Patched
  <2>2. CASE i \notin DOMAIN book.items
    BY <2>2 DEF HistoryTypes, Patched
  <2> QED BY <2>1, <2>2
<1> QED BY <1>1, <1>2, <1>3, <1>4

LEMMA AddEffect ==
  ASSUME HistoryAssumption, HistoryTypes, NEW c \in Contents, NEW i \in Ids, LoggedAdd(i, NewItem(c))
  PROVE  /\ book' = [items |-> With(book.items, i, NewItem(c)), tabs |-> book.tabs]
         /\ ItemMap(book'.items)
<1>1. book' = [items |-> With(book.items, i, NewItem(c)), tabs |-> book.tabs]
  <2>1. book' = [book EXCEPT !.items = With(book.items, i, NewItem(c))]
    BY DEF LoggedAdd, ApplyEvent, ItemAdded
  <2> QED BY <2>1 DEF HistoryTypes
<1>2. ItemMap(With(book.items, i, NewItem(c)))
  BY NewItemType, WithItem DEF HistoryTypes
<1> QED BY <1>1, <1>2

LEMMA DeleteEffect ==
  ASSUME HistoryTypes, NEW S, LoggedDeletes(S)
  PROVE  /\ book' = [items |-> [i \in DOMAIN book.items \ S |-> book.items[i]], tabs |-> book.tabs]
         /\ ItemMap(book'.items)
<1>1. book' = [items |-> [i \in DOMAIN book.items \ S |-> book.items[i]], tabs |-> book.tabs]
  BY DEF LoggedDeletes, HistoryTypes
<1>2. ItemMap([i \in DOMAIN book.items \ S |-> book.items[i]])
  BY DEF HistoryTypes, ItemMap, Map
<1> QED BY <1>1, <1>2

LEMMA UntaggedItem ==
  ASSUME NEW it \in Item, NEW t
  PROVE  /\ [it EXCEPT !.tags = it.tags \ {t}] \in Item
         /\ [it EXCEPT !.tags = it.tags \ {t}] =
              [contentHash |-> it.contentHash, title |-> it.title, preview |-> it.preview,
               pinned |-> it.pinned, tags |-> it.tags \ {t}, createdAt |-> it.createdAt,
               updatedAt |-> it.updatedAt, expiresAt |-> it.expiresAt,
               byteLength |-> it.byteLength]
<1>1. it \in Item /\ it.tags \ {t} \in SUBSET Tabs
  BY DEF Item
<1>2. [it EXCEPT !.tags = it.tags \ {t}] \in Item
  BY <1>1 DEF Item
<1>3. [it EXCEPT !.tags = it.tags \ {t}] =
              [contentHash |-> it.contentHash, title |-> it.title, preview |-> it.preview,
               pinned |-> it.pinned, tags |-> it.tags \ {t}, createdAt |-> it.createdAt,
               updatedAt |-> it.updatedAt, expiresAt |-> it.expiresAt,
               byteLength |-> it.byteLength]
  BY <1>1 DEF Item
<1> QED BY <1>2, <1>3

LEMMA RemoveTabEffect ==
  ASSUME HistoryTypes, NEW t \in Tabs, RemoveTab(t)
  PROVE  /\ book' = [items |-> Untagged(book.items, t), tabs |-> book.tabs \ {t}]
         /\ DOMAIN book'.items = DOMAIN book.items /\ DOMAIN items' = DOMAIN items
         /\ \A i \in DOMAIN book.items :
              book'.items[i] = [book.items[i] EXCEPT !.tags = book.items[i].tags \ {t}]
         /\ \A i \in DOMAIN items :
              items'[i] = IF t \in items[i].tags
                          THEN Remembered([items[i] EXCEPT !.tags = items[i].tags \ {t}], previewsLoaded)
                          ELSE items[i]
         /\ ItemMap(items') /\ ItemMap(book'.items)
<1>1. book' = [items |-> Untagged(book.items, t), tabs |-> book.tabs \ {t}]
  <2>1. book' = [book EXCEPT !.items = Untagged(book.items, t), !.tabs = book.tabs \ {t}]
    BY DEF RemoveTab, Logged, ApplyEvent, TabDeleted
  <2> QED BY <2>1 DEF HistoryTypes
<1>2. /\ Map(Untagged(book.items, t)) /\ DOMAIN Untagged(book.items, t) = DOMAIN book.items
      /\ \A i \in DOMAIN book.items :
           Untagged(book.items, t)[i] = [book.items[i] EXCEPT !.tags = book.items[i].tags \ {t}]
  BY DEF Untagged, Map
<1>3. \A i \in DOMAIN book.items : [book.items[i] EXCEPT !.tags = book.items[i].tags \ {t}] \in Item
  BY UntaggedItem DEF HistoryTypes, ItemMap
<1>4. /\ Map(items') /\ DOMAIN items' = DOMAIN items
      /\ \A i \in DOMAIN items :
              items'[i] = IF t \in items[i].tags
                          THEN Remembered([items[i] EXCEPT !.tags = items[i].tags \ {t}], previewsLoaded)
                          ELSE items[i]
  BY DEF RemoveTab, Affected, Map
<1>5. \A i \in DOMAIN items : items'[i] \in Item
  <2> SUFFICES ASSUME NEW i \in DOMAIN items
               PROVE  items'[i] \in Item
    OBVIOUS
  <2>1. items[i] \in Item /\ previewsLoaded \in BOOLEAN
    BY DEF HistoryTypes, ItemMap
  <2>2. [items[i] EXCEPT !.tags = items[i].tags \ {t}] \in Item
    BY <2>1, UntaggedItem
  <2>3. Remembered([items[i] EXCEPT !.tags = items[i].tags \ {t}], previewsLoaded) \in Item
    BY <2>1, <2>2, RememberedItem
  <2> QED BY <1>4, <2>1, <2>3
<1>6. ItemMap(items') /\ ItemMap(Untagged(book.items, t))
  <2>1. ItemMap(items')
    BY <1>4, <1>5 DEF ItemMap
  <2>2. \A i \in DOMAIN Untagged(book.items, t) : Untagged(book.items, t)[i] \in Item
    BY <1>2, <1>3
  <2> QED BY <1>2, <2>1, <2>2 DEF ItemMap
<1>7. book'.items = Untagged(book.items, t)
  BY <1>1
<1> QED BY <1>1, <1>2, <1>4, <1>6, <1>7

-----------------------------------------------------------------------------
(* Previews: what is evicted stays out of memory until it is asked for.     *)
Asked == loading = "running" => asked

EvictInv == HistoryTypes /\ EvictedStaysEvicted /\ Asked

LEMMA NothingThere ==
  /\ \A S : [i \in DOMAIN <<>> \ S |-> <<>>[i]] = <<>>
  /\ Map(<<>>) /\ ItemMap(<<>>) /\ DOMAIN <<>> = {}
<1>1. DOMAIN <<>> = {}
  OBVIOUS
<1>2. \A f : Map(f) /\ DOMAIN f = {} => f = <<>>
  BY DEF Map
<1>3. Map(<<>>)
  BY DEF Map
<1>4. \A S : [i \in DOMAIN <<>> \ S |-> <<>>[i]] = <<>>
  BY <1>1, <1>2 DEF Map
<1> QED BY <1>1, <1>3, <1>4 DEF ItemMap

LEMMA EvictInit == Init => EvictInv
<1> SUFFICES ASSUME Init
             PROVE  EvictInv
  OBVIOUS
<1>1. HistoryTypes
  BY NothingThere DEF Init, HistoryTypes, EmptyBook
<1> QED BY <1>1 DEF Init, EvictInv, EvictedStaysEvicted, Asked

(* A step that dies, or leaves what is in memory alone.                     *)
LEMMA DieKeepsEvict ==
  ASSUME EvictInv, Die, now' = now, ItemMap(book'.items),
         book' = [items |-> book'.items, tabs |-> book'.tabs]
  PROVE  EvictInv'
<1>1. /\ items' = <<>> /\ byHash' = <<>> /\ previewsLoaded' = TRUE /\ loading' = "no"
      /\ asked' = FALSE /\ proc' = "down"
  BY DEF Die, NoMemory
<1> QED BY <1>1, NothingThere DEF EvictInv, HistoryTypes, EvictedStaysEvicted, Asked

LEMMA KeptMemoryKeepsEvict ==
  ASSUME EvictInv, UNCHANGED <<book, items, byHash, previewsLoaded, index>>,
         \/ UNCHANGED load
         \/ asked' = TRUE /\ loading' \in {"running", "overtaken"}
         \/ loading' = "no" /\ asked' = asked,
         now' \in Nat, proc' \in {"down", "starting", "serving"}
  PROVE  EvictInv'
<1>1. HistoryTypes'
  BY DEF EvictInv, HistoryTypes, load, ItemMap, Map
<1> QED BY <1>1 DEF EvictInv, EvictedStaysEvicted, Asked, load

LEMMA LoadedKeepsEvict ==
  ASSUME EvictInv, Loaded
  PROVE  EvictInv'
<1>1. /\ book' = book /\ now' = now /\ asked' = asked /\ loading' = "no" /\ proc' = "serving"
      /\ previewsLoaded' = (loading = "running")
      /\ items' = [i \in DOMAIN book.items |-> Remembered(book.items[i], previewsLoaded')]
      /\ byHash' = ByHash(book.items, added)
      /\ ~previewsLoaded' => index' = <<>>
  BY DEF Loaded
<1>2. \A i \in DOMAIN book.items :
        /\ Remembered(book.items[i], previewsLoaded') \in Item
        /\ ~previewsLoaded' => /\ ~Remembered(book.items[i], previewsLoaded').preview
                               /\ ~Remembered(book.items[i], previewsLoaded').title
  <2> SUFFICES ASSUME NEW i \in DOMAIN book.items
               PROVE  /\ Remembered(book.items[i], previewsLoaded') \in Item
                      /\ ~previewsLoaded' => /\ ~Remembered(book.items[i], previewsLoaded').preview
                                             /\ ~Remembered(book.items[i], previewsLoaded').title
    OBVIOUS
  <2>1. book.items[i] \in Item /\ previewsLoaded' \in BOOLEAN
    BY <1>1 DEF EvictInv, HistoryTypes, ItemMap
  <2> QED BY <2>1, RememberedItem
<1>3. ItemMap(items') /\ Map(byHash')
  <2>1. ItemMap(items')
    BY <1>1, <1>2 DEF ItemMap, Map
  <2>2. Map(byHash')
    BY <1>1 DEF Map, ByHash
  <2> QED BY <2>1, <2>2
<1>4. HistoryTypes'
  BY <1>1, <1>3 DEF EvictInv, HistoryTypes
<1> QED BY <1>1, <1>2, <1>4 DEF EvictInv, EvictedStaysEvicted, Asked

LEMMA EvictionKeepsEvict ==
  ASSUME EvictInv, EvictPreviewCache
  PROVE  EvictInv'
<1>1. /\ book' = book /\ now' = now /\ byHash' = byHash /\ proc' = proc /\ asked' = FALSE
      /\ previewsLoaded' = FALSE /\ index' = <<>> /\ loading' \in {"no", "overtaken"}
      /\ items' = [i \in DOMAIN items |-> ScrubPreview(items[i])]
  BY DEF EvictPreviewCache, disk
<1>2. \A i \in DOMAIN items : /\ ScrubPreview(items[i]) \in Item
                              /\ ~ScrubPreview(items[i]).preview /\ ~ScrubPreview(items[i]).title
  BY ScrubbedItem DEF EvictInv, HistoryTypes, ItemMap
<1>3. ItemMap(items')
  BY <1>1, <1>2 DEF ItemMap, Map
<1>4. HistoryTypes'
  BY <1>1, <1>3 DEF EvictInv, HistoryTypes, Map
<1> QED BY <1>1, <1>2, <1>4 DEF EvictInv, EvictedStaysEvicted, Asked

LEMMA ChangeKeepsEvict ==
  ASSUME HistoryAssumption, EvictInv, Changes
  PROVE  EvictInv'
<1>1. PICK i \in DOMAIN items, p \in Patches : Updated(i, p)
  BY ChangesUpdate DEF EvictInv
<1>2. /\ book' = [items |-> Patched(book.items, i, p), tabs |-> book.tabs]
      /\ items' = With(items, i, Remembered(Merged(items[i], p), previewsLoaded))
      /\ ItemMap(items') /\ ItemMap(book'.items)
  BY <1>1, UpdateEffect DEF EvictInv
<1>3. /\ UNCHANGED <<byHash, proc, previewsLoaded, loading, asked, now>>
      /\ ~previewsLoaded => index' = index
  BY <1>1 DEF Updated, load, Indexed
<1>4. HistoryTypes'
  BY <1>2, <1>3 DEF EvictInv, HistoryTypes, Map
<1>5. EvictedStaysEvicted'
  <2> SUFFICES ASSUME ~previewsLoaded, NEW j \in DOMAIN items'
               PROVE  ~items'[j].preview /\ ~items'[j].title
    BY <1>3 DEF EvictInv, EvictedStaysEvicted
  <2>1. CASE j = i
    <3>1. Merged(items[i], p) \in Item
      BY MergedItem DEF EvictInv, HistoryTypes, ItemMap
    <3>2. items'[i] = Remembered(Merged(items[i], p), FALSE)
      BY <1>2 DEF With, EvictInv, HistoryTypes
    <3> QED BY <2>1, <3>1, <3>2, RememberedItem
  <2>2. CASE j # i
    BY <1>2, <2>2 DEF With, EvictInv, EvictedStaysEvicted
  <2> QED BY <2>1, <2>2
<1> QED BY <1>3, <1>4, <1>5 DEF EvictInv, Asked

LEMMA IngestKeepsEvict ==
  ASSUME HistoryAssumption, EvictInv, NEW c \in Contents, NEW i \in Ids, IngestNew(c, i)
  PROVE  EvictInv'
<1>1. LoggedAdd(i, NewItem(c))
  BY DEF IngestNew
<1>2. /\ book' = [items |-> With(book.items, i, NewItem(c)), tabs |-> book.tabs]
      /\ ItemMap(book'.items)
  BY <1>1, AddEffect DEF EvictInv
<1>3. /\ items' = With(items, i, Remembered(NewItem(c), previewsLoaded))
      /\ byHash' = With(byHash, c, i)
      /\ UNCHANGED <<proc, previewsLoaded, loading, asked, now>>
      /\ ~previewsLoaded => index' = index
  BY DEF IngestNew, Remember, load, Indexed
<1>4. NewItem(c) \in Item /\ previewsLoaded \in BOOLEAN
  BY NewItemType DEF EvictInv, HistoryTypes
<1>5. /\ Remembered(NewItem(c), previewsLoaded) \in Item
      /\ ~previewsLoaded => /\ ~Remembered(NewItem(c), previewsLoaded).preview
                            /\ ~Remembered(NewItem(c), previewsLoaded).title
  BY <1>4, RememberedItem
<1>6. ItemMap(items') /\ Map(byHash')
  <2>1. ItemMap(items')
    BY <1>3, <1>5, WithItem DEF EvictInv, HistoryTypes
  <2> QED BY <1>3, <2>1 DEF With, Map
<1>7. HistoryTypes'
  BY <1>2, <1>3, <1>6 DEF EvictInv, HistoryTypes
<1>8. EvictedStaysEvicted'
  BY <1>3, <1>5 DEF EvictInv, EvictedStaysEvicted, With
<1> QED BY <1>3, <1>7, <1>8 DEF EvictInv, Asked

LEMMA RemovalKeepsEvict ==
  ASSUME EvictInv, Removals
  PROVE  EvictInv'
<1>1. PICK S \in SUBSET DOMAIN items : Removed(S) \/ RemovedAndDied(S)
  BY RemovalsRemove
<1>2. LoggedDeletes(S)
  BY <1>1 DEF Removed, RemovedAndDied
<1>3. book' = [items |-> book'.items, tabs |-> book'.tabs] /\ ItemMap(book'.items)
  <2>1. /\ book' = [items |-> [i \in DOMAIN book.items \ S |-> book.items[i]], tabs |-> book.tabs]
        /\ ItemMap(book'.items)
    BY <1>2, DeleteEffect DEF EvictInv
  <2> QED BY <2>1
<1>4. CASE RemovedAndDied(S)
  BY <1>3, <1>4, DieKeepsEvict DEF RemovedAndDied
<1>5. CASE Removed(S)
  <2>1. /\ items' = [i \in DOMAIN items \ S |-> items[i]]
        /\ index' = [i \in DOMAIN index \ S |-> index[i]]
        /\ Map(byHash') /\ UNCHANGED <<proc, previewsLoaded, loading, asked, now>>
    BY <1>5 DEF Removed, Forget, load, Map
  <2>2. ItemMap(items')
    BY <2>1 DEF EvictInv, HistoryTypes, ItemMap, Map
  <2>3. HistoryTypes'
    BY <1>3, <2>1, <2>2 DEF EvictInv, HistoryTypes
  <2>4. index = <<>> => index' = <<>>
    BY <2>1, NothingThere
  <2> QED BY <2>1, <2>3, <2>4 DEF EvictInv, EvictedStaysEvicted, Asked
<1> QED BY <1>1, <1>4, <1>5

LEMMA TabKeepsEvict ==
  ASSUME EvictInv, NEW t \in Tabs, CreateTab(t) \/ RemoveTab(t)
  PROVE  EvictInv'
<1>1. CASE CreateTab(t)
  <2>1. book' = [book EXCEPT !.tabs = book.tabs \cup {t}]
    BY <1>1 DEF CreateTab, Logged, ApplyEvent, TabCreated
  <2>2. book' = [items |-> book.items, tabs |-> book.tabs \cup {t}]
    BY <2>1 DEF EvictInv, HistoryTypes
  <2>3. UNCHANGED <<proc, items, byHash, previewsLoaded, index, loading, asked, now>>
    BY <1>1 DEF CreateTab, load
  <2> QED BY <2>2, <2>3 DEF EvictInv, HistoryTypes, EvictedStaysEvicted, Asked, Map, ItemMap
<1>2. CASE RemoveTab(t)
  <2>1. /\ book' = [items |-> Untagged(book.items, t), tabs |-> book.tabs \ {t}]
        /\ DOMAIN items' = DOMAIN items
        /\ \A i \in DOMAIN items :
             items'[i] = IF t \in items[i].tags
                         THEN Remembered([items[i] EXCEPT !.tags = items[i].tags \ {t}], previewsLoaded)
                         ELSE items[i]
        /\ ItemMap(items') /\ ItemMap(book'.items)
    BY <1>2, RemoveTabEffect DEF EvictInv
  <2>2. /\ UNCHANGED <<proc, byHash, previewsLoaded, loading, asked, now>>
        /\ ~previewsLoaded => index' = index
    BY <1>2 DEF RemoveTab, load
  <2>3. HistoryTypes'
    BY <2>1, <2>2 DEF EvictInv, HistoryTypes, Map
  <2>4. EvictedStaysEvicted'
    <3> SUFFICES ASSUME ~previewsLoaded, NEW i \in DOMAIN items
                 PROVE  ~items'[i].preview /\ ~items'[i].title
      BY <2>1, <2>2 DEF EvictInv, EvictedStaysEvicted
    <3>1. items[i] \in Item /\ ~items[i].preview /\ ~items[i].title
      BY DEF EvictInv, HistoryTypes, ItemMap, EvictedStaysEvicted
    <3>2. [items[i] EXCEPT !.tags = items[i].tags \ {t}] \in Item
      BY <3>1, UntaggedItem
    <3>3. previewsLoaded = FALSE
      BY DEF EvictInv, HistoryTypes
    <3>4. /\ ~Remembered([items[i] EXCEPT !.tags = items[i].tags \ {t}], FALSE).preview
          /\ ~Remembered([items[i] EXCEPT !.tags = items[i].tags \ {t}], FALSE).title
      BY <3>2, RememberedItem
    <3> QED BY <2>1, <3>1, <3>3, <3>4
  <2> QED BY <2>2, <2>3, <2>4 DEF EvictInv, Asked
<1> QED BY <1>1, <1>2

LEMMA EvictStep == HistoryAssumption /\ EvictInv /\ [Next]_vars => EvictInv'
<1> SUFFICES ASSUME HistoryAssumption, EvictInv, [Next]_vars
             PROVE  EvictInv'
  OBVIOUS
<1>1. CASE Start \/ Load \/ LoadFails \/ Tick \/ RemoveGone \/ UNCHANGED vars
           \/ \E n \in LimitChoices : SetMaxItems(n)
  <2>1. /\ UNCHANGED <<book, items, byHash, previewsLoaded, index>>
        /\ \/ UNCHANGED load
           \/ asked' = TRUE /\ loading' \in {"running", "overtaken"}
           \/ loading' = "no" /\ asked' = asked
    BY <1>1 DEF Start, Load, LoadFails, Tick, RemoveGone, SetMaxItems, vars, disk, memory, load,
                EvictInv, HistoryTypes
  <2>2. now' \in Nat /\ proc' \in {"down", "starting", "serving"}
    BY <1>1 DEF Start, Load, LoadFails, Tick, RemoveGone, SetMaxItems, vars, EvictInv, HistoryTypes
  <2> QED BY <2>1, <2>2, KeptMemoryKeepsEvict
<1>2. CASE Crash
  <2>1. UNCHANGED book /\ now' = now /\ Die
    BY <1>2 DEF Crash, disk
  <2> QED BY <2>1, DieKeepsEvict DEF EvictInv, HistoryTypes
<1>3. ASSUME NEW c \in Contents, IngestFails(c)
      PROVE  EvictInv'
  <2>1. UNCHANGED <<book, items, byHash, previewsLoaded, index, load, now, proc>>
    BY <1>3 DEF IngestFails, NotLogged, memory
  <2> QED BY <2>1, KeptMemoryKeepsEvict DEF EvictInv, HistoryTypes
<1>4. ASSUME NEW c \in Contents, IngestCrashes(c)
      PROVE  EvictInv'
  <2>1. Die /\ now' = now
    BY <1>4 DEF IngestCrashes
  <2>2. CASE NotLogged
    BY <2>1, <2>2, DieKeepsEvict DEF NotLogged, EvictInv, HistoryTypes
  <2>3. CASE \E i \in Fresh : LoggedAdd(i, NewItem(c))
    <3>1. PICK i \in Ids : LoggedAdd(i, NewItem(c))
      BY <2>3 DEF Fresh
    <3>2. book' = [items |-> book'.items, tabs |-> book'.tabs] /\ ItemMap(book'.items)
      <4>1. /\ book' = [items |-> With(book.items, i, NewItem(c)), tabs |-> book.tabs]
            /\ ItemMap(book'.items)
        BY <3>1, AddEffect DEF EvictInv
      <4> QED BY <4>1
    <3> QED BY <2>1, <3>2, DieKeepsEvict
  <2> QED BY <1>4, <2>2, <2>3 DEF IngestCrashes
<1>5. CASE Changes
  BY <1>5, ChangeKeepsEvict
<1>6. CASE Removals
  BY <1>6, RemovalKeepsEvict
<1> QED
  BY <1>1, <1>2, <1>3, <1>4, <1>5, <1>6, LoadedKeepsEvict, EvictionKeepsEvict, IngestKeepsEvict,
     TabKeepsEvict DEF Next, IngestStep, ItemStep, Changes, Removals

(* Nothing that is copied, changed, removed or reloaded while the screen is *)
(* locked brings a preview or a title back into memory or into the index:   *)
(* remember and reindex look at previewsLoaded, and a load that an eviction *)
(* has overtaken restores the items without them.                           *)
THEOREM PreviewsStayOut == Spec => []EvictedStaysEvicted
<1>1. Spec => []EvictInv
  BY HistoryAssumption, EvictInit, EvictStep, PTL DEF Spec
<1>2. EvictInv => EvictedStaysEvicted
  BY DEF EvictInv
<1> QED BY <1>1, <1>2, PTL

(* Previews come back only by a load that was asked for after the eviction. *)
THEOREM PreviewsComeBackAsked == Spec => PreviewsReturnWhenAsked
<1>1. Spec => []EvictInv
  BY HistoryAssumption, EvictInit, EvictStep, PTL DEF Spec
<1>2. EvictInv /\ [Next]_vars => [~previewsLoaded /\ previewsLoaded' /\ proc' # "down" => asked]_vars
  <2> SUFFICES ASSUME EvictInv, Next, ~previewsLoaded, previewsLoaded', proc' # "down"
               PROVE  asked
    OBVIOUS
  <2>1. previewsLoaded' # previewsLoaded
    OBVIOUS
  <2>2. ~Changes
    BY <2>1, ChangesUpdate, HistoryAssumption DEF EvictInv, Updated
  <2>3. ~Removals
    BY <2>1, RemovalsRemove DEF Removed, RemovedAndDied, Die
  <2>4. Loaded
    BY <2>1, <2>2, <2>3
       DEF Next, Start, Load, LoadFails, EvictPreviewCache, SetMaxItems, Tick, Crash, Die, IngestStep,
           ItemStep, Changes, Removals, IngestNew, IngestFails, IngestCrashes, CreateTab, RemoveTab,
           RemoveGone, memory
  <2> QED BY <2>4 DEF Loaded, EvictInv, Asked
<1> QED BY <1>1, <1>2, PTL DEF PreviewsReturnWhenAsked, Spec

-----------------------------------------------------------------------------
(* Memory is what a replay of the log would make of it.  An app that serves *)
(* without having loaded what the log holds does not have this: the first   *)
(* load must not fail.                                                      *)
OneRowEach(its) == \A i, j \in DOMAIN its : its[i].contentHash = its[j].contentHash => i = j

Hashes(h, its) ==
  /\ Map(h) /\ DOMAIN h = {its[i].contentHash : i \in DOMAIN its}
  /\ \A i \in DOMAIN its : h[its[i].contentHash] = i

AgreeInv ==
  /\ OneRowEach(book.items)
  /\ proc = "serving" =>
       /\ DOMAIN items = DOMAIN book.items
       /\ \A i \in DOMAIN items : items[i] = Remembered(book.items[i], previewsLoaded)
       /\ explicitTabs = book.tabs /\ ord = added /\ Hashes(byHash, book.items)

(* With one row for each content, the index by content is its inverse.      *)
LEMMA HashesAreByHash ==
  ASSUME NEW its, NEW o, OneRowEach(its)
  PROVE  Hashes(ByHash(its, o), its) /\ \A h : Hashes(h, its) => h = ByHash(its, o)
<1> DEFINE contents == {its[i].contentHash : i \in DOMAIN its}
           latest(c) == CHOOSE i \in DOMAIN its :
                          /\ its[i].contentHash = c
                          /\ \A j \in DOMAIN its :
                               its[j].contentHash = c /\ j # i => Position(o, j) < Position(o, i)
<1>1. ByHash(its, o) = [c \in contents |-> latest(c)]
  BY DEF ByHash
<1>2. \A i \in DOMAIN its : latest(its[i].contentHash) = i
  <2> SUFFICES ASSUME NEW i \in DOMAIN its
               PROVE  latest(its[i].contentHash) = i
    OBVIOUS
  <2>1. \A j \in DOMAIN its : its[j].contentHash = its[i].contentHash => j = i
    BY DEF OneRowEach
  <2>2. \E k \in DOMAIN its :
          /\ its[k].contentHash = its[i].contentHash
          /\ \A j \in DOMAIN its :
               its[j].contentHash = its[i].contentHash /\ j # k => Position(o, j) < Position(o, k)
    BY <2>1
  <2>3. latest(its[i].contentHash) \in DOMAIN its
        /\ its[latest(its[i].contentHash)].contentHash = its[i].contentHash
    BY <2>2
  <2> QED BY <2>1, <2>3
<1> HIDE DEF latest
<1>3. Hashes(ByHash(its, o), its)
  BY <1>1, <1>2 DEF Hashes, Map
<1>4. ASSUME NEW h, Hashes(h, its)
      PROVE  h = ByHash(its, o)
  <2>1. h = [c \in contents |-> h[c]]
    BY <1>4 DEF Hashes, Map
  <2>2. \A c \in contents : h[c] = latest(c)
    BY <1>2, <1>4 DEF Hashes
  <2> QED BY <1>1, <2>1, <2>2
<1> QED BY <1>3, <1>4

LEMMA MergedRemembered ==
  ASSUME NEW it \in Item, NEW p \in Patches, NEW loaded \in BOOLEAN
  PROVE  Remembered(Merged(Remembered(it, loaded), p), loaded) = Remembered(Merged(it, p), loaded)
<1>1. CASE loaded
  BY <1>1 DEF Remembered
<1>2. CASE ~loaded
  <2> DEFINE s == ScrubPreview(it)
  <2>1. s \in Item /\ Merged(it, p) \in Item /\ Merged(s, p) \in Item
    BY ScrubbedItem, MergedItem
  <2>2. /\ s.contentHash = it.contentHash /\ s.pinned = it.pinned /\ s.tags = it.tags
        /\ s.createdAt = it.createdAt /\ s.expiresAt = it.expiresAt /\ s.byteLength = it.byteLength
    BY ScrubbedItem
  <2> HIDE DEF s
  <2>3. /\ Merged(s, p).contentHash = Merged(it, p).contentHash
        /\ Merged(s, p).pinned = Merged(it, p).pinned /\ Merged(s, p).tags = Merged(it, p).tags
        /\ Merged(s, p).createdAt = Merged(it, p).createdAt
        /\ Merged(s, p).updatedAt = Merged(it, p).updatedAt
        /\ Merged(s, p).expiresAt = Merged(it, p).expiresAt
        /\ Merged(s, p).byteLength = Merged(it, p).byteLength
    BY <2>1, <2>2, MergedItem
  <2>4. ScrubPreview(Merged(s, p)) = ScrubPreview(Merged(it, p))
    <3> DEFINE a == Merged(s, p)
               b == Merged(it, p)
    <3>1. a \in Item /\ b \in Item
      BY <2>1
    <3> HIDE DEF a, b
    <3>2. ScrubPreview(a) = [contentHash |-> a.contentHash, title |-> FALSE, preview |-> FALSE,
                             pinned |-> a.pinned, tags |-> a.tags, createdAt |-> a.createdAt,
                             updatedAt |-> a.updatedAt, expiresAt |-> a.expiresAt,
                             byteLength |-> a.byteLength]
      BY <3>1, ScrubbedItem
    <3>3. ScrubPreview(b) = [contentHash |-> b.contentHash, title |-> FALSE, preview |-> FALSE,
                             pinned |-> b.pinned, tags |-> b.tags, createdAt |-> b.createdAt,
                             updatedAt |-> b.updatedAt, expiresAt |-> b.expiresAt,
                             byteLength |-> b.byteLength]
      BY <3>1, ScrubbedItem
    <3>4. /\ a.contentHash = b.contentHash /\ a.pinned = b.pinned /\ a.tags = b.tags
          /\ a.createdAt = b.createdAt /\ a.updatedAt = b.updatedAt
          /\ a.expiresAt = b.expiresAt /\ a.byteLength = b.byteLength
      BY <2>3 DEF a, b
    <3>5. ScrubPreview(a) = ScrubPreview(b)
      BY <3>2, <3>3, <3>4
    <3> QED BY <3>5 DEF a, b
  <2> QED BY <1>2, <2>4 DEF Remembered, s
<1> QED BY <1>1, <1>2

LEMMA UntaggedRemembered ==
  ASSUME NEW it \in Item, NEW t, NEW loaded \in BOOLEAN
  PROVE  Remembered([it EXCEPT !.tags = it.tags \ {t}], loaded) =
           IF t \in it.tags
           THEN Remembered([Remembered(it, loaded) EXCEPT !.tags = it.tags \ {t}], loaded)
           ELSE Remembered(it, loaded)
<1> DEFINE u == [it EXCEPT !.tags = it.tags \ {t}]
           s == ScrubPreview(it)
           v == [s EXCEPT !.tags = s.tags \ {t}]
<1>0. s \in Item /\ s.tags = it.tags
  BY ScrubbedItem
<1>1. u \in Item /\ s \in Item /\ v \in Item /\ s.tags = it.tags
  <2> HIDE DEF s
  <2> QED BY <1>0, UntaggedItem
<1>2. t \notin it.tags => u = it
  <2>1. t \notin it.tags => it.tags \ {t} = it.tags
    OBVIOUS
  <2> QED BY <2>1, UntaggedItem, ItemIs
<1>3. ScrubPreview(v) = ScrubPreview(u)
  <2>1. /\ u.contentHash = it.contentHash /\ u.pinned = it.pinned /\ u.tags = it.tags \ {t}
        /\ u.createdAt = it.createdAt /\ u.expiresAt = it.expiresAt
        /\ u.byteLength = it.byteLength /\ u.updatedAt = it.updatedAt
    BY UntaggedItem
  <2>2. /\ v.contentHash = s.contentHash /\ v.pinned = s.pinned /\ v.tags = s.tags \ {t}
        /\ v.createdAt = s.createdAt /\ v.expiresAt = s.expiresAt
        /\ v.byteLength = s.byteLength /\ v.updatedAt = s.updatedAt
    BY <1>1, UntaggedItem
  <2>3. /\ s.contentHash = it.contentHash /\ s.pinned = it.pinned /\ s.tags = it.tags
        /\ s.createdAt = it.createdAt /\ s.expiresAt = it.expiresAt
        /\ s.byteLength = it.byteLength /\ s.updatedAt = it.updatedAt
    BY ScrubbedItem
  <2> HIDE DEF u, s, v
  <2>4. /\ v.contentHash = u.contentHash /\ v.pinned = u.pinned /\ v.tags = u.tags
        /\ v.createdAt = u.createdAt /\ v.expiresAt = u.expiresAt
        /\ v.byteLength = u.byteLength /\ v.updatedAt = u.updatedAt
    BY <2>1, <2>2, <2>3
  <2>5. \A x \in {u, v} : ScrubPreview(x) =
          [contentHash |-> x.contentHash, title |-> FALSE, preview |-> FALSE,
           pinned |-> x.pinned, tags |-> x.tags, createdAt |-> x.createdAt,
           updatedAt |-> x.updatedAt, expiresAt |-> x.expiresAt, byteLength |-> x.byteLength]
    BY <1>1, ScrubbedItem
  <2> QED BY <2>4, <2>5
<1>4. CASE loaded
  BY <1>2, <1>4 DEF Remembered
<1>5. CASE ~loaded
  BY <1>1, <1>2, <1>3, <1>5 DEF Remembered
<1> QED BY <1>4, <1>5

LEMMA ScrubbedRemembered ==
  ASSUME NEW it \in Item, NEW loaded \in BOOLEAN
  PROVE  ScrubPreview(Remembered(it, loaded)) = Remembered(it, FALSE)
<1> DEFINE s == ScrubPreview(it)
<1>1. /\ s \in Item /\ s.contentHash = it.contentHash /\ s.pinned = it.pinned /\ s.tags = it.tags
      /\ s.createdAt = it.createdAt /\ s.expiresAt = it.expiresAt
      /\ s.byteLength = it.byteLength /\ s.updatedAt = it.updatedAt
  BY ScrubbedItem
<1>2. s = [contentHash |-> it.contentHash, title |-> FALSE, preview |-> FALSE,
           pinned |-> it.pinned, tags |-> it.tags, createdAt |-> it.createdAt,
           updatedAt |-> it.updatedAt, expiresAt |-> it.expiresAt, byteLength |-> it.byteLength]
  BY ScrubbedItem
<1> HIDE DEF s
<1>3. ScrubPreview(s) = s
  BY <1>1, <1>2, ScrubbedItem
<1> QED BY <1>3 DEF Remembered, s

(* A new row for a content that has none.                                   *)
LEMMA AddsRow ==
  ASSUME HistoryAssumption, EvictInv, AgreeInv, NEW c \in Contents, NEW i \in Fresh,
         Serving, ~Known(c), LoggedAdd(i, NewItem(c))
  PROVE  /\ book'.items = With(book.items, i, NewItem(c)) /\ book'.tabs = book.tabs
         /\ i \notin DOMAIN book.items /\ i \notin DOMAIN items
         /\ \A j \in DOMAIN book.items : book.items[j].contentHash # c
         /\ OneRowEach(book'.items)
<1>1. book' = [items |-> With(book.items, i, NewItem(c)), tabs |-> book.tabs]
  <2>1. i \in Ids
    BY DEF Fresh
  <2> QED BY <2>1, AddEffect DEF EvictInv
<1>2. i \notin DOMAIN book.items /\ i \notin DOMAIN items
  BY DEF Fresh
<1>3. \A j \in DOMAIN book.items : book.items[j].contentHash # c
  BY DEF Serving, AgreeInv, Known, Hashes
<1>4. NewItem(c).contentHash = c
  BY NewItemType DEF EvictInv, HistoryTypes
<1>5. OneRowEach(With(book.items, i, NewItem(c)))
  BY <1>2, <1>3, <1>4 DEF With, OneRowEach, AgreeInv
<1> QED BY <1>1, <1>2, <1>3, <1>5

LEMMA IngestAgrees ==
  ASSUME HistoryAssumption, EvictInv, AgreeInv, NEW c \in Contents, NEW i \in Ids, IngestNew(c, i)
  PROVE  AgreeInv'
<1>1. /\ Serving /\ ~Known(c) /\ i \in Fresh /\ LoggedAdd(i, NewItem(c)) /\ proc = "serving"
  BY DEF IngestNew, Serving
<1>2. /\ book'.items = With(book.items, i, NewItem(c)) /\ book'.tabs = book.tabs
      /\ i \notin DOMAIN book.items /\ i \notin DOMAIN items
      /\ \A j \in DOMAIN book.items : book.items[j].contentHash # c
      /\ OneRowEach(book'.items)
  BY <1>1, AddsRow
<1>3. /\ items' = With(items, i, Remembered(NewItem(c), previewsLoaded))
      /\ byHash' = With(byHash, c, i) /\ ord' = Append(ord, i) /\ added' = Append(added, i)
      /\ UNCHANGED <<proc, previewsLoaded, explicitTabs>>
  BY DEF IngestNew, LoggedAdd, Remember
<1>4. NewItem(c).contentHash = c
  BY NewItemType DEF EvictInv, HistoryTypes
<1>5. /\ DOMAIN items' = DOMAIN book'.items
      /\ \A j \in DOMAIN items' : items'[j] = Remembered(book'.items[j], previewsLoaded)
  BY <1>1, <1>2, <1>3 DEF With, AgreeInv
<1>6. Hashes(byHash', book'.items)
  <2>1. Hashes(byHash, book.items)
    BY <1>1 DEF AgreeInv
  <2>2. /\ DOMAIN byHash' = DOMAIN byHash \cup {c} /\ Map(byHash')
        /\ \A d \in DOMAIN byHash : d # c => byHash'[d] = byHash[d]
        /\ byHash'[c] = i
    BY <1>3 DEF With, Map
  <2>3. /\ DOMAIN book'.items = DOMAIN book.items \cup {i} /\ book'.items[i].contentHash = c
        /\ \A j \in DOMAIN book.items : book'.items[j] = book.items[j]
    BY <1>2, <1>4 DEF With
  <2> QED BY <1>2, <2>1, <2>2, <2>3 DEF Hashes
<1> QED BY <1>1, <1>2, <1>3, <1>5, <1>6 DEF AgreeInv

LEMMA ChangeAgrees ==
  ASSUME HistoryAssumption, EvictInv, AgreeInv, Changes
  PROVE  AgreeInv'
<1>1. Serving /\ \E i \in DOMAIN items, p \in Patches : Updated(i, p)
  BY ChangesUpdate DEF EvictInv
<1>2. PICK i \in DOMAIN items, p \in Patches : Updated(i, p)
  BY <1>1
<1>3. /\ proc = "serving" /\ DOMAIN items = DOMAIN book.items
      /\ \A j \in DOMAIN items : items[j] = Remembered(book.items[j], previewsLoaded)
      /\ Hashes(byHash, book.items)
  BY <1>1 DEF AgreeInv, Serving
<1>4. /\ book' = [items |-> Patched(book.items, i, p), tabs |-> book.tabs]
      /\ items' = With(items, i, Remembered(Merged(items[i], p), previewsLoaded))
  BY <1>2, UpdateEffect DEF EvictInv
<1>5. UNCHANGED <<added, proc, explicitTabs, ord, byHash, previewsLoaded>>
  BY <1>2 DEF Updated, Logged
<1>6. /\ book'.items = With(book.items, i, Merged(book.items[i], p)) /\ book'.tabs = book.tabs
  BY <1>3, <1>4 DEF Patched
<1>7. book.items[i] \in Item /\ previewsLoaded \in BOOLEAN
  BY <1>3 DEF EvictInv, HistoryTypes, ItemMap
<1>8. /\ Remembered(Merged(items[i], p), previewsLoaded)
           = Remembered(Merged(book.items[i], p), previewsLoaded)
      /\ Merged(book.items[i], p).contentHash = book.items[i].contentHash
  BY <1>3, <1>7, MergedRemembered, MergedItem
<1>9. /\ DOMAIN items' = DOMAIN book'.items /\ DOMAIN book'.items = DOMAIN book.items
      /\ \A j \in DOMAIN items' : items'[j] = Remembered(book'.items[j], previewsLoaded)
      /\ \A j \in DOMAIN book.items : book'.items[j].contentHash = book.items[j].contentHash
  BY <1>3, <1>4, <1>6, <1>8 DEF With
<1>10. OneRowEach(book'.items) /\ Hashes(byHash, book'.items)
  BY <1>3, <1>9 DEF AgreeInv, OneRowEach, Hashes
<1> QED BY <1>3, <1>5, <1>6, <1>9, <1>10 DEF AgreeInv

LEMMA RemovalAgrees ==
  ASSUME EvictInv, AgreeInv, Removals
  PROVE  AgreeInv'
<1>1. Serving /\ \E S \in SUBSET DOMAIN items : Removed(S) \/ RemovedAndDied(S)
  BY RemovalsRemove
<1>2. PICK S \in SUBSET DOMAIN items : Removed(S) \/ RemovedAndDied(S)
  BY <1>1
<1>3. /\ proc = "serving" /\ DOMAIN items = DOMAIN book.items
      /\ \A j \in DOMAIN items : items[j] = Remembered(book.items[j], previewsLoaded)
      /\ Hashes(byHash, book.items) /\ ord = added /\ explicitTabs = book.tabs
  BY <1>1 DEF AgreeInv, Serving
<1>4. LoggedDeletes(S)
  BY <1>2 DEF Removed, RemovedAndDied
<1>5. /\ book'.items = [i \in DOMAIN book.items \ S |-> book.items[i]] /\ book'.tabs = book.tabs
  <2>1. book' = [items |-> [i \in DOMAIN book.items \ S |-> book.items[i]], tabs |-> book.tabs]
    BY <1>4, DeleteEffect DEF EvictInv
  <2> QED BY <2>1
<1>6. OneRowEach(book'.items)
  BY <1>5 DEF AgreeInv, OneRowEach
<1>7. CASE RemovedAndDied(S)
  BY <1>6, <1>7 DEF RemovedAndDied, Die, AgreeInv
<1>8. CASE Removed(S)
  <2>1. /\ items' = [i \in DOMAIN items \ S |-> items[i]]
        /\ ord' = Only(ord, DOMAIN items \ S) /\ added' = Only(added, DOMAIN book.items \ S)
        /\ byHash' = [c \in {d \in DOMAIN byHash : byHash[d] \notin S} |-> byHash[c]]
        /\ UNCHANGED <<proc, previewsLoaded, explicitTabs>>
    BY <1>4, <1>8 DEF Removed, Forget, LoggedDeletes
  <2>2. /\ DOMAIN items' = DOMAIN book'.items
        /\ \A j \in DOMAIN items' : items'[j] = Remembered(book'.items[j], previewsLoaded)
        /\ ord' = added' /\ explicitTabs' = book'.tabs
    BY <1>3, <1>5, <2>1
  <2>3. Hashes(byHash', book'.items)
    <3>1. /\ Map(byHash') /\ DOMAIN byHash' = {d \in DOMAIN byHash : byHash[d] \notin S}
          /\ \A d \in DOMAIN byHash' : byHash'[d] = byHash[d]
      BY <2>1 DEF Map
    <3>2. /\ DOMAIN book'.items = DOMAIN book.items \ S
          /\ \A i \in DOMAIN book'.items : book'.items[i] = book.items[i]
      BY <1>5
    <3>3. /\ DOMAIN byHash = {book.items[i].contentHash : i \in DOMAIN book.items}
          /\ \A i \in DOMAIN book.items : byHash[book.items[i].contentHash] = i
      BY <1>3 DEF Hashes
    <3>4. \A i \in DOMAIN book'.items : /\ book'.items[i].contentHash \in DOMAIN byHash'
                                        /\ byHash'[book'.items[i].contentHash] = i
      BY <3>1, <3>2, <3>3
    <3>5. \A d \in DOMAIN byHash' : \E i \in DOMAIN book'.items : d = book'.items[i].contentHash
      BY <3>1, <3>2, <3>3
    <3> QED BY <3>1, <3>4, <3>5 DEF Hashes
  <2> QED BY <1>6, <2>1, <2>2, <2>3 DEF AgreeInv
<1> QED BY <1>2, <1>7, <1>8

LEMMA TabAgrees ==
  ASSUME EvictInv, AgreeInv, NEW t \in Tabs, CreateTab(t) \/ RemoveTab(t)
  PROVE  AgreeInv'
<1>1. /\ proc = "serving" /\ DOMAIN items = DOMAIN book.items
      /\ \A j \in DOMAIN items : items[j] = Remembered(book.items[j], previewsLoaded)
      /\ Hashes(byHash, book.items) /\ ord = added /\ explicitTabs = book.tabs
  BY DEF AgreeInv, CreateTab, RemoveTab, Serving
<1>2. CASE CreateTab(t)
  <2>1. book' = [book EXCEPT !.tabs = book.tabs \cup {t}]
    BY <1>2 DEF CreateTab, Logged, ApplyEvent, TabCreated
  <2>2. book'.items = book.items /\ book'.tabs = book.tabs \cup {t}
    BY <2>1 DEF EvictInv, HistoryTypes
  <2>3. /\ UNCHANGED <<added, proc, items, byHash, previewsLoaded, ord>>
        /\ explicitTabs' = explicitTabs \cup {t}
    BY <1>2 DEF CreateTab, Logged
  <2> QED BY <1>1, <2>2, <2>3 DEF AgreeInv
<1>3. CASE RemoveTab(t)
  <2>1. /\ book' = [items |-> Untagged(book.items, t), tabs |-> book.tabs \ {t}]
        /\ DOMAIN book'.items = DOMAIN book.items /\ DOMAIN items' = DOMAIN items
        /\ \A i \in DOMAIN book.items :
             book'.items[i] = [book.items[i] EXCEPT !.tags = book.items[i].tags \ {t}]
        /\ \A i \in DOMAIN items :
             items'[i] = IF t \in items[i].tags
                         THEN Remembered([items[i] EXCEPT !.tags = items[i].tags \ {t}], previewsLoaded)
                         ELSE items[i]
    BY <1>3, RemoveTabEffect DEF EvictInv
  <2>2. book'.tabs = book.tabs \ {t}
    BY <2>1
  <2>3. /\ UNCHANGED <<added, proc, byHash, previewsLoaded, ord>>
        /\ explicitTabs' = explicitTabs \ {t}
    BY <1>3 DEF RemoveTab, Logged
  <2>4. ASSUME NEW i \in DOMAIN items
        PROVE  /\ items'[i] = Remembered(book'.items[i], previewsLoaded)
               /\ book'.items[i].contentHash = book.items[i].contentHash
    <3>1. /\ book.items[i] \in Item /\ previewsLoaded \in BOOLEAN
          /\ items[i] = Remembered(book.items[i], previewsLoaded)
      BY <1>1 DEF EvictInv, HistoryTypes, ItemMap
    <3>2. items[i].tags = book.items[i].tags
      BY <3>1, RememberedItem
    <3>3. book'.items[i] = [book.items[i] EXCEPT !.tags = book.items[i].tags \ {t}]
      BY <1>1, <2>1
    <3>4. items'[i] = IF t \in book.items[i].tags
                      THEN Remembered([items[i] EXCEPT !.tags = book.items[i].tags \ {t}], previewsLoaded)
                      ELSE items[i]
      BY <2>1, <3>2
    <3> DEFINE it == book.items[i]
    <3>5. Remembered([it EXCEPT !.tags = it.tags \ {t}], previewsLoaded) =
            IF t \in it.tags
            THEN Remembered([Remembered(it, previewsLoaded) EXCEPT !.tags = it.tags \ {t}], previewsLoaded)
            ELSE Remembered(it, previewsLoaded)
      <4>1. it \in Item /\ previewsLoaded \in BOOLEAN
        BY <3>1
      <4> HIDE DEF it
      <4> QED BY <4>1, UntaggedRemembered
    <3>6. items'[i] = Remembered([book.items[i] EXCEPT !.tags = book.items[i].tags \ {t}], previewsLoaded)
      BY <3>1, <3>4, <3>5
    <3> QED BY <3>1, <3>3, <3>6, UntaggedItem
  <2>5. OneRowEach(book'.items) /\ Hashes(byHash, book'.items)
    BY <1>1, <2>1, <2>4 DEF AgreeInv, OneRowEach, Hashes
  <2> QED BY <1>1, <2>1, <2>2, <2>3, <2>4, <2>5 DEF AgreeInv
<1> QED BY <1>2, <1>3

LEMMA LoadAgrees ==
  ASSUME EvictInv, AgreeInv, Loaded
  PROVE  AgreeInv'
<1>1. /\ book' = book /\ added' = added /\ ord' = added /\ explicitTabs' = book.tabs
      /\ previewsLoaded' = (loading = "running")
      /\ items' = [i \in DOMAIN book.items |-> Remembered(book.items[i], previewsLoaded')]
      /\ byHash' = ByHash(book.items, added)
  BY DEF Loaded
<1>2. OneRowEach(book.items) /\ Hashes(byHash', book.items)
  BY <1>1, HashesAreByHash DEF AgreeInv
<1> QED BY <1>1, <1>2 DEF AgreeInv

LEMMA EvictionAgrees ==
  ASSUME EvictInv, AgreeInv, EvictPreviewCache
  PROVE  AgreeInv'
<1>1. /\ UNCHANGED <<book, added, ord, explicitTabs, byHash, proc>> /\ previewsLoaded' = FALSE
      /\ proc = "serving" /\ items' = [i \in DOMAIN items |-> ScrubPreview(items[i])]
  BY DEF EvictPreviewCache, disk
<1>2. /\ DOMAIN items = DOMAIN book.items
      /\ \A j \in DOMAIN items : items[j] = Remembered(book.items[j], previewsLoaded)
  BY <1>1 DEF AgreeInv
<1>3. \A i \in DOMAIN items : items'[i] = Remembered(book.items[i], FALSE)
  <2> SUFFICES ASSUME NEW i \in DOMAIN items
               PROVE  items'[i] = Remembered(book.items[i], FALSE)
    OBVIOUS
  <2>1. book.items[i] \in Item /\ previewsLoaded \in BOOLEAN
    BY <1>2 DEF EvictInv, HistoryTypes, ItemMap
  <2> QED BY <1>1, <1>2, <2>1, ScrubbedRemembered
<1> QED BY <1>1, <1>2, <1>3 DEF AgreeInv

(* Nothing is loaded by a process that is not there.                        *)
Attended == loading # "no" => proc # "down"

LEMMA AttendedStep == HistoryAssumption /\ EvictInv /\ Attended /\ [Next]_vars => Attended'
<1> SUFFICES ASSUME HistoryAssumption, EvictInv, Attended, [Next]_vars
             PROVE  Attended'
  OBVIOUS
<1>1. CASE Changes
  <2>1. UNCHANGED <<loading, proc>>
    BY <1>1, ChangesUpdate DEF EvictInv, Updated, load
  <2> QED BY <2>1 DEF Attended
<1>2. CASE Removals
  <2>1. UNCHANGED <<loading, proc>> \/ loading' = "no"
    BY <1>2, RemovalsRemove DEF Removed, RemovedAndDied, Die, load
  <2> QED BY <2>1 DEF Attended
<1>3. CASE Load \/ EvictPreviewCache
  BY <1>3 DEF Load, EvictPreviewCache, Attended
<1>4. CASE ~Changes /\ ~Removals /\ ~Load /\ ~EvictPreviewCache
  <2>1. UNCHANGED <<loading, proc>> \/ loading' = "no" \/ proc' = "starting"
    BY <1>4 DEF Next, Start, Loaded, LoadFails, SetMaxItems, Tick, Crash, Die, IngestStep, ItemStep,
                Changes, Removals, IngestNew, IngestFails, IngestCrashes, CreateTab, RemoveTab,
                RemoveGone, vars, memory, load
  <2> QED BY <2>1 DEF Attended
<1> QED BY <1>1, <1>2, <1>3, <1>4

LEMMA AgreeStep ==
  HistoryAssumption /\ "startup" \notin Faults /\ EvictInv /\ Attended /\ AgreeInv /\ [Next]_vars
    => AgreeInv'
<1> SUFFICES ASSUME HistoryAssumption, "startup" \notin Faults, EvictInv, Attended, AgreeInv, [Next]_vars
             PROVE  AgreeInv'
  OBVIOUS
<1>1. CASE Start \/ Load \/ LoadFails \/ Tick \/ RemoveGone \/ UNCHANGED vars
           \/ (\E n \in LimitChoices : SetMaxItems(n)) \/ (\E c \in Contents : IngestFails(c))
  <2>1. LoadFails => proc = "serving"
    BY DEF LoadFails, Attended, EvictInv, HistoryTypes
  <2>2. /\ UNCHANGED <<book, added, items, explicitTabs, ord, byHash, previewsLoaded>>
        /\ proc' = "serving" => proc = "serving"
    BY <1>1, <2>1 DEF Start, Load, LoadFails, Tick, RemoveGone, SetMaxItems, IngestFails, NotLogged,
                      vars, disk, memory
  <2> QED BY <2>2 DEF AgreeInv
<1>2. CASE Crash
  BY <1>2 DEF Crash, Die, disk, AgreeInv
<1>3. ASSUME NEW c \in Contents, IngestCrashes(c)
      PROVE  AgreeInv'
  <2>1. proc' = "down" /\ Serving /\ ~Known(c)
    BY <1>3 DEF IngestCrashes, Die
  <2>2. CASE NotLogged
    BY <2>1, <2>2 DEF NotLogged, AgreeInv
  <2>3. CASE \E i \in Fresh : LoggedAdd(i, NewItem(c))
    <3>1. OneRowEach(book'.items)
      BY <2>1, <2>3, AddsRow
    <3> QED BY <2>1, <3>1 DEF AgreeInv
  <2> QED BY <1>3, <2>2, <2>3 DEF IngestCrashes
<1>4. CASE Changes \/ Removals
  BY <1>4, ChangeAgrees, RemovalAgrees
<1> QED
  BY <1>1, <1>2, <1>3, <1>4, LoadAgrees, EvictionAgrees, IngestAgrees, TabAgrees
     DEF Next, IngestStep, ItemStep, Changes, Removals

LEMMA AgreeInit == Init => EvictInv /\ Attended /\ AgreeInv
<1>1. Init => DOMAIN book.items = {}
  BY NothingThere DEF Init, EmptyBook
<1> QED BY EvictInit, <1>1 DEF Init, Attended, AgreeInv, OneRowEach

(* What memory holds is what a replay of the log would build, whatever was  *)
(* copied, changed, removed or reloaded, whichever calls to the store       *)
(* failed and wherever the process died -- unless it is the first load that *)
(* fails: index.ts then serves from an empty memory.                        *)
THEOREM MemoryIsTheLog == "startup" \notin Faults /\ Spec => []AgreesWithLog
<1> SUFFICES ASSUME "startup" \notin Faults
             PROVE  Spec => []AgreesWithLog
  OBVIOUS
<1>1. Init => EvictInv /\ Attended /\ AgreeInv
  BY AgreeInit
<1>2. EvictInv /\ Attended /\ AgreeInv /\ [Next]_vars => (EvictInv /\ Attended /\ AgreeInv)'
  BY HistoryAssumption, EvictStep, AttendedStep, AgreeStep
<1>3. EvictInv /\ AgreeInv => AgreesWithLog
  <2> SUFFICES ASSUME EvictInv, AgreeInv, proc = "serving"
               PROVE  /\ items = [i \in DOMAIN book.items |-> Remembered(book.items[i], previewsLoaded)]
                      /\ byHash = ByHash(book.items, added)
    BY DEF AgreesWithLog, AgreeInv
  <2>1. items = [i \in DOMAIN items |-> items[i]]
    BY DEF EvictInv, HistoryTypes, ItemMap, Map
  <2>2. items = [i \in DOMAIN book.items |-> Remembered(book.items[i], previewsLoaded)]
    BY <2>1 DEF AgreeInv
  <2>3. byHash = ByHash(book.items, added)
    BY HashesAreByHash DEF AgreeInv
  <2> QED BY <2>2, <2>3
<1> QED BY <1>1, <1>2, <1>3, PTL DEF Spec

(* "Never a second row" (dedupe.ts) for one content, under the same         *)
(* condition.                                                               *)
THEOREM OneRowPerContent == "startup" \notin Faults /\ Spec => []NeverASecondRow
<1> SUFFICES ASSUME "startup" \notin Faults
             PROVE  Spec => []NeverASecondRow
  OBVIOUS
<1>1. Init => EvictInv /\ Attended /\ AgreeInv
  BY AgreeInit
<1>2. EvictInv /\ Attended /\ AgreeInv /\ [Next]_vars => (EvictInv /\ Attended /\ AgreeInv)'
  BY HistoryAssumption, EvictStep, AttendedStep, AgreeStep
<1>3. AgreeInv => NeverASecondRow
  BY DEF AgreeInv, OneRowEach, NeverASecondRow
<1> QED BY <1>1, <1>2, <1>3, PTL DEF Spec

-----------------------------------------------------------------------------
(* Blobs.                                                                   *)
BlobsThere == BlobIds(book.items) \subseteq blobs

DeadRemembered ==
  proc = "serving" => (dead \cap blobs) \ BlobIds(book.items) \subseteq pendingBlobDeletes

LEMMA SameContents ==
  ASSUME NEW f, NEW g, DOMAIN f = DOMAIN g,
         \A i \in DOMAIN f : f[i].contentHash = g[i].contentHash
  PROVE  BlobIds(f) = BlobIds(g)
  BY DEF BlobIds

LEMMA RememberedBlobs ==
  ASSUME NEW its, NEW bk, NEW loaded \in BOOLEAN, ItemMap(bk), DOMAIN its = DOMAIN bk,
         \A i \in DOMAIN its : its[i] = Remembered(bk[i], loaded)
  PROVE  BlobIds(its) = BlobIds(bk) /\ \A i \in DOMAIN its : its[i].contentHash = bk[i].contentHash
<1>1. \A i \in DOMAIN its : its[i].contentHash = bk[i].contentHash
  BY RememberedItem DEF ItemMap
<1> QED BY <1>1, SameContents

(* The blobs the log names, before and after a step.                        *)
LEMMA AddBlobs ==
  ASSUME HistoryAssumption, EvictInv, AgreeInv, NEW c \in Contents, NEW i \in Fresh,
         Serving, ~Known(c), LoggedAdd(i, NewItem(c))
  PROVE  BlobIds(book'.items) = BlobIds(book.items) \cup Refs[c]
<1>1. /\ book'.items = With(book.items, i, NewItem(c)) /\ i \notin DOMAIN book.items
  BY AddsRow
<1>2. NewItem(c).contentHash = c
  BY NewItemType DEF EvictInv, HistoryTypes
<1>3. /\ DOMAIN book'.items = DOMAIN book.items \cup {i} /\ book'.items[i].contentHash = c
      /\ \A j \in DOMAIN book.items : book'.items[j] = book.items[j]
  BY <1>1, <1>2 DEF With
<1> QED BY <1>3 DEF BlobIds

LEMMA ChangeBlobs ==
  ASSUME HistoryAssumption, EvictInv, AgreeInv, Changes
  PROVE  BlobIds(book'.items) = BlobIds(book.items) /\ UNCHANGED <<blobs, dead, pendingBlobDeletes, proc>>
<1>1. PICK i \in DOMAIN items, p \in Patches : Serving /\ Updated(i, p)
  BY ChangesUpdate DEF EvictInv
<1>2. UNCHANGED <<blobs, dead, pendingBlobDeletes, proc>>
  BY <1>1 DEF Updated, Logged
<1>3. book'.items = Patched(book.items, i, p) /\ i \in DOMAIN book.items
  <2>1. book' = [items |-> Patched(book.items, i, p), tabs |-> book.tabs]
    BY <1>1, UpdateEffect DEF EvictInv
  <2> QED BY <1>1, <2>1 DEF AgreeInv, Serving
<1>4. book'.items = With(book.items, i, Merged(book.items[i], p))
  BY <1>3 DEF Patched
<1>5. Merged(book.items[i], p).contentHash = book.items[i].contentHash
  BY <1>3, MergedItem DEF EvictInv, HistoryTypes, ItemMap
<1>6. /\ DOMAIN book'.items = DOMAIN book.items
      /\ \A j \in DOMAIN book.items : book'.items[j].contentHash = book.items[j].contentHash
  BY <1>3, <1>4, <1>5 DEF With
<1> QED BY <1>2, <1>6, SameContents

LEMMA TabBlobs ==
  ASSUME EvictInv, AgreeInv, NEW t \in Tabs, CreateTab(t) \/ RemoveTab(t)
  PROVE  BlobIds(book'.items) = BlobIds(book.items) /\ UNCHANGED <<blobs, dead, pendingBlobDeletes, proc>>
<1>1. UNCHANGED <<blobs, dead, pendingBlobDeletes, proc>>
  BY DEF CreateTab, RemoveTab, Logged
<1>2. CASE CreateTab(t)
  <2>1. book' = [book EXCEPT !.tabs = book.tabs \cup {t}]
    BY <1>2 DEF CreateTab, Logged, ApplyEvent, TabCreated
  <2>2. book'.items = book.items
    BY <2>1 DEF EvictInv, HistoryTypes
  <2> QED BY <1>1, <2>2
<1>3. CASE RemoveTab(t)
  <2>1. /\ DOMAIN book'.items = DOMAIN book.items
        /\ \A i \in DOMAIN book.items :
             book'.items[i] = [book.items[i] EXCEPT !.tags = book.items[i].tags \ {t}]
    BY <1>3, RemoveTabEffect DEF EvictInv
  <2>2. ASSUME NEW i \in DOMAIN book.items
        PROVE  book'.items[i].contentHash = book.items[i].contentHash
    <3>1. book.items[i] \in Item
      BY DEF EvictInv, HistoryTypes, ItemMap
    <3>2. book'.items[i] = [book.items[i] EXCEPT !.tags = book.items[i].tags \ {t}]
      BY <2>1
    <3> QED BY <3>1, <3>2, UntaggedItem
  <2> QED BY <1>1, <2>1, <2>2, SameContents
<1> QED BY <1>2, <1>3

(* What is removed frees the blobs that only it named.                      *)
LEMMA RemovalBlobs ==
  ASSUME EvictInv, AgreeInv, Serving, NEW S \in SUBSET DOMAIN items, LoggedDeletes(S)
  PROVE  /\ BlobIds([i \in DOMAIN items \ S |-> items[i]]) = BlobIds(book'.items)
         /\ BlobIds(book.items) \subseteq BlobIds(book'.items) \cup BlobsOf(S)
         /\ BlobIds(book'.items) \subseteq BlobIds(book.items)
         /\ dead' = dead \cup BlobsOf(S)
<1>1. /\ DOMAIN items = DOMAIN book.items
      /\ \A i \in DOMAIN items : items[i].contentHash = book.items[i].contentHash
  <2>1. /\ DOMAIN items = DOMAIN book.items /\ ItemMap(book.items) /\ previewsLoaded \in BOOLEAN
        /\ \A j \in DOMAIN items : items[j] = Remembered(book.items[j], previewsLoaded)
    BY DEF AgreeInv, Serving, EvictInv, HistoryTypes
  <2> QED BY <2>1, RememberedBlobs
<1>2. book'.items = [i \in DOMAIN book.items \ S |-> book.items[i]]
  <2>1. book' = [items |-> [i \in DOMAIN book.items \ S |-> book.items[i]], tabs |-> book.tabs]
    BY DeleteEffect DEF EvictInv
  <2> QED BY <2>1
<1>3. dead' = dead \cup BlobsOf(S)
  BY <1>1 DEF LoggedDeletes, BlobsOf
<1>4. BlobIds([i \in DOMAIN items \ S |-> items[i]]) = BlobIds(book'.items)
  <2> DEFINE left == [i \in DOMAIN items \ S |-> items[i]]
  <2>1. /\ DOMAIN left = DOMAIN book'.items
        /\ \A i \in DOMAIN left : left[i].contentHash = book'.items[i].contentHash
    BY <1>1, <1>2
  <2> HIDE DEF left
  <2>2. BlobIds(left) = BlobIds(book'.items)
    BY <2>1, SameContents
  <2> QED BY <2>2 DEF left
<1>5. /\ DOMAIN book'.items = DOMAIN book.items \ S
      /\ \A i \in DOMAIN book'.items : book'.items[i] = book.items[i]
  BY <1>2
<1>6. /\ BlobIds(book.items) \subseteq BlobIds(book'.items) \cup BlobsOf(S)
      /\ BlobIds(book'.items) \subseteq BlobIds(book.items)
  BY <1>1, <1>5 DEF BlobIds, BlobsOf
<1> QED BY <1>3, <1>4, <1>6

LEMMA BlobsThereStep ==
     /\ HistoryAssumption /\ "startup" \notin Faults /\ EvictInv /\ Attended /\ AgreeInv
     /\ BlobsThere /\ [Next]_vars
  => BlobsThere'
<1> SUFFICES ASSUME HistoryAssumption, "startup" \notin Faults, EvictInv, Attended, AgreeInv,
                    BlobsThere, [Next]_vars
             PROVE  BlobsThere'
  OBVIOUS
<1>1. ASSUME UNCHANGED <<book, blobs>>
      PROVE  BlobsThere'
  BY <1>1 DEF BlobsThere, BlobIds
<1>2. CASE Start \/ Load \/ LoadFails \/ Tick \/ EvictPreviewCache \/ UNCHANGED vars \/ Crash
           \/ (\E n \in LimitChoices : SetMaxItems(n))
  BY <1>1, <1>2 DEF Start, Load, LoadFails, Tick, EvictPreviewCache, SetMaxItems, Crash, vars, disk
<1>3. CASE Changes
  BY <1>3, ChangeBlobs DEF BlobsThere
<1>4. ASSUME NEW t \in Tabs, CreateTab(t) \/ RemoveTab(t)
      PROVE  BlobsThere'
  BY <1>4, TabBlobs DEF BlobsThere
<1>5. CASE Removals
  <2>1. PICK S \in SUBSET DOMAIN items : Serving /\ (Removed(S) \/ RemovedAndDied(S))
    BY <1>5, RemovalsRemove
  <2>2. LoggedDeletes(S)
    BY <2>1 DEF Removed, RemovedAndDied
  <2>3. /\ BlobIds([i \in DOMAIN items \ S |-> items[i]]) = BlobIds(book'.items)
        /\ BlobIds(book'.items) \subseteq BlobIds(book.items)
    BY <2>1, <2>2, RemovalBlobs
  <2>4. \E gone : blobs' = blobs \ gone /\ gone \cap BlobIds([i \in DOMAIN items \ S |-> items[i]]) = {}
    <3>1. Removed(S) => items' = [i \in DOMAIN items \ S |-> items[i]]
      BY DEF Removed, Forget
    <3>2. CASE Removed(S)
      <4> DEFINE left == [i \in DOMAIN items \ S |-> items[i]]
      <4>1. items' = left /\ DeleteUnreferenced(pendingBlobDeletes \cup BlobsOf(S), items')
        BY <3>1, <3>2 DEF Removed
      <4> HIDE DEF left
      <4>2. DeleteUnreferenced(pendingBlobDeletes \cup BlobsOf(S), left)
        BY <4>1
      <4> QED BY <4>2 DEF DeleteUnreferenced, left
    <3>3. CASE RemovedAndDied(S)
      BY <3>3 DEF RemovedAndDied, DeleteSome
    <3> QED BY <2>1, <3>2, <3>3
  <2> QED BY <2>3, <2>4 DEF BlobsThere
<1>6. ASSUME NEW c \in Contents, NEW i \in Ids, IngestNew(c, i)
      PROVE  BlobsThere'
  <2>1. Serving /\ ~Known(c) /\ i \in Fresh /\ LoggedAdd(i, NewItem(c)) /\ blobs' = blobs \cup Refs[c]
    BY <1>6 DEF IngestNew
  <2> QED BY <2>1, AddBlobs DEF BlobsThere
<1>7. ASSUME NEW c \in Contents, IngestFails(c)
      PROVE  BlobsThere'
  BY <1>7 DEF IngestFails, NotLogged, BlobsThere
<1>8. ASSUME NEW c \in Contents, IngestCrashes(c)
      PROVE  BlobsThere'
  <2>1. Serving /\ ~Known(c)
    BY <1>8 DEF IngestCrashes
  <2>2. CASE blobs \subseteq blobs' /\ NotLogged
    BY <2>2 DEF NotLogged, BlobsThere
  <2>3. CASE blobs' = blobs \cup Refs[c] /\ \E i \in Fresh : LoggedAdd(i, NewItem(c))
    BY <2>1, <2>3, AddBlobs DEF BlobsThere
  <2> QED BY <1>8, <2>2, <2>3 DEF IngestCrashes
<1>9. CASE Loaded
  BY <1>9 DEF Loaded, DeleteUnreferenced, BlobsThere
<1>10. CASE RemoveGone
  <2>1. Serving /\ DeleteUnreferenced(pendingBlobDeletes, items) /\ book' = book
    BY <1>10 DEF RemoveGone
  <2>2. BlobIds(items) = BlobIds(book.items)
    BY <2>1, RememberedBlobs DEF AgreeInv, Serving, EvictInv, HistoryTypes
  <2> QED BY <2>1, <2>2 DEF DeleteUnreferenced, BlobsThere
<1> QED
  BY <1>2, <1>3, <1>4, <1>5, <1>6, <1>7, <1>8, <1>9, <1>10
     DEF Next, IngestStep, ItemStep, Changes, Removals

(* No deletion, retried or resumed after a restart, takes a blob that an    *)
(* item of the log names, whatever else fails.                              *)
THEOREM NamedBlobsStay == "startup" \notin Faults /\ Spec => []BlobsThere
<1> SUFFICES ASSUME "startup" \notin Faults
             PROVE  Spec => []BlobsThere
  OBVIOUS
<1> DEFINE Inv == EvictInv /\ Attended /\ AgreeInv /\ BlobsThere
<1>1. Init => Inv
  <2>1. Init => BlobIds(book.items) = {}
    BY NothingThere DEF Init, EmptyBook, BlobIds
  <2> QED BY AgreeInit, <2>1 DEF Init, BlobsThere
<1>2. Inv /\ [Next]_vars => Inv'
  BY HistoryAssumption, EvictStep, AttendedStep, AgreeStep, BlobsThereStep
<1> QED BY <1>1, <1>2, PTL DEF Spec

LEMMA DeadRememberedStep ==
     /\ HistoryAssumption /\ {"startup", "append", "put"} \cap Faults = {}
     /\ EvictInv /\ Attended /\ AgreeInv /\ DeadRemembered /\ [Next]_vars
  => DeadRemembered'
<1> SUFFICES ASSUME HistoryAssumption, "startup" \notin Faults, "append" \notin Faults,
                    "put" \notin Faults, EvictInv, Attended, AgreeInv, DeadRemembered, [Next]_vars
             PROVE  DeadRemembered'
  OBVIOUS
<1>1. ASSUME UNCHANGED <<book, blobs, dead, pendingBlobDeletes>>, proc' = "serving" => proc = "serving"
      PROVE  DeadRemembered'
  BY <1>1 DEF DeadRemembered, BlobIds
<1>2. CASE Start \/ Load \/ LoadFails \/ Tick \/ EvictPreviewCache \/ UNCHANGED vars
           \/ (\E n \in LimitChoices : SetMaxItems(n))
  <2>1. LoadFails => proc = "serving"
    BY DEF LoadFails, Attended, EvictInv, HistoryTypes
  <2> QED BY <1>1, <1>2, <2>1 DEF Start, Load, LoadFails, Tick, EvictPreviewCache, SetMaxItems, vars,
                                  disk, memory
<1>3. CASE Changes
  BY <1>3, ChangeBlobs DEF DeadRemembered
<1>4. ASSUME NEW t \in Tabs, CreateTab(t) \/ RemoveTab(t)
      PROVE  DeadRemembered'
  BY <1>4, TabBlobs DEF DeadRemembered
<1>5. ASSUME NEW c \in Contents, NEW i \in Ids, IngestNew(c, i)
      PROVE  DeadRemembered'
  <2>1. /\ Serving /\ ~Known(c) /\ i \in Fresh /\ LoggedAdd(i, NewItem(c)) /\ blobs' = blobs \cup Refs[c]
        /\ UNCHANGED <<dead, pendingBlobDeletes, proc>>
    BY <1>5 DEF IngestNew, LoggedAdd
  <2> QED BY <2>1, AddBlobs DEF DeadRemembered
<1>6. ASSUME proc' = "down"
      PROVE  DeadRemembered'
  BY <1>6 DEF DeadRemembered
<1>7. CASE Crash \/ \E c \in Contents : IngestCrashes(c)
  BY <1>6, <1>7 DEF Crash, IngestCrashes, Die
<1>8. ASSUME NEW S \in SUBSET DOMAIN items, Serving, Removed(S)
      PROVE  DeadRemembered'
  <2> DEFINE left == [i \in DOMAIN items \ S |-> items[i]]
  <2>1. /\ items' = left /\ LoggedDeletes(S) /\ proc' = proc /\ proc = "serving"
        /\ DeleteUnreferenced(pendingBlobDeletes \cup BlobsOf(S), items')
    BY <1>8 DEF Removed, Forget, Serving
  <2>2. /\ BlobIds(left) = BlobIds(book'.items) /\ dead' = dead \cup BlobsOf(S)
        /\ BlobIds(book.items) \subseteq BlobIds(book'.items) \cup BlobsOf(S)
    BY <1>8, <2>1, RemovalBlobs
  <2> HIDE DEF left
  <2>3. DeleteUnreferenced(pendingBlobDeletes \cup BlobsOf(S), left)
    BY <2>1
  <2>4. PICK gone : /\ blobs' = blobs \ gone
                    /\ pendingBlobDeletes' =
                         ((pendingBlobDeletes \cup BlobsOf(S)) \ BlobIds(left)) \ gone
    BY <2>3 DEF DeleteUnreferenced
  <2> QED BY <2>1, <2>2, <2>4 DEF DeadRemembered
<1>9. CASE Removals
  <2>1. PICK S \in SUBSET DOMAIN items : Serving /\ (Removed(S) \/ RemovedAndDied(S))
    BY <1>9, RemovalsRemove
  <2> QED BY <1>6, <1>8, <2>1 DEF RemovedAndDied, Die
<1>10. CASE Loaded
  <2>1. /\ DeleteUnreferenced(pendingBlobDeletes \cup dead, book.items)
        /\ UNCHANGED <<book, dead>>
    BY <1>10 DEF Loaded
  <2> QED BY <2>1 DEF DeleteUnreferenced, DeadRemembered
<1>11. CASE RemoveGone
  <2>1. /\ Serving /\ DeleteUnreferenced(pendingBlobDeletes, items) /\ UNCHANGED <<book, dead, proc>>
    BY <1>11 DEF RemoveGone
  <2>2. BlobIds(items) = BlobIds(book.items) /\ proc = "serving"
    BY <2>1, RememberedBlobs DEF AgreeInv, Serving, EvictInv, HistoryTypes
  <2> QED BY <2>1, <2>2 DEF DeleteUnreferenced, DeadRemembered
<1>12. \A c \in Contents : ~IngestFails(c)
  BY DEF IngestFails
<1> QED
  BY <1>2, <1>3, <1>4, <1>5, <1>7, <1>9, <1>10, <1>11, <1>12
     DEF Next, IngestStep, ItemStep, Changes, Removals

(* No deletion, retried or resumed after a restart, takes a blob that an    *)
(* item of the log names, and the blobs of deleted items that are still     *)
(* there are pending: if the first load succeeds, and no copy fails after   *)
(* putBlob wrote a blob (history.ts then leaves what it wrote to nobody).   *)
THEOREM BlobsAreKeptAndSwept ==
  {"startup", "append", "put"} \cap Faults = {} /\ Spec => []BlobsFollowItems
<1> SUFFICES ASSUME {"startup", "append", "put"} \cap Faults = {}
             PROVE  Spec => []BlobsFollowItems
  OBVIOUS
<1> DEFINE Inv == EvictInv /\ Attended /\ AgreeInv /\ BlobsThere /\ DeadRemembered
<1>1. Init => Inv
  <2>1. Init => BlobIds(book.items) = {}
    BY NothingThere DEF Init, EmptyBook, BlobIds
  <2> QED BY AgreeInit, <2>1 DEF Init, BlobsThere, DeadRemembered
<1>2. Inv /\ [Next]_vars => Inv'
  BY HistoryAssumption, EvictStep, AttendedStep, AgreeStep, BlobsThereStep, DeadRememberedStep
<1>3. Inv => BlobsFollowItems
  <2> SUFFICES ASSUME Inv
               PROVE  BlobsFollowItems
    OBVIOUS
  <2>1. proc = "serving" => BlobIds(items) = BlobIds(book.items)
    BY RememberedBlobs DEF AgreeInv, EvictInv, HistoryTypes
  <2> QED BY <2>1 DEF BlobsThere, DeadRemembered, BlobsFollowItems
<1> QED BY <1>1, <1>2, <1>3, PTL DEF Spec

-----------------------------------------------------------------------------
(* The log implements ClipBook.                                             *)
RowsOf(its) ==
  [c \in {its[i].contentHash : i \in DOMAIN its} |->
     Row(its[CHOOSE i \in DOMAIN its : its[i].contentHash = c])]

LEMMA RowsAre ==
  ASSUME NEW its, OneRowEach(its)
  PROVE  /\ Map(RowsOf(its)) /\ DOMAIN RowsOf(its) = {its[i].contentHash : i \in DOMAIN its}
         /\ \A i \in DOMAIN its : RowsOf(its)[its[i].contentHash] = Row(its[i])
<1>1. /\ Map(RowsOf(its)) /\ DOMAIN RowsOf(its) = {its[i].contentHash : i \in DOMAIN its}
      /\ \A c \in DOMAIN RowsOf(its) :
           RowsOf(its)[c] = Row(its[CHOOSE i \in DOMAIN its : its[i].contentHash = c])
  BY DEF RowsOf, Map
<1>2. \A i \in DOMAIN its : (CHOOSE j \in DOMAIN its : its[j].contentHash = its[i].contentHash) = i
  <2> SUFFICES ASSUME NEW i \in DOMAIN its
               PROVE  (CHOOSE j \in DOMAIN its : its[j].contentHash = its[i].contentHash) = i
    OBVIOUS
  <2>1. \A j \in DOMAIN its : its[j].contentHash = its[i].contentHash => j = i
    BY DEF OneRowEach
  <2> QED BY <2>1
<1>3. ASSUME NEW i \in DOMAIN its
      PROVE  RowsOf(its)[its[i].contentHash] = Row(its[i])
  <2>1. its[i].contentHash \in DOMAIN RowsOf(its)
    BY <1>1
  <2>2. RowsOf(its)[its[i].contentHash]
          = Row(its[CHOOSE j \in DOMAIN its : its[j].contentHash = its[i].contentHash])
    BY <1>1, <2>1
  <2> QED BY <1>2, <2>2
<1> QED BY <1>1, <1>3

LEMMA SameRows ==
  ASSUME NEW r, NEW q, Map(r), Map(q), DOMAIN r = DOMAIN q, \A c \in DOMAIN r : r[c] = q[c]
  PROVE  r = q
  BY DEF Map

(* One item of the log is new or has changed.                               *)
LEMMA RowsPut ==
  ASSUME NEW f, NEW g, OneRowEach(f), OneRowEach(g), NEW i, DOMAIN g = DOMAIN f \cup {i},
         i \in DOMAIN f => f[i].contentHash = g[i].contentHash,
         \A j \in DOMAIN f : j # i => g[j] = f[j]
  PROVE  RowsOf(g) = With(RowsOf(f), g[i].contentHash, Row(g[i]))
<1> DEFINE c == g[i].contentHash
           r == RowsOf(f)
           q == RowsOf(g)
           w == With(r, c, Row(g[i]))
<1>1. /\ Map(r) /\ DOMAIN r = {f[j].contentHash : j \in DOMAIN f}
      /\ \A j \in DOMAIN f : r[f[j].contentHash] = Row(f[j])
  BY RowsAre
<1>2. /\ Map(q) /\ DOMAIN q = {g[j].contentHash : j \in DOMAIN g}
      /\ \A j \in DOMAIN g : q[g[j].contentHash] = Row(g[j])
  BY RowsAre
<1>3. /\ Map(w) /\ DOMAIN w = DOMAIN r \cup {c}
      /\ w[c] = Row(g[i]) /\ \A d \in DOMAIN r : d # c => w[d] = r[d]
  BY DEF With, Map
<1> HIDE DEF r, q, w
<1>4. DOMAIN q = DOMAIN w
  BY <1>1, <1>2, <1>3
<1>5. ASSUME NEW j \in DOMAIN g
      PROVE  q[g[j].contentHash] = w[g[j].contentHash]
  <2>1. CASE j = i
    BY <1>2, <1>3, <2>1
  <2>2. CASE j # i
    <3>1. j \in DOMAIN f /\ g[j] = f[j] /\ g[j].contentHash # c
      BY <2>2 DEF OneRowEach
    <3> QED BY <1>1, <1>2, <1>3, <3>1
  <2> QED BY <2>1, <2>2
<1>6. \A d \in DOMAIN q : q[d] = w[d]
  BY <1>2, <1>5
<1>7. q = w
  BY <1>2, <1>3, <1>4, <1>6, SameRows
<1> QED BY <1>7 DEF q, w, r

LEMMA RowsRemoved ==
  ASSUME NEW f, NEW S \in SUBSET DOMAIN f, OneRowEach(f)
  PROVE  RowsOf([i \in DOMAIN f \ S |-> f[i]]) =
           [c \in DOMAIN RowsOf(f) \ {f[i].contentHash : i \in S} |-> RowsOf(f)[c]]
<1> DEFINE g == [i \in DOMAIN f \ S |-> f[i]]
           r == RowsOf(f)
           q == RowsOf(g)
           gone == {f[i].contentHash : i \in S}
           w == [c \in DOMAIN r \ gone |-> r[c]]
<1>1. /\ DOMAIN r = {f[j].contentHash : j \in DOMAIN f}
      /\ \A j \in DOMAIN f : r[f[j].contentHash] = Row(f[j])
  BY RowsAre
<1>2. DOMAIN g = DOMAIN f \ S /\ \A j \in DOMAIN g : g[j] = f[j]
  OBVIOUS
<1>3. OneRowEach(g)
  BY <1>2 DEF OneRowEach
<1> HIDE DEF g
<1>4. /\ Map(q) /\ DOMAIN q = {g[j].contentHash : j \in DOMAIN g}
      /\ \A j \in DOMAIN g : q[g[j].contentHash] = Row(g[j])
  BY <1>3, RowsAre
<1>5. Map(w) /\ DOMAIN w = DOMAIN r \ gone /\ \A c \in DOMAIN w : w[c] = r[c]
  BY DEF Map
<1>6. \A j \in DOMAIN f : j \in S <=> f[j].contentHash \in gone
  BY DEF OneRowEach
<1> HIDE DEF r, q, w, gone
<1>7. DOMAIN q = DOMAIN w
  BY <1>1, <1>2, <1>4, <1>5, <1>6
<1>8. \A j \in DOMAIN g : q[g[j].contentHash] = w[g[j].contentHash]
  <2> SUFFICES ASSUME NEW j \in DOMAIN g
               PROVE  q[g[j].contentHash] = w[g[j].contentHash]
    OBVIOUS
  <2>1. j \in DOMAIN f /\ g[j] = f[j] /\ g[j].contentHash \in DOMAIN w
    BY <1>2, <1>4, <1>7
  <2>2. q[g[j].contentHash] = Row(f[j]) /\ r[f[j].contentHash] = Row(f[j])
    BY <1>1, <1>4, <2>1
  <2>3. w[g[j].contentHash] = r[f[j].contentHash]
    BY <1>5, <2>1
  <2> QED BY <2>2, <2>3
<1>9. q = w
  <2>1. \A c \in DOMAIN q : q[c] = w[c]
    BY <1>4, <1>8
  <2> QED BY <1>4, <1>5, <1>7, <2>1, SameRows
<1> QED BY <1>9 DEF q, w, r, g, gone

LEMMA UntaggedRow ==
  ASSUME NEW it \in Item, NEW t
  PROVE  Row([it EXCEPT !.tags = it.tags \ {t}]) = [Row(it) EXCEPT !.tags = it.tags \ {t}]
<1> DEFINE u == [it EXCEPT !.tags = it.tags \ {t}]
<1>1. u = [contentHash |-> it.contentHash, title |-> it.title, preview |-> it.preview,
           pinned |-> it.pinned, tags |-> it.tags \ {t}, createdAt |-> it.createdAt,
           updatedAt |-> it.updatedAt, expiresAt |-> it.expiresAt, byteLength |-> it.byteLength]
  BY UntaggedItem
<1> HIDE DEF u
<1>2. Row(u) = [title |-> it.title, pinned |-> it.pinned, tags |-> it.tags \ {t},
                createdAt |-> it.createdAt, updatedAt |-> it.updatedAt]
  BY <1>1 DEF Row
<1>3. Row(u) = [Row(it) EXCEPT !.tags = it.tags \ {t}]
  BY <1>2 DEF Row
<1> QED BY <1>3 DEF u

WithoutTab(r, t) == [r EXCEPT !.tags = r.tags \ {t}]

LEMMA RowsUntagged ==
  ASSUME NEW f, NEW g, NEW t, OneRowEach(f), ItemMap(f), DOMAIN g = DOMAIN f,
         \A i \in DOMAIN f : g[i] = WithoutTab(f[i], t)
  PROVE  RowsOf(g) = [c \in DOMAIN RowsOf(f) |-> WithoutTab(RowsOf(f)[c], t)]
<1> USE DEF WithoutTab
<1> DEFINE r == RowsOf(f)
           q == RowsOf(g)
           w == [c \in DOMAIN r |-> [r[c] EXCEPT !.tags = r[c].tags \ {t}]]
<1>1. ASSUME NEW i \in DOMAIN f
      PROVE  /\ g[i].contentHash = f[i].contentHash
             /\ Row(g[i]) = [Row(f[i]) EXCEPT !.tags = Row(f[i]).tags \ {t}]
  <2> DEFINE it == f[i]
  <2>1. it \in Item /\ g[i] = [it EXCEPT !.tags = it.tags \ {t}]
    BY DEF ItemMap
  <2> HIDE DEF it
  <2>2. g[i].contentHash = it.contentHash
    BY <2>1, UntaggedItem
  <2>3. Row(g[i]) = [Row(it) EXCEPT !.tags = it.tags \ {t}]
    BY <2>1, UntaggedRow
  <2>4. Row(it).tags = it.tags
    BY DEF Row
  <2> QED BY <2>2, <2>3, <2>4 DEF it
<1>2. OneRowEach(g)
  BY <1>1 DEF OneRowEach
<1>3. /\ DOMAIN r = {f[j].contentHash : j \in DOMAIN f}
      /\ \A j \in DOMAIN f : r[f[j].contentHash] = Row(f[j])
  BY RowsAre
<1>4. /\ Map(q) /\ DOMAIN q = {g[j].contentHash : j \in DOMAIN g}
      /\ \A j \in DOMAIN g : q[g[j].contentHash] = Row(g[j])
  BY <1>2, RowsAre
<1>5. /\ Map(w) /\ DOMAIN w = DOMAIN r
      /\ \A c \in DOMAIN r : w[c] = [r[c] EXCEPT !.tags = r[c].tags \ {t}]
  BY DEF Map
<1> HIDE DEF r, q, w
<1>6. DOMAIN q = DOMAIN w
  BY <1>1, <1>3, <1>4, <1>5
<1>7. ASSUME NEW i \in DOMAIN g
      PROVE  q[g[i].contentHash] = w[g[i].contentHash]
  <2>1. q[g[i].contentHash] = Row(g[i]) /\ r[f[i].contentHash] = Row(f[i])
    BY <1>3, <1>4
  <2>2. w[f[i].contentHash] = [Row(f[i]) EXCEPT !.tags = Row(f[i]).tags \ {t}]
    BY <1>3, <1>5, <2>1
  <2> QED BY <1>1, <2>1, <2>2
<1>8. \A c \in DOMAIN q : q[c] = w[c]
  BY <1>4, <1>7
<1>9. q = w
  BY <1>4, <1>5, <1>6, <1>8, SameRows
<1> QED BY <1>9 DEF q, w, r

(* A secret, and nothing else, expires Ttl after it was first copied.       *)
Expires(it) == it.expiresAt = SecretExpiresAt(it.contentHash, it.createdAt)
ExpiryInv == \A i \in DOMAIN book.items : Expires(book.items[i])

LEMMA ExpiryStep == HistoryAssumption /\ EvictInv /\ ExpiryInv /\ [Next]_vars => ExpiryInv'
<1> SUFFICES ASSUME HistoryAssumption, EvictInv, ExpiryInv, [Next]_vars
             PROVE  ExpiryInv'
  OBVIOUS
<1>0. \A i \in DOMAIN book.items : book.items[i] \in Item
  BY DEF EvictInv, HistoryTypes, ItemMap
<1>1. ASSUME book' = book
      PROVE  ExpiryInv'
  BY <1>1 DEF ExpiryInv
<1>2. CASE Start \/ Load \/ Loaded \/ LoadFails \/ EvictPreviewCache \/ Tick \/ Crash \/ RemoveGone
           \/ UNCHANGED vars \/ (\E n \in LimitChoices : SetMaxItems(n))
           \/ (\E c \in Contents : IngestFails(c))
  BY <1>1, <1>2 DEF Start, Load, Loaded, LoadFails, EvictPreviewCache, Tick, Crash, RemoveGone,
                    SetMaxItems, IngestFails, NotLogged, vars, disk
<1>3. ASSUME NEW c \in Contents, NEW i \in Ids, LoggedAdd(i, NewItem(c))
      PROVE  ExpiryInv'
  <2>1. book'.items = With(book.items, i, NewItem(c))
    <3>1. book' = [items |-> With(book.items, i, NewItem(c)), tabs |-> book.tabs]
      BY <1>3, AddEffect DEF EvictInv
    <3> QED BY <3>1
  <2>2. Expires(NewItem(c))
    BY DEF Expires, NewItem
  <2> QED BY <2>1, <2>2 DEF With, ExpiryInv
<1>4. CASE \E c \in Contents : IngestCrashes(c) \/ \E i \in Ids : IngestNew(c, i)
  BY <1>1, <1>3, <1>4 DEF IngestCrashes, IngestNew, NotLogged, Fresh
<1>5. CASE Changes
  <2>1. PICK i \in DOMAIN items, p \in Patches : Updated(i, p)
    BY <1>5, ChangesUpdate DEF EvictInv
  <2>2. book'.items = Patched(book.items, i, p)
    <3>1. book' = [items |-> Patched(book.items, i, p), tabs |-> book.tabs]
      BY <2>1, UpdateEffect DEF EvictInv
    <3> QED BY <3>1
  <2>3. CASE i \in DOMAIN book.items
    <3> DEFINE it == book.items[i]
               m == Merged(it, p)
    <3>1. it \in Item /\ Expires(it)
      BY <1>0, <2>3 DEF ExpiryInv
    <3>2. book'.items = With(book.items, i, m)
      BY <2>2, <2>3 DEF Patched
    <3>3. m.contentHash = it.contentHash /\ m.createdAt = it.createdAt /\ m.expiresAt = it.expiresAt
      <4> HIDE DEF it
      <4> QED BY <3>1, MergedItem
    <3>4. Expires(m)
      BY <3>1, <3>3 DEF Expires
    <3> HIDE DEF m
    <3> QED BY <3>2, <3>4 DEF With, ExpiryInv
  <2> QED BY <2>2, <2>3 DEF Patched, ExpiryInv
<1>6. CASE Removals
  <2>1. PICK S \in SUBSET DOMAIN items : LoggedDeletes(S)
    BY <1>6, RemovalsRemove DEF Removed, RemovedAndDied
  <2>2. book'.items = [i \in DOMAIN book.items \ S |-> book.items[i]]
    <3>1. book' = [items |-> [i \in DOMAIN book.items \ S |-> book.items[i]], tabs |-> book.tabs]
      BY <2>1, DeleteEffect DEF EvictInv
    <3> QED BY <3>1
  <2> QED BY <2>2 DEF ExpiryInv
<1>7. ASSUME NEW t \in Tabs, CreateTab(t)
      PROVE  ExpiryInv'
  <2>1. book' = [book EXCEPT !.tabs = book.tabs \cup {t}]
    BY <1>7 DEF CreateTab, Logged, ApplyEvent, TabCreated
  <2>2. book'.items = book.items
    BY <2>1 DEF EvictInv, HistoryTypes
  <2> QED BY <2>2 DEF ExpiryInv
<1>8. ASSUME NEW t \in Tabs, RemoveTab(t)
      PROVE  ExpiryInv'
  <2>1. /\ DOMAIN book'.items = DOMAIN book.items
        /\ \A i \in DOMAIN book.items :
             book'.items[i] = [book.items[i] EXCEPT !.tags = book.items[i].tags \ {t}]
    BY <1>8, RemoveTabEffect DEF EvictInv
  <2> SUFFICES ASSUME NEW i \in DOMAIN book.items
               PROVE  Expires(book'.items[i])
    BY <2>1 DEF ExpiryInv
  <2> DEFINE it == book.items[i]
             u == book'.items[i]
  <2>2. it \in Item /\ Expires(it) /\ u = [it EXCEPT !.tags = it.tags \ {t}]
    BY <1>0, <2>1 DEF ExpiryInv
  <2> HIDE DEF it, u
  <2>3. u.contentHash = it.contentHash /\ u.createdAt = it.createdAt /\ u.expiresAt = it.expiresAt
    BY <2>2, UntaggedItem
  <2>4. Expires(u)
    BY <2>2, <2>3 DEF Expires
  <2> QED BY <2>4 DEF u
<1> QED
  BY <1>2, <1>4, <1>5, <1>6, <1>7, <1>8 DEF Next, IngestStep, ItemStep, Changes, Removals

LEMMA RememberedFields ==
  ASSUME NEW it \in Item, NEW loaded \in BOOLEAN
  PROVE  LET m == Remembered(it, loaded)
         IN  /\ m.contentHash = it.contentHash /\ m.pinned = it.pinned /\ m.tags = it.tags
             /\ m.createdAt = it.createdAt /\ m.updatedAt = it.updatedAt /\ m.expiresAt = it.expiresAt
<1>1. CASE loaded
  BY <1>1 DEF Remembered
<1>2. CASE ~loaded
  <2> DEFINE s == ScrubPreview(it)
  <2>1. s = [contentHash |-> it.contentHash, title |-> FALSE, preview |-> FALSE,
             pinned |-> it.pinned, tags |-> it.tags, createdAt |-> it.createdAt,
             updatedAt |-> it.updatedAt, expiresAt |-> it.expiresAt, byteLength |-> it.byteLength]
    BY ScrubbedItem
  <2>2. Remembered(it, loaded) = s
    BY <1>2 DEF Remembered
  <2> HIDE DEF s
  <2> QED BY <2>1, <2>2
<1> QED BY <1>1, <1>2

LEMMA RowMerged ==
  ASSUME NEW it \in Item, NEW p \in Patches
  PROVE  Row(Merged(it, p)) =
           [title |-> IF "title" \in DOMAIN p THEN p.title ELSE it.title,
            pinned |-> IF "pinned" \in DOMAIN p THEN p.pinned ELSE it.pinned,
            tags |-> IF "tags" \in DOMAIN p THEN p.tags ELSE it.tags,
            createdAt |-> it.createdAt, updatedAt |-> p.updatedAt]
<1> DEFINE m == Merged(it, p)
<1>1. m =     [contentHash |-> it.contentHash,
               title |-> IF "title" \in DOMAIN p THEN p.title ELSE it.title,
               preview |-> it.preview,
               pinned |-> IF "pinned" \in DOMAIN p THEN p.pinned ELSE it.pinned,
               tags |-> IF "tags" \in DOMAIN p THEN p.tags ELSE it.tags,
               createdAt |-> it.createdAt, updatedAt |-> p.updatedAt,
               expiresAt |-> it.expiresAt, byteLength |-> it.byteLength]
  BY MergedItem
<1> HIDE DEF m
<1>2. Row(m) =
           [title |-> IF "title" \in DOMAIN p THEN p.title ELSE it.title,
            pinned |-> IF "pinned" \in DOMAIN p THEN p.pinned ELSE it.pinned,
            tags |-> IF "tags" \in DOMAIN p THEN p.tags ELSE it.tags,
            createdAt |-> it.createdAt, updatedAt |-> p.updatedAt]
  BY <1>1 DEF Row
<1> QED BY <1>2 DEF m

(* What each patch does to a row.                                           *)
LEMMA PatchedRow ==
  ASSUME NEW it \in Item
  PROVE  /\ \A t \in Int : Row(Merged(it, [updatedAt |-> t])) = [Row(it) EXCEPT !.updatedAt = t]
         /\ \A b \in BOOLEAN : Row(Merged(it, [updatedAt |-> it.updatedAt, pinned |-> b]))
                                = [Row(it) EXCEPT !.pinned = b]
         /\ \A b \in BOOLEAN : Row(Merged(it, [updatedAt |-> it.updatedAt, title |-> b]))
                                = [Row(it) EXCEPT !.title = b]
         /\ \A ts \in SUBSET Tabs : Row(Merged(it, [updatedAt |-> it.updatedAt, tags |-> ts]))
                                    = [Row(it) EXCEPT !.tags = ts]
<1>0. it.updatedAt \in Int
  BY DEF Item
<1>1. ASSUME NEW t \in Int
      PROVE  Row(Merged(it, [updatedAt |-> t])) = [Row(it) EXCEPT !.updatedAt = t]
  <2> DEFINE p == [updatedAt |-> t]
  <2>1. p \in Patches
    BY DEF Patches
  <2>2. p.updatedAt = t /\ DOMAIN p = {"updatedAt"}
    OBVIOUS
  <2> HIDE DEF p
  <2>3. Row(Merged(it, p)) = [title |-> it.title, pinned |-> it.pinned, tags |-> it.tags,
                              createdAt |-> it.createdAt, updatedAt |-> t]
    BY <2>1, <2>2, RowMerged
  <2>4. Row(Merged(it, p)) = [Row(it) EXCEPT !.updatedAt = t]
    BY <2>3 DEF Row
  <2> QED BY <2>4 DEF p
<1>2. ASSUME NEW b \in BOOLEAN
      PROVE  Row(Merged(it, [updatedAt |-> it.updatedAt, pinned |-> b])) = [Row(it) EXCEPT !.pinned = b]
  <2> DEFINE p == [updatedAt |-> it.updatedAt, pinned |-> b]
  <2>1. p \in Patches
    BY <1>0 DEF Patches
  <2>2. p.updatedAt = it.updatedAt /\ p.pinned = b /\ DOMAIN p = {"updatedAt", "pinned"}
    OBVIOUS
  <2> HIDE DEF p
  <2>3. Row(Merged(it, p)) = [title |-> it.title, pinned |-> b, tags |-> it.tags,
                              createdAt |-> it.createdAt, updatedAt |-> it.updatedAt]
    BY <2>1, <2>2, RowMerged
  <2>4. Row(Merged(it, p)) = [Row(it) EXCEPT !.pinned = b]
    BY <2>3 DEF Row
  <2> QED BY <2>4 DEF p
<1>3. ASSUME NEW b \in BOOLEAN
      PROVE  Row(Merged(it, [updatedAt |-> it.updatedAt, title |-> b])) = [Row(it) EXCEPT !.title = b]
  <2> DEFINE p == [updatedAt |-> it.updatedAt, title |-> b]
  <2>1. p \in Patches
    BY <1>0 DEF Patches
  <2>2. p.updatedAt = it.updatedAt /\ p.title = b /\ DOMAIN p = {"updatedAt", "title"}
    OBVIOUS
  <2> HIDE DEF p
  <2>3. Row(Merged(it, p)) = [title |-> b, pinned |-> it.pinned, tags |-> it.tags,
                              createdAt |-> it.createdAt, updatedAt |-> it.updatedAt]
    BY <2>1, <2>2, RowMerged
  <2>4. Row(Merged(it, p)) = [Row(it) EXCEPT !.title = b]
    BY <2>3 DEF Row
  <2> QED BY <2>4 DEF p
<1>4. ASSUME NEW ts \in SUBSET Tabs
      PROVE  Row(Merged(it, [updatedAt |-> it.updatedAt, tags |-> ts])) = [Row(it) EXCEPT !.tags = ts]
  <2> DEFINE p == [updatedAt |-> it.updatedAt, tags |-> ts]
  <2>1. p \in Patches
    BY <1>0 DEF Patches
  <2>2. p.updatedAt = it.updatedAt /\ p.tags = ts /\ DOMAIN p = {"updatedAt", "tags"}
    OBVIOUS
  <2> HIDE DEF p
  <2>3. Row(Merged(it, p)) = [title |-> it.title, pinned |-> it.pinned, tags |-> ts,
                              createdAt |-> it.createdAt, updatedAt |-> it.updatedAt]
    BY <2>1, <2>2, RowMerged
  <2>4. Row(Merged(it, p)) = [Row(it) EXCEPT !.tags = ts]
    BY <2>3 DEF Row
  <2> QED BY <2>4 DEF p
<1> QED BY <1>1, <1>2, <1>3, <1>4

(* Memory agrees with the log on all of an item but its texts.              *)
LEMMA ServingItems ==
  ASSUME EvictInv, AgreeInv, Serving
  PROVE  /\ DOMAIN items = DOMAIN book.items
         /\ \A i \in DOMAIN items :
              /\ book.items[i] \in Item
              /\ items[i].contentHash = book.items[i].contentHash
              /\ items[i].pinned = book.items[i].pinned /\ items[i].tags = book.items[i].tags
              /\ items[i].createdAt = book.items[i].createdAt
              /\ items[i].updatedAt = book.items[i].updatedAt
              /\ items[i].expiresAt = book.items[i].expiresAt
<1>1. /\ DOMAIN items = DOMAIN book.items /\ previewsLoaded \in BOOLEAN
      /\ \A i \in DOMAIN items : /\ book.items[i] \in Item
                                 /\ items[i] = Remembered(book.items[i], previewsLoaded)
  BY DEF EvictInv, HistoryTypes, ItemMap, AgreeInv, Serving
<1> SUFFICES ASSUME NEW i \in DOMAIN items
             PROVE  /\ items[i].contentHash = book.items[i].contentHash
                    /\ items[i].pinned = book.items[i].pinned /\ items[i].tags = book.items[i].tags
                    /\ items[i].createdAt = book.items[i].createdAt
                    /\ items[i].updatedAt = book.items[i].updatedAt
                    /\ items[i].expiresAt = book.items[i].expiresAt
  BY <1>1
<1> QED BY <1>1, RememberedFields

LEMMA UpdateRows ==
  ASSUME HistoryAssumption, EvictInv, AgreeInv, AgreeInv', Serving, NEW i \in DOMAIN items,
         NEW p \in Patches, Updated(i, p)
  PROVE  LET c == items[i].contentHash
         IN  /\ c \in DOMAIN Rows /\ Rows[c] = Row(book.items[i])
             /\ Rows' = With(Rows, c, Row(Merged(book.items[i], p)))
             /\ book'.tabs = book.tabs /\ now' = now
<1> DEFINE it == book.items[i]
           m == Merged(it, p)
           c == items[i].contentHash
<1>1. i \in DOMAIN book.items /\ it \in Item /\ c = it.contentHash
  BY ServingItems
<1>2. /\ book'.items = With(book.items, i, m) /\ book'.tabs = book.tabs /\ now' = now
  <2>1. book' = [items |-> Patched(book.items, i, p), tabs |-> book.tabs]
    BY UpdateEffect DEF EvictInv
  <2> QED BY <1>1, <2>1 DEF Patched, Updated
<1>3. m.contentHash = c
  <2> HIDE DEF it
  <2> QED BY <1>1, MergedItem
<1>4. Rows = RowsOf(book.items) /\ Rows' = RowsOf(book'.items)
  BY DEF Rows, RowsOf
<1>5. OneRowEach(book.items) /\ OneRowEach(book'.items)
  BY DEF AgreeInv
<1>6. c \in DOMAIN Rows /\ Rows[c] = Row(it)
  <2>1. /\ DOMAIN RowsOf(book.items) = {book.items[j].contentHash : j \in DOMAIN book.items}
        /\ \A j \in DOMAIN book.items : RowsOf(book.items)[book.items[j].contentHash] = Row(book.items[j])
    BY <1>5, RowsAre
  <2> QED BY <1>1, <1>4, <2>1
<1>7. /\ DOMAIN book'.items = DOMAIN book.items \cup {i} /\ book'.items[i] = m
      /\ \A j \in DOMAIN book.items : j # i => book'.items[j] = book.items[j]
  BY <1>1, <1>2 DEF With
<1> HIDE DEF m
<1>8. Rows' = With(Rows, c, Row(m))
  BY <1>1, <1>3, <1>4, <1>5, <1>7, RowsPut
<1> QED BY <1>2, <1>6, <1>8 DEF m

(* Each step is a step of ClipBook or leaves it alone.                      *)
LEMMA ChangeImplements ==
  ASSUME HistoryAssumption, EvictInv, AgreeInv, AgreeInv', Changes
  PROVE  C!Next
<1>0. Serving
  BY ChangesUpdate DEF EvictInv
<1>1. \A i \in DOMAIN items : /\ book.items[i] \in Item
                              /\ items[i].updatedAt = book.items[i].updatedAt
                              /\ items[i].tags = book.items[i].tags
                              /\ items[i].updatedAt \in Int /\ items[i].tags \subseteq Tabs
  <2>1. \A i \in DOMAIN items : items[i] \in Item
    BY DEF EvictInv, HistoryTypes, ItemMap
  <2> QED BY <1>0, <2>1, ServingItems DEF Item
<1>2. ASSUME NEW c \in Contents, Recopy(c)
      PROVE  C!Next
  <2> DEFINE patch == [updatedAt |-> now]
  <2>1. now \in Int /\ patch \in Patches
    BY DEF EvictInv, HistoryTypes, Patches
  <2>2. \E i \in DOMAIN items, q \in Patches : q = patch /\ Updated(i, q)
    BY <1>2, <2>1 DEF Recopy, Known
  <2>3. PICK i \in DOMAIN items, q \in Patches : q = patch /\ Updated(i, q)
    BY <2>2
  <2>4. Row(Merged(book.items[i], q)) = [Row(book.items[i]) EXCEPT !.updatedAt = now]
    BY <1>1, <2>1, <2>3, PatchedRow
  <2> DEFINE d == items[i].contentHash
  <2>5. /\ d \in DOMAIN Rows /\ Rows[d] = Row(book.items[i])
        /\ Rows' = With(Rows, d, Row(Merged(book.items[i], q)))
        /\ book'.tabs = book.tabs /\ now' = now
    BY <1>0, <2>3, UpdateRows
  <2>6. C!CopyAgain(d)
    BY <2>4, <2>5 DEF C!CopyAgain, C!Put, With
  <2> QED BY <2>5, <2>6 DEF C!Next
<1>3. ASSUME NEW i \in DOMAIN items, NEW b \in BOOLEAN, Pin(i, b)
      PROVE  C!Next
  <2> DEFINE patch == [updatedAt |-> items[i].updatedAt, pinned |-> b]
             d == items[i].contentHash
  <2>1. patch \in Patches
    BY <1>1 DEF Patches
  <2>2. (\E q \in Patches : q = patch /\ Updated(i, q)) /\ (b => d \notin Secrets)
    BY <1>3, <2>1 DEF Pin
  <2>3. PICK q \in Patches : q = patch /\ Updated(i, q)
    BY <2>2
  <2>4. Row(Merged(book.items[i], q)) = [Row(book.items[i]) EXCEPT !.pinned = b]
    BY <1>1, <2>3, PatchedRow
  <2>5. /\ d \in DOMAIN Rows /\ Rows[d] = Row(book.items[i])
        /\ Rows' = With(Rows, d, Row(Merged(book.items[i], q)))
        /\ book'.tabs = book.tabs /\ now' = now
    BY <1>0, <2>3, UpdateRows
  <2>6. C!Pin(d, b)
    BY <2>2, <2>4, <2>5 DEF C!Pin, C!Put, With
  <2> QED BY <2>5, <2>6 DEF C!Next
<1>4. ASSUME NEW i \in DOMAIN items, NEW b \in Titles, SetTitle(i, b)
      PROVE  C!Next
  <2> DEFINE patch == [updatedAt |-> items[i].updatedAt, title |-> b]
             d == items[i].contentHash
  <2>1. b \in BOOLEAN /\ patch \in Patches
    BY <1>1 DEF Patches, HistoryAssumption
  <2>2. \E q \in Patches : q = patch /\ Updated(i, q)
    BY <1>4, <2>1 DEF SetTitle
  <2>3. PICK q \in Patches : q = patch /\ Updated(i, q)
    BY <2>2
  <2>4. Row(Merged(book.items[i], q)) = [Row(book.items[i]) EXCEPT !.title = b]
    BY <1>1, <2>1, <2>3, PatchedRow
  <2>5. /\ d \in DOMAIN Rows /\ Rows[d] = Row(book.items[i])
        /\ Rows' = With(Rows, d, Row(Merged(book.items[i], q)))
        /\ book'.tabs = book.tabs /\ now' = now
    BY <1>0, <2>3, UpdateRows
  <2>6. C!SetTitle(d, b)
    BY <2>4, <2>5 DEF C!SetTitle, C!Put, With
  <2> QED BY <2>1, <2>5, <2>6 DEF C!Next
<1>5. ASSUME NEW i \in DOMAIN items, NEW t \in Tabs, NEW tagged \in BOOLEAN, Tag(i, t, tagged)
      PROVE  C!Next
  <2> DEFINE ts == IF tagged THEN items[i].tags \cup {t} ELSE items[i].tags \ {t}
             patch == [updatedAt |-> items[i].updatedAt, tags |-> ts]
             d == items[i].contentHash
  <2>1. ts \in SUBSET Tabs
    BY <1>1
  <2>2. Row(book.items[i]).tags = items[i].tags
    BY <1>1 DEF Row
  <2>3. patch \in Patches
    <3> HIDE DEF ts
    <3> QED BY <1>1, <2>1 DEF Patches
  <2>4. \E q \in Patches : q = patch /\ Updated(i, q)
    BY <1>5, <2>3 DEF Tag
  <2>5. PICK q \in Patches : q = patch /\ Updated(i, q)
    BY <2>4
  <2>6. Row(Merged(book.items[i], q)) = [Row(book.items[i]) EXCEPT !.tags = ts]
    <3> HIDE DEF ts
    <3> QED BY <1>1, <2>1, <2>5, PatchedRow
  <2>7. /\ d \in DOMAIN Rows /\ Rows[d] = Row(book.items[i])
        /\ Rows' = With(Rows, d, Row(Merged(book.items[i], q)))
        /\ book'.tabs = book.tabs /\ now' = now
    BY <1>0, <2>5, UpdateRows
  <2>8. Row(Merged(book.items[i], q)) =
          [Rows[d] EXCEPT !.tags = IF tagged THEN @ \cup {t} ELSE @ \ {t}]
    BY <2>2, <2>6, <2>7
  <2>9. C!Tag(d, t, tagged)
    BY <2>7, <2>8 DEF C!Tag, C!Put, With
  <2> QED BY <2>7, <2>9 DEF C!Next
<1> QED BY <1>2, <1>3, <1>4, <1>5 DEF Changes

LEMMA AddImplements ==
  ASSUME HistoryAssumption, EvictInv, AgreeInv, NEW c \in Contents, NEW i \in Fresh,
         Serving, ~Known(c), LoggedAdd(i, NewItem(c)), now' = now
  PROVE  C!CopyNew(c)
<1>1. /\ book'.items = With(book.items, i, NewItem(c)) /\ book'.tabs = book.tabs
      /\ i \notin DOMAIN book.items
      /\ \A j \in DOMAIN book.items : book.items[j].contentHash # c
      /\ OneRowEach(book'.items) /\ OneRowEach(book.items)
  BY AddsRow DEF AgreeInv
<1>2. NewItem(c).contentHash = c
  BY NewItemType DEF EvictInv, HistoryTypes
<1>3. Row(NewItem(c)) = [title |-> FALSE, pinned |-> FALSE, tags |-> {},
                         createdAt |-> now, updatedAt |-> now]
  BY DEF Row, NewItem
<1>4. Rows = RowsOf(book.items) /\ Rows' = RowsOf(book'.items)
  BY DEF Rows, RowsOf
<1>5. c \notin DOMAIN Rows
  <2>1. DOMAIN RowsOf(book.items) = {book.items[j].contentHash : j \in DOMAIN book.items}
    BY <1>1, RowsAre
  <2> QED BY <1>1, <1>4, <2>1
<1>6. /\ DOMAIN book'.items = DOMAIN book.items \cup {i} /\ book'.items[i] = NewItem(c)
      /\ \A j \in DOMAIN book.items : j # i => book'.items[j] = book.items[j]
  BY <1>1 DEF With
<1>7. Rows' = With(Rows, c, Row(NewItem(c)))
  BY <1>1, <1>2, <1>4, <1>6, RowsPut
<1> QED BY <1>1, <1>3, <1>5, <1>7 DEF C!CopyNew, C!Put, C!NewRow, With

LEMMA RemoveRows ==
  ASSUME EvictInv, AgreeInv, Serving, NEW S \in SUBSET DOMAIN items, LoggedDeletes(S)
  PROVE  LET gone == {items[i].contentHash : i \in S}
         IN  /\ Rows' = [c \in DOMAIN Rows \ gone |-> Rows[c]]
             /\ \A i \in S : /\ items[i].contentHash \in DOMAIN Rows
                             /\ Rows[items[i].contentHash] = Row(book.items[i])
             /\ book'.tabs = book.tabs
<1> DEFINE gone == {items[i].contentHash : i \in S}
<1>1. /\ book'.items = [i \in DOMAIN book.items \ S |-> book.items[i]] /\ book'.tabs = book.tabs
  <2>1. book' = [items |-> [i \in DOMAIN book.items \ S |-> book.items[i]], tabs |-> book.tabs]
    BY DeleteEffect DEF EvictInv
  <2> QED BY <2>1
<1>2. /\ S \in SUBSET DOMAIN book.items
      /\ \A i \in S : items[i].contentHash = book.items[i].contentHash
  BY ServingItems
<1>3. OneRowEach(book.items)
  BY DEF AgreeInv
<1>4. Rows = RowsOf(book.items) /\ Rows' = RowsOf(book'.items)
  BY DEF Rows, RowsOf
<1>5. gone = {book.items[i].contentHash : i \in S}
  BY <1>2
<1>6. RowsOf([i \in DOMAIN book.items \ S |-> book.items[i]]) =
        [c \in DOMAIN RowsOf(book.items) \ {book.items[i].contentHash : i \in S} |-> RowsOf(book.items)[c]]
  BY <1>2, <1>3, RowsRemoved
<1>7. /\ DOMAIN RowsOf(book.items) = {book.items[j].contentHash : j \in DOMAIN book.items}
      /\ \A j \in DOMAIN book.items : RowsOf(book.items)[book.items[j].contentHash] = Row(book.items[j])
  BY <1>3, RowsAre
<1>8. \A i \in S : /\ items[i].contentHash \in DOMAIN Rows
                   /\ Rows[items[i].contentHash] = Row(book.items[i])
  BY <1>2, <1>4, <1>7
<1>9. Rows' = [c \in DOMAIN Rows \ gone |-> Rows[c]]
  BY <1>1, <1>4, <1>5, <1>6
<1> QED BY <1>1, <1>8, <1>9

(* A sweep takes only what is expendable.                                   *)
LEMMA PlansAreExpendable ==
  \A i \in DOMAIN Plan : i \in DOMAIN items /\ (IsExpired(items[i], now) \/ ~IsKept(items[i]))
  BY DEF Plan, PlanEviction, Expiring, Aging, Unkept, Surplus, Overweight

LEMMA RemovalImplements ==
  ASSUME HistoryAssumption, EvictInv, ExpiryInv, AgreeInv, Removals
  PROVE  C!Next
<1>0. Serving
  BY RemovalsRemove
<1>1. ASSUME NEW i \in DOMAIN items, RemoveItem(i) \/ RemoveCrashes(i)
      PROVE  C!Next
  <2> DEFINE c == items[i].contentHash
             S == {i}
  <2>1. LoggedDeletes({i}) /\ now' = now
    BY <1>1 DEF RemoveItem, RemoveCrashes, Removed, RemovedAndDied
  <2>2. PICK T \in SUBSET DOMAIN items : T = {i} /\ LoggedDeletes(T)
    BY <2>1
  <2>3. /\ Rows' = [d \in DOMAIN Rows \ {items[j].contentHash : j \in T} |-> Rows[d]]
        /\ c \in DOMAIN Rows /\ book'.tabs = book.tabs
    BY <1>0, <2>2, RemoveRows
  <2>4. {items[j].contentHash : j \in T} = {c}
    BY <2>2
  <2>5. C!Remove(c)
    BY <2>1, <2>3, <2>4 DEF C!Remove, C!Without
  <2> QED BY <2>3, <2>5 DEF C!Next
<1>2. CASE EvictNow \/ EvictFails \/ EvictCrashes
  <2>1. PICK S \in SUBSET DOMAIN Plan : Removed(S) \/ RemovedAndDied(S)
    BY <1>2 DEF EvictNow, EvictFails, EvictCrashes, PartialPlans
  <2>2. S \in SUBSET DOMAIN items /\ LoggedDeletes(S) /\ now' = now
    BY <2>1, PlansAreOfItems DEF Removed, RemovedAndDied
  <2> DEFINE gone == {items[i].contentHash : i \in S}
  <2>3. /\ Rows' = [c \in DOMAIN Rows \ gone |-> Rows[c]]
        /\ \A i \in S : /\ items[i].contentHash \in DOMAIN Rows
                        /\ Rows[items[i].contentHash] = Row(book.items[i])
        /\ book'.tabs = book.tabs
    BY <1>0, <2>2, RemoveRows
  <2>4. ASSUME NEW i \in S
        PROVE  C!Expendable(items[i].contentHash)
    <3> DEFINE c == items[i].contentHash
    <3>1. IsExpired(items[i], now) \/ ~IsKept(items[i])
      BY PlansAreExpendable
    <3>2. /\ i \in DOMAIN book.items /\ c = book.items[i].contentHash
          /\ items[i].pinned = book.items[i].pinned /\ items[i].tags = book.items[i].tags
          /\ items[i].createdAt = book.items[i].createdAt
          /\ items[i].expiresAt = book.items[i].expiresAt
      BY <1>0, <2>2, ServingItems
    <3>3. /\ Rows[c].pinned = items[i].pinned /\ Rows[c].tags = items[i].tags
          /\ Rows[c].createdAt = items[i].createdAt
      <4>1. Rows[c] = Row(book.items[i])
        BY <2>3
      <4> HIDE DEF c
      <4> QED BY <3>2, <4>1 DEF Row
    <3>4. CASE IsExpired(items[i], now)
      <4>1. items[i].expiresAt = SecretExpiresAt(c, items[i].createdAt)
        BY <3>2 DEF ExpiryInv, Expires
      <4>2. c \in Secrets /\ now >= items[i].createdAt + Ttl
        BY <3>4, <4>1 DEF IsExpired, SecretExpiresAt
      <4> QED BY <3>3, <4>2 DEF C!Expendable
    <3>5. CASE ~IsKept(items[i])
      BY <3>3, <3>5 DEF IsKept, C!Expendable
    <3> QED BY <3>1, <3>4, <3>5
  <2>5. gone \in SUBSET DOMAIN Rows /\ C!Sweep(gone)
    BY <2>2, <2>3, <2>4 DEF C!Sweep, C!Without
  <2> QED BY <2>5 DEF C!Next
<1> QED BY <1>1, <1>2 DEF Removals

LEMMA TabImplements ==
  ASSUME EvictInv, AgreeInv, NEW t \in Tabs, CreateTab(t) \/ RemoveTab(t)
  PROVE  C!CreateTab(t) \/ C!RemoveTab(t)
<1>1. Rows = RowsOf(book.items) /\ Rows' = RowsOf(book'.items)
  BY DEF Rows, RowsOf
<1>2. CASE CreateTab(t)
  <2>1. book' = [book EXCEPT !.tabs = book.tabs \cup {t}] /\ now' = now
    BY <1>2 DEF CreateTab, Logged, ApplyEvent, TabCreated
  <2>2. book'.items = book.items /\ book'.tabs = book.tabs \cup {t}
    BY <2>1 DEF EvictInv, HistoryTypes
  <2>3. Rows' = Rows
    BY <1>1, <2>2
  <2> QED BY <2>1, <2>2, <2>3 DEF C!CreateTab
<1>3. CASE RemoveTab(t)
  <2>1. /\ book' = [items |-> Untagged(book.items, t), tabs |-> book.tabs \ {t}]
        /\ DOMAIN book'.items = DOMAIN book.items
        /\ \A i \in DOMAIN book.items :
             book'.items[i] = [book.items[i] EXCEPT !.tags = book.items[i].tags \ {t}]
    BY <1>3, RemoveTabEffect DEF EvictInv
  <2>2. book'.tabs = book.tabs \ {t} /\ now' = now
    BY <1>3, <2>1 DEF RemoveTab
  <2>3. OneRowEach(book.items) /\ ItemMap(book.items)
    BY DEF AgreeInv, EvictInv, HistoryTypes
  <2>4. Rows' = [c \in DOMAIN Rows |-> [Rows[c] EXCEPT !.tags = @ \ {t}]]
    <3>1. \A i \in DOMAIN book.items : book'.items[i] = WithoutTab(book.items[i], t)
      BY <2>1 DEF WithoutTab
    <3>2. RowsOf(book'.items) = [c \in DOMAIN RowsOf(book.items) |-> WithoutTab(RowsOf(book.items)[c], t)]
      BY <2>1, <2>3, <3>1, RowsUntagged
    <3> QED BY <1>1, <3>2 DEF WithoutTab
  <2> QED BY <2>2, <2>4 DEF C!RemoveTab
<1> QED BY <1>2, <1>3

LEMMA StepImplements ==
  ASSUME HistoryAssumption, EvictInv, ExpiryInv, AgreeInv, AgreeInv', [Next]_vars
  PROVE  [C!Next]_<<Rows, book.tabs, now>>
<1>1. ASSUME book' = book, now' = now
      PROVE  UNCHANGED <<Rows, book.tabs, now>>
  BY <1>1 DEF Rows
<1>2. CASE Start \/ Load \/ Loaded \/ LoadFails \/ EvictPreviewCache \/ Crash \/ RemoveGone
           \/ UNCHANGED vars \/ (\E n \in LimitChoices : SetMaxItems(n))
           \/ (\E c \in Contents : IngestFails(c))
  BY <1>1, <1>2 DEF Start, Load, Loaded, LoadFails, EvictPreviewCache, Crash, RemoveGone,
                    SetMaxItems, IngestFails, NotLogged, vars, disk
<1>3. CASE Tick
  <2>1. book' = book /\ now' = now + 1
    BY <1>3 DEF Tick, disk
  <2>2. Rows' = Rows
    BY <2>1 DEF Rows
  <2> QED BY <2>1, <2>2 DEF C!Next, C!Tick
<1>4. ASSUME NEW c \in Contents, IngestCrashes(c) \/ \E i \in Ids : IngestNew(c, i)
      PROVE  [C!Next]_<<Rows, book.tabs, now>>
  <2>1. /\ Serving /\ ~Known(c) /\ now' = now
        /\ NotLogged \/ \E i \in Fresh : LoggedAdd(i, NewItem(c))
    BY <1>4 DEF IngestCrashes, IngestNew
  <2>2. CASE NotLogged
    BY <1>1, <2>1, <2>2 DEF NotLogged
  <2>3. CASE \E i \in Fresh : LoggedAdd(i, NewItem(c))
    <3>1. C!CopyNew(c)
      BY <2>1, <2>3, AddImplements
    <3> QED BY <3>1 DEF C!Next
  <2> QED BY <2>1, <2>2, <2>3
<1>5. CASE Changes
  BY <1>5, ChangeImplements
<1>6. CASE Removals
  BY <1>6, RemovalImplements
<1>7. ASSUME NEW t \in Tabs, CreateTab(t) \/ RemoveTab(t)
      PROVE  C!Next
  BY <1>7, TabImplements DEF C!Next
<1> QED
  BY <1>2, <1>3, <1>4, <1>5, <1>6, <1>7 DEF Next, IngestStep, ItemStep, Changes, Removals

(* The log implements the clipboard history a user is promised (ClipBook):  *)
(* one row for each content, changed only as asked, swept only when it is   *)
(* an expired secret or nobody keeps it, and lost to no crash.              *)
THEOREM HistoryImplementsClipBook == "startup" \notin Faults /\ Spec => ImplementsClipBook
<1> SUFFICES ASSUME "startup" \notin Faults
             PROVE  Spec => ImplementsClipBook
  OBVIOUS
<1> DEFINE Inv == EvictInv /\ Attended /\ AgreeInv /\ ExpiryInv
<1>1. Init => Inv
  <2>1. Init => DOMAIN book.items = {}
    BY NothingThere DEF Init, EmptyBook
  <2> QED BY AgreeInit, <2>1 DEF ExpiryInv
<1>2. Inv /\ [Next]_vars => Inv'
  BY HistoryAssumption, EvictStep, AttendedStep, AgreeStep, ExpiryStep
<1>3. Init => C!Init
  <2> SUFFICES ASSUME Init
               PROVE  C!Init
    OBVIOUS
  <2>1. book.items = <<>> /\ book.tabs = {} /\ now = 0
    BY DEF Init, EmptyBook
  <2>2. DOMAIN Rows = {} /\ Map(Rows)
    BY <2>1, NothingThere DEF Rows, Map
  <2>3. Rows = <<>>
    BY <2>2, NothingThere DEF Map
  <2> QED BY <2>1, <2>3 DEF C!Init
<1>4. Inv /\ Inv' /\ [Next]_vars => [C!Next]_<<Rows, book.tabs, now>>
  BY HistoryAssumption, StepImplements
<1> QED BY <1>1, <1>2, <1>3, <1>4, PTL DEF Spec, ImplementsClipBook, C!Spec, C!book

-----------------------------------------------------------------------------
(* Induction over the natural numbers, for a set instead of a predicate:   *)
(* of the intervals up to a number that is not in it one is the smallest.  *)
LEMMA Induction ==
  ASSUME NEW S, 0 \in S, \A n \in Nat : n \in S => n + 1 \in S
  PROVE  \A n \in Nat : n \in S
<1> SUFFICES ASSUME NEW n \in Nat, n \notin S PROVE FALSE
  OBVIOUS
<1> DEFINE T == {0 .. m : m \in {k \in Nat : k \notin S}}
<1>1. T \in SUBSET FiniteSubsetsOf(Nat) /\ T # {}
  <2>1. \A m \in Nat : 0 .. m \in FiniteSubsetsOf(Nat)
    BY FS_Interval DEF FiniteSubsetsOf
  <2> QED BY <2>1
<1>2. PICK x \in T : \A y \in T : ~(<<y, x>> \in StrictSubsetOrdering(Nat))
  <2> HIDE DEF T
  <2> QED BY <1>1, FS_StrictSubsetOrderingWellFounded, WFMin
<1>3. PICK m \in Nat : m \notin S /\ x = 0 .. m
  BY <1>2
<1>4. m - 1 \in Nat /\ m - 1 \notin S
  <2>1. m # 0
    BY <1>3
  <2>2. m - 1 \in Nat /\ (m - 1) + 1 = m
    BY <2>1
  <2> QED BY <1>3, <2>2
<1>5. 0 .. m - 1 \in T
  BY <1>4
<1>6. <<0 .. m - 1, 0 .. m>> \in StrictSubsetOrdering(Nat)
  <2>1. 0 .. m - 1 \in SUBSET Nat /\ 0 .. m \in SUBSET Nat
    BY <1>4
  <2>2. 0 .. m - 1 \subseteq 0 .. m /\ m \in 0 .. m /\ m \notin 0 .. m - 1
    BY <1>4
  <2> QED BY <2>1, <2>2 DEF StrictSubsetOrdering
<1> QED BY <1>2, <1>3, <1>5, <1>6

(* A first value and a step from each value to the next define a function.  *)
StepsOn(V, step) == \A v \in V, k \in Nat : step[<<v, k>>] \in V

Recurs(V, base, step, n, f) ==
  /\ f \in [0 .. n -> V]
  /\ f[0] = base
  /\ \A k \in 1 .. n : f[k] = step[<<f[k - 1], k>>]

LEMMA Recursion ==
  ASSUME NEW V, NEW base \in V, NEW step, NEW m \in Nat, StepsOn(V, step)
  PROVE  \E f : Recurs(V, base, step, m, f)
<1> USE DEF StepsOn, Recurs
<1> DEFINE Steps(f, n) == f[0] = base /\ \A k \in 1 .. n : f[k] = step[<<f[k - 1], k>>]
           S == {n \in Nat : \E f \in [0 .. n -> V] : Steps(f, n)}
<1>1. 0 \in S
  <2> DEFINE f == [k \in 0 .. 0 |-> base]
  <2>1. f \in [0 .. 0 -> V] /\ f[0] = base /\ 1 .. 0 = {}
    OBVIOUS
  <2> QED BY <2>1
<1>2. ASSUME NEW n \in Nat, n \in S
      PROVE  n + 1 \in S
  <2>1. PICK f \in [0 .. n -> V] : Steps(f, n)
    BY <1>2
  <2> DEFINE g == [k \in 0 .. n + 1 |-> IF k = n + 1 THEN step[<<f[n], n + 1>>] ELSE f[k]]
  <2>2. f[n] \in V /\ step[<<f[n], n + 1>>] \in V
    BY <2>1
  <2>3. g \in [0 .. n + 1 -> V] /\ g[n + 1] = step[<<f[n], n + 1>>] /\ \A k \in 0 .. n : g[k] = f[k]
    BY <2>1, <2>2
  <2> HIDE DEF g
  <2>4. g[0] = base
    BY <2>1, <2>3
  <2>5. \A k \in 1 .. n + 1 : g[k] = step[<<g[k - 1], k>>]
    <3> SUFFICES ASSUME NEW k \in 1 .. n + 1
                 PROVE  g[k] = step[<<g[k - 1], k>>]
      OBVIOUS
    <3>1. k - 1 \in 0 .. n /\ g[k - 1] = f[k - 1]
      BY <2>3
    <3>2. CASE k = n + 1
      BY <2>3, <3>1, <3>2
    <3>3. CASE k # n + 1
      <4>1. k \in 1 .. n /\ k \in 0 .. n
        BY <3>3
      <4> QED BY <2>1, <2>3, <3>1, <4>1
    <3> QED BY <3>2, <3>3
  <2> QED BY <2>3, <2>4, <2>5
<1> HIDE DEF S
<1>3. m \in S
  BY <1>1, <1>2, Induction
<1> QED BY <1>3 DEF S

-----------------------------------------------------------------------------
(* The order of the items.                                                  *)
Filtered(o, S, f) ==
  f = [k \in 0 .. Len(o) |->
         IF k = 0 THEN <<>>
         ELSE IF o[k] \in S THEN Append(f[k - 1], o[k]) ELSE f[k - 1]]

LEMMA AppendedIs ==
  ASSUME NEW o \in Seq(Ids), NEW i \in Ids
  PROVE  Append(o, i) \in Seq(Ids) /\ Range(Append(o, i)) = Range(o) \cup {i}
<1>1. /\ DOMAIN Append(o, i) = 1 .. Len(o) + 1 /\ DOMAIN o = 1 .. Len(o) /\ Len(o) \in Nat
      /\ Append(o, i)[Len(o) + 1] = i /\ \A j \in 1 .. Len(o) : Append(o, i)[j] = o[j]
  OBVIOUS
<1>2. Range(Append(o, i)) = Range(o) \cup {i}
  BY <1>1 DEF Range
<1> QED BY <1>2

LEMMA FilteredExists ==
  ASSUME NEW o \in Seq(Ids), NEW S
  PROVE  \E f : Filtered(o, S, f)
<1> DEFINE n == Len(o)
           V == Seq(Ids)
           none == <<>>
           step == [p \in V \X Nat |->
                      IF p[2] \in 1 .. n /\ o[p[2]] \in S THEN Append(p[1], o[p[2]]) ELSE p[1]]
<1>1. n \in Nat /\ none \in V
  OBVIOUS
<1>2. StepsOn(V, step)
  <2> SUFFICES ASSUME NEW v \in V, NEW k \in Nat
               PROVE  (IF k \in 1 .. n /\ o[k] \in S THEN Append(v, o[k]) ELSE v) \in V
    BY DEF StepsOn
  <2>1. k \in 1 .. n => o[k] \in Ids
    OBVIOUS
  <2> QED BY <2>1
<1>3. \A v \in V, k \in 1 .. n :
        step[<<v, k>>] = IF o[k] \in S THEN Append(v, o[k]) ELSE v
  BY <1>1
<1> HIDE DEF step, V, none, n
<1>4. PICK f : Recurs(V, none, step, n, f)
  BY <1>1, <1>2, Recursion
<1> DEFINE body(k) == IF k = 0 THEN none
                      ELSE IF o[k] \in S THEN Append(f[k - 1], o[k]) ELSE f[k - 1]
<1>5. \A k \in 0 .. n : f[k] = body(k)
  <2> SUFFICES ASSUME NEW k \in 1 .. n
               PROVE  f[k] = IF o[k] \in S THEN Append(f[k - 1], o[k]) ELSE f[k - 1]
    <3>1. \A k \in 0 .. n : k = 0 \/ k \in 1 .. n
      BY <1>1
    <3> QED BY <1>4, <3>1 DEF Recurs
  <2>1. k - 1 \in 0 .. n /\ f[k - 1] \in V /\ f[k] = step[<<f[k - 1], k>>]
    <3>1. k \in Nat /\ k - 1 \in 0 .. n
      BY <1>1
    <3>2. f \in [0 .. n -> V] /\ f[k] = step[<<f[k - 1], k>>]
      BY <1>4 DEF Recurs
    <3> QED BY <3>1, <3>2
  <2> QED BY <1>3, <2>1
<1> HIDE DEF body
<1>6. f = [k \in 0 .. n |-> body(k)]
  BY <1>4, <1>5 DEF Recurs
<1> QED BY <1>6 DEF body, Filtered, none, n

LEMMA OnlyIs ==
  ASSUME NEW o \in Seq(Ids), NEW S
  PROVE  Only(o, S) \in Seq(Ids) /\ Range(Only(o, S)) = Range(o) \cap S
<1> DEFINE n == Len(o)
           f == CHOOSE g : Filtered(o, S, g)
<1>1. Filtered(o, S, f) /\ Only(o, S) = f[n]
  <2>1. Filtered(o, S, f)
    BY FilteredExists
  <2>2. Only(o, S) = f[n]
    BY DEF Only, Filtered
  <2> QED BY <2>1, <2>2
<1> HIDE DEF f
<1>2. n \in Nat /\ DOMAIN o = 1 .. n /\ \A k \in 1 .. n : o[k] \in Ids
  OBVIOUS
<1>3. f[0] = <<>> /\ \A k \in 1 .. n : f[k] = IF o[k] \in S THEN Append(f[k - 1], o[k]) ELSE f[k - 1]
  <2> DEFINE body(k) == IF k = 0 THEN <<>>
                        ELSE IF o[k] \in S THEN Append(f[k - 1], o[k]) ELSE f[k - 1]
  <2>1. f = [k \in 0 .. n |-> body(k)]
    BY <1>1 DEF Filtered
  <2>2. \A k \in 0 .. n : f[k] = body(k)
    <3> HIDE DEF body
    <3> QED BY <2>1
  <2> QED BY <1>2, <2>2
<1> DEFINE upTo(k) == {o[j] : j \in 1 .. k} \cap S
           T == {k \in Nat : k <= n => f[k] \in Seq(Ids) /\ Range(f[k]) = upTo(k)}
<1>4. 0 \in T
  <2>1. 1 .. 0 = {} /\ <<>> \in Seq(Ids) /\ DOMAIN <<>> = {}
    OBVIOUS
  <2>2. upTo(0) = {} /\ Range(<<>>) = {}
    BY <2>1 DEF Range
  <2> QED BY <1>3, <2>1, <2>2
<1>5. ASSUME NEW k \in Nat, k \in T
      PROVE  k + 1 \in T
  <2> SUFFICES ASSUME k + 1 <= n
               PROVE  f[k + 1] \in Seq(Ids) /\ Range(f[k + 1]) = upTo(k + 1)
    OBVIOUS
  <2>1. k + 1 \in 1 .. n /\ (k + 1) - 1 = k /\ f[k] \in Seq(Ids) /\ Range(f[k]) = upTo(k)
    BY <1>2, <1>5
  <2>2. f[k + 1] = IF o[k + 1] \in S THEN Append(f[k], o[k + 1]) ELSE f[k]
    BY <1>3, <2>1
  <2>3. {o[j] : j \in 1 .. k + 1} = {o[j] : j \in 1 .. k} \cup {o[k + 1]}
    OBVIOUS
  <2>4. CASE o[k + 1] \in S
    <3>1. f[k + 1] = Append(f[k], o[k + 1]) /\ o[k + 1] \in Ids
      BY <1>2, <2>1, <2>2, <2>4
    <3>2. f[k + 1] \in Seq(Ids)
      BY <2>1, <3>1
    <3>3. Range(f[k + 1]) = Range(f[k]) \cup {o[k + 1]}
      BY <2>1, <3>1, AppendedIs
    <3> QED BY <2>1, <2>3, <2>4, <3>2, <3>3
  <2>5. CASE o[k + 1] \notin S
    BY <2>1, <2>2, <2>3, <2>5
  <2> QED BY <2>4, <2>5
<1> HIDE DEF T
<1>6. n \in T
  BY <1>2, <1>4, <1>5, Induction
<1>7. f[n] \in Seq(Ids) /\ Range(f[n]) = upTo(n)
  BY <1>2, <1>6 DEF T
<1>8. Range(o) = {o[j] : j \in 1 .. n}
  BY <1>2 DEF Range
<1> QED BY <1>1, <1>7, <1>8

-----------------------------------------------------------------------------
(* The search index: what it holds of the items `its', but for those in     *)
(* `todo', is as they are, and no item that is kept is missing; none at all *)
(* if the index can hold whatever there is.                                 *)
Roomy == Cardinality(Ids) <= IndexCap

Sound(es, its, todo) ==
  /\ Map(es) /\ DOMAIN es \subseteq DOMAIN its
  /\ \A i \in DOMAIN es : es[i] \in {Entry(it) : it \in Item}
  /\ \A i \in DOMAIN es \ todo : es[i] = Entry(its[i])
  /\ \A i \in DOMAIN its \ todo : IsKept(its[i]) \/ Roomy => i \in DOMAIN es

LEMMA EvictOverflowIs ==
  ASSUME HistoryAssumption, NEW es, NEW o, Map(es), DOMAIN es \subseteq Ids
  PROVE  /\ Map(EvictOverflow(es, o)) /\ DOMAIN EvictOverflow(es, o) \subseteq DOMAIN es
         /\ \A i \in DOMAIN EvictOverflow(es, o) : EvictOverflow(es, o)[i] = es[i]
         /\ \A i \in DOMAIN es : es[i].pinned \/ es[i].tagged \/ Roomy => i \in DOMAIN EvictOverflow(es, o)
<1> DEFINE loose == {i \in DOMAIN es : ~es[i].pinned /\ ~es[i].tagged}
           before(i) == {j \in loose : MoreRecent(es, o, i, j)}
           gone == {i \in loose : Cardinality(before(i)) < Cardinality(DOMAIN es) - IndexCap}
<1>1. EvictOverflow(es, o) = [i \in DOMAIN es \ gone |-> es[i]]
  BY DEF EvictOverflow
<1>2. Roomy => gone = {}
  <2> SUFFICES ASSUME Roomy, NEW i \in gone
               PROVE  FALSE
    OBVIOUS
  <2>1. /\ Cardinality(DOMAIN es) \in Nat /\ IsFiniteSet(DOMAIN es) /\ Cardinality(Ids) \in Nat
        /\ Cardinality(DOMAIN es) <= Cardinality(Ids)
    BY FS_Subset, FS_CardinalityType DEF HistoryAssumption
  <2>2. before(i) \subseteq DOMAIN es
    OBVIOUS
  <2>3. Cardinality(before(i)) \in Nat
    <3> HIDE DEF before
    <3> QED BY <2>1, <2>2, FS_Subset, FS_CardinalityType
  <2>4. Cardinality(before(i)) < Cardinality(DOMAIN es) - IndexCap
    OBVIOUS
  <2> HIDE DEF before
  <2> QED BY <2>1, <2>3, <2>4 DEF Roomy, HistoryAssumption
<1>3. \A i \in gone : ~es[i].pinned /\ ~es[i].tagged
  OBVIOUS
<1> HIDE DEF gone
<1> QED BY <1>1, <1>2, <1>3 DEF Map

LEMMA EntryIs ==
  ASSUME NEW it \in Item
  PROVE  Entry(it).pinned \/ Entry(it).tagged <=> IsKept(it)
  BY DEF Item, Entry, IsKept

(* One item filed: evictOverflow takes none that is kept.                   *)
LEMMA FiledSound ==
  ASSUME HistoryAssumption, NEW es, NEW its, NEW todo, NEW o, NEW i \in DOMAIN its,
         ItemMap(its), DOMAIN its \subseteq Ids, Sound(es, its, todo)
  PROVE  Sound(EvictOverflow(With(es, i, Entry(its[i])), o), its, todo \ {i})
<1> DEFINE filed == With(es, i, Entry(its[i]))
           left == EvictOverflow(filed, o)
<1>1. /\ Map(filed) /\ DOMAIN filed = DOMAIN es \cup {i}
      /\ filed[i] = Entry(its[i]) /\ \A j \in DOMAIN es : j # i => filed[j] = es[j]
  BY DEF With, Map
<1>2. DOMAIN filed \subseteq Ids /\ DOMAIN filed \subseteq DOMAIN its
  BY <1>1 DEF Sound
<1> HIDE DEF filed
<1>3. /\ Map(left) /\ DOMAIN left \subseteq DOMAIN filed
      /\ \A j \in DOMAIN left : left[j] = filed[j]
      /\ \A j \in DOMAIN filed : filed[j].pinned \/ filed[j].tagged \/ Roomy => j \in DOMAIN left
  BY <1>1, <1>2, EvictOverflowIs
<1> HIDE DEF left
<1>4. \A j \in DOMAIN its : its[j] \in Item
  BY DEF ItemMap
<1>5. \A j \in DOMAIN left \ (todo \ {i}) : left[j] = Entry(its[j])
  BY <1>1, <1>2, <1>3 DEF Sound
<1>6. \A j \in DOMAIN its \ (todo \ {i}) : IsKept(its[j]) \/ Roomy => j \in DOMAIN left
  <2> SUFFICES ASSUME NEW j \in DOMAIN its \ (todo \ {i}), IsKept(its[j]) \/ Roomy
               PROVE  j \in DOMAIN left
    OBVIOUS
  <2>1. j \in DOMAIN filed /\ filed[j] = Entry(its[j])
    BY <1>1 DEF Sound
  <2>2. Entry(its[j]).pinned \/ Entry(its[j]).tagged \/ Roomy
    BY <1>4, EntryIs
  <2> QED BY <1>3, <2>1, <2>2
<1>7. \A j \in DOMAIN left : left[j] \in {Entry(it) : it \in Item}
  <2> SUFFICES ASSUME NEW j \in DOMAIN left
               PROVE  left[j] \in {Entry(it) : it \in Item}
    OBVIOUS
  <2>1. CASE j = i
    BY <1>1, <1>3, <1>4, <2>1
  <2>2. CASE j # i
    BY <1>1, <1>3, <2>2 DEF Sound
  <2> QED BY <2>1, <2>2
<1>8. Sound(left, its, todo \ {i})
  BY <1>1, <1>2, <1>3, <1>5, <1>6, <1>7 DEF Sound
<1> QED BY <1>8 DEF left, filed

(* Items filed one after the other.                                         *)
Filing(es, s, its, o, f) ==
  f = [k \in 0 .. Len(s) |->
         IF k = 0 THEN es
         ELSE EvictOverflow(With(f[k - 1], s[k], Entry(its[s[k]])), o)]

Entries == UNION {[D -> {Entry(it) : it \in Item}] : D \in SUBSET Ids}

LEMMA EntriesAre ==
  ASSUME NEW es
  PROVE  es \in Entries <=> /\ Map(es) /\ DOMAIN es \subseteq Ids
                            /\ \A i \in DOMAIN es : es[i] \in {Entry(it) : it \in Item}
  BY DEF Entries, Map

LEMMA FilingExists ==
  ASSUME HistoryAssumption, NEW es \in Entries, NEW s \in Seq(Ids), NEW its, NEW o, ItemMap(its),
         Range(s) \subseteq DOMAIN its
  PROVE  \E f : Filing(es, s, its, o, f)
<1> DEFINE n == Len(s)
           file(e, k) == EvictOverflow(With(e, s[k], Entry(its[s[k]])), o)
           step == [p \in Entries \X Nat |-> IF p[2] \in 1 .. n THEN file(p[1], p[2]) ELSE p[1]]
<1>1. n \in Nat
  OBVIOUS
<1>2. \A k \in 1 .. n : s[k] \in Ids /\ s[k] \in DOMAIN its /\ its[s[k]] \in Item
  BY DEF Range, ItemMap
<1>3. \A e \in Entries, k \in 1 .. n : file(e, k) \in Entries
  <2> SUFFICES ASSUME NEW e \in Entries, NEW k \in 1 .. n
               PROVE  file(e, k) \in Entries
    OBVIOUS
  <2> DEFINE i == s[k]
             x == Entry(its[i])
             filed == With(e, i, x)
  <2>1. i \in Ids /\ x \in {Entry(it) : it \in Item}
    BY <1>2
  <2>2. Map(e) /\ DOMAIN e \subseteq Ids /\ \A j \in DOMAIN e : e[j] \in {Entry(it) : it \in Item}
    BY EntriesAre
  <2> HIDE DEF i, x
  <2>3. /\ Map(filed) /\ DOMAIN filed = DOMAIN e \cup {i}
        /\ filed[i] = x /\ \A j \in DOMAIN e : j # i => filed[j] = e[j]
    BY DEF With, Map
  <2> HIDE DEF filed
  <2>4. /\ Map(EvictOverflow(filed, o)) /\ DOMAIN EvictOverflow(filed, o) \subseteq DOMAIN filed
        /\ \A j \in DOMAIN EvictOverflow(filed, o) : EvictOverflow(filed, o)[j] = filed[j]
    <3>1. Map(filed) /\ DOMAIN filed \subseteq Ids
      BY <2>1, <2>2, <2>3
    <3> QED BY <3>1, EvictOverflowIs
  <2>5. EvictOverflow(filed, o) \in Entries
    BY <2>1, <2>2, <2>3, <2>4, EntriesAre
  <2> QED BY <2>5 DEF filed, i, x
<1> HIDE DEF file
<1>4. \A e \in Entries, k \in Nat : step[<<e, k>>] = IF k \in 1 .. n THEN file(e, k) ELSE e
  OBVIOUS
<1> HIDE DEF step, n
<1>5. StepsOn(Entries, step)
  <2> SUFFICES ASSUME NEW e \in Entries, NEW k \in Nat
               PROVE  step[<<e, k>>] \in Entries
    BY DEF StepsOn
  <2> QED BY <1>3, <1>4
<1>6. PICK f : Recurs(Entries, es, step, n, f)
  BY <1>1, <1>5, Recursion
<1> DEFINE body(k) == IF k = 0 THEN es ELSE file(f[k - 1], k)
<1>7. \A k \in 0 .. n : f[k] = body(k)
  <2> SUFFICES ASSUME NEW k \in 1 .. n
               PROVE  f[k] = file(f[k - 1], k)
    <3>1. \A k \in 0 .. n : k = 0 \/ k \in 1 .. n
      BY <1>1
    <3> QED BY <1>6, <3>1 DEF Recurs
  <2>1. k \in Nat /\ k - 1 \in 0 .. n /\ f[k - 1] \in Entries /\ f[k] = step[<<f[k - 1], k>>]
    BY <1>1, <1>6 DEF Recurs
  <2> QED BY <1>4, <2>1
<1> HIDE DEF body
<1>8. f = [k \in 0 .. n |-> body(k)]
  BY <1>6, <1>7 DEF Recurs
<1> QED BY <1>8 DEF body, file, n, Filing

LEMMA IndexedAllSound ==
  ASSUME HistoryAssumption, NEW es, NEW s \in Seq(Ids), NEW its, NEW o,
         ItemMap(its), DOMAIN its \subseteq Ids, Range(s) \subseteq DOMAIN its,
         Sound(es, its, Range(s))
  PROVE  Sound(IndexedAll(es, s, its, o), its, {})
<1> DEFINE n == Len(s)
           f == CHOOSE g : Filing(es, s, its, o, g)
<1>1. n \in Nat /\ DOMAIN s = 1 .. n
  OBVIOUS
<1>2. Filing(es, s, its, o, f)
  <2>1. es \in Entries
    BY EntriesAre DEF Sound
  <2> QED BY <2>1, FilingExists
<1>3. IndexedAll(es, s, its, o) = f[n]
  BY DEF IndexedAll, Filing
<1> HIDE DEF f
<1>4. f[0] = es /\ \A k \in 1 .. n : f[k] = EvictOverflow(With(f[k - 1], s[k], Entry(its[s[k]])), o)
  <2> DEFINE body(k) == IF k = 0 THEN es ELSE EvictOverflow(With(f[k - 1], s[k], Entry(its[s[k]])), o)
  <2>1. f = [k \in 0 .. n |-> body(k)]
    BY <1>2 DEF Filing
  <2>2. \A k \in 0 .. n : f[k] = body(k)
    <3> HIDE DEF body
    <3> QED BY <2>1
  <2> QED BY <1>1, <2>2
<1> DEFINE todo(k) == {s[j] : j \in k + 1 .. n}
           T == {k \in Nat : k <= n => Sound(f[k], its, todo(k))}
<1>5. 0 \in T
  <2>1. todo(0) = Range(s)
    BY <1>1 DEF Range
  <2> QED BY <1>4, <2>1
<1>6. ASSUME NEW k \in Nat, k \in T
      PROVE  k + 1 \in T
  <2> SUFFICES ASSUME k + 1 <= n
               PROVE  Sound(f[k + 1], its, todo(k + 1))
    OBVIOUS
  <2>1. k + 1 \in 1 .. n /\ (k + 1) - 1 = k /\ Sound(f[k], its, todo(k))
    BY <1>1, <1>6
  <2>2. s[k + 1] \in DOMAIN its
    BY <1>1, <2>1 DEF Range
  <2>3. f[k + 1] = EvictOverflow(With(f[k], s[k + 1], Entry(its[s[k + 1]])), o)
    BY <1>4, <2>1
  <2>4. Sound(f[k + 1], its, todo(k) \ {s[k + 1]})
    <3> DEFINE e == f[k]
               i == s[k + 1]
               left == todo(k)
    <3>1. Sound(e, its, left) /\ i \in DOMAIN its
      BY <2>1, <2>2
    <3>2. f[k + 1] = EvictOverflow(With(e, i, Entry(its[i])), o)
      BY <2>3
    <3> HIDE DEF e, i, left
    <3>3. Sound(EvictOverflow(With(e, i, Entry(its[i])), o), its, left \ {i})
      BY <3>1, FiledSound
    <3> QED BY <3>2, <3>3 DEF i, left
  <2>5. todo(k) \ {s[k + 1]} \subseteq todo(k + 1)
    BY <1>1, <2>1
  <2> HIDE DEF todo
  <2> QED BY <2>4, <2>5 DEF Sound
<1>7. n \in T
  <2> HIDE DEF T
  <2> QED BY <1>1, <1>5, <1>6, Induction
<1>8. Sound(f[n], its, todo(n)) /\ todo(n) = {}
  <2>1. Sound(f[n], its, todo(n))
    <3> HIDE DEF todo
    <3> QED BY <1>1, <1>7
  <2>2. n + 1 .. n = {}
    BY <1>1
  <2> QED BY <2>1, <2>2
<1> HIDE DEF todo
<1> QED BY <1>3, <1>8

-----------------------------------------------------------------------------
(* The order of the items lists all of them, on the disk and in memory, and *)
(* while the previews are there the index is sound.                         *)
OrderInv ==
  /\ ord \in Seq(Ids) /\ Range(ord) = DOMAIN items
  /\ added \in Seq(Ids) /\ Range(added) = DOMAIN book.items

IndexInv == previewsLoaded => Sound(index, items, {})

SearchInv == EvictInv /\ OrderInv /\ IndexInv

LEMMA NothingOrdered == <<>> \in Seq(Ids) /\ Range(<<>>) = {} /\ Sound(<<>>, <<>>, {})
<1>1. <<>> \in Seq(Ids) /\ DOMAIN <<>> = {}
  OBVIOUS
<1>2. Range(<<>>) = {}
  BY <1>1 DEF Range
<1>3. Sound(<<>>, <<>>, {})
  BY <1>1, NothingThere DEF Sound
<1> QED BY <1>1, <1>2, <1>3

LEMMA OrderedIds ==
  ASSUME OrderInv
  PROVE  DOMAIN items \subseteq Ids /\ DOMAIN book.items \subseteq Ids
<1>1. \A o \in Seq(Ids) : Range(o) \subseteq Ids
  BY DEF Range
<1> QED BY <1>1 DEF OrderInv

LEMMA SearchInit == Init => SearchInv
<1> SUFFICES ASSUME Init
             PROVE  SearchInv
  OBVIOUS
<1>1. items = <<>> /\ ord = <<>> /\ added = <<>> /\ book.items = <<>> /\ index = <<>>
  BY DEF Init, EmptyBook
<1>2. DOMAIN <<>> = {}
  OBVIOUS
<1> QED BY <1>1, <1>2, EvictInit, NothingOrdered DEF SearchInv, OrderInv, IndexInv

LEMMA DieKeepsSearch ==
  ASSUME Die, added' \in Seq(Ids), Range(added') = DOMAIN book'.items
  PROVE  OrderInv' /\ IndexInv'
<1>1. items' = <<>> /\ ord' = <<>> /\ index' = <<>>
  BY DEF Die, NoMemory
<1>2. DOMAIN <<>> = {}
  OBVIOUS
<1> QED BY <1>1, <1>2, NothingOrdered DEF OrderInv, IndexInv

LEMMA KeptMemoryKeepsSearch ==
  ASSUME SearchInv, UNCHANGED <<items, ord, index, added, previewsLoaded>>,
         DOMAIN book'.items = DOMAIN book.items
  PROVE  OrderInv' /\ IndexInv'
  BY DEF SearchInv, OrderInv, IndexInv, Sound, Map

(* Only one entry is out of date after one item has changed.                *)
LEMMA WithSound ==
  ASSUME NEW es, NEW its, NEW i, NEW it, Sound(es, its, {})
  PROVE  Sound(es, With(its, i, it), {i})
<1>1. /\ DOMAIN With(its, i, it) = DOMAIN its \cup {i}
      /\ \A j \in DOMAIN its : j # i => With(its, i, it)[j] = its[j]
  BY DEF With
<1> QED BY <1>1 DEF Sound

LEMMA IndexedSound ==
  ASSUME HistoryAssumption, previewsLoaded, NEW o, NEW i \in Ids, NEW it \in Item,
         ItemMap(items), DOMAIN items \subseteq Ids, Sound(index, items, {})
  PROVE  Sound(Indexed(index, o, i, it), With(items, i, it), {})
<1> DEFINE its == With(items, i, it)
<1>1. Sound(index, its, {i})
  BY WithSound
<1>2. ItemMap(its) /\ DOMAIN its = DOMAIN items \cup {i} /\ its[i] = it
  <2>1. ItemMap(its)
    BY WithItem
  <2> QED BY <2>1 DEF With
<1> HIDE DEF its
<1>3. Sound(EvictOverflow(With(index, i, Entry(its[i])), o), its, {i} \ {i})
  <2>1. i \in DOMAIN its /\ DOMAIN its \subseteq Ids
    BY <1>2
  <2> QED BY <1>1, <1>2, <2>1, FiledSound
<1>4. {i} \ {i} = {} /\ Indexed(index, o, i, it) = EvictOverflow(With(index, i, Entry(its[i])), o)
  BY <1>2 DEF Indexed
<1>5. Sound(Indexed(index, o, i, it), its, {})
  BY <1>3, <1>4
<1> QED BY <1>5 DEF its

LEMMA ChangeKeepsSearch ==
  ASSUME HistoryAssumption, SearchInv, Changes
  PROVE  OrderInv' /\ IndexInv'
<1>1. PICK i \in DOMAIN items, p \in Patches : Updated(i, p)
  BY ChangesUpdate DEF SearchInv, EvictInv
<1>2. /\ book' = [items |-> Patched(book.items, i, p), tabs |-> book.tabs]
      /\ items' = With(items, i, Remembered(Merged(items[i], p), previewsLoaded))
  BY <1>1, UpdateEffect DEF SearchInv, EvictInv
<1>3. /\ UNCHANGED <<ord, added, previewsLoaded>>
      /\ index' = Indexed(index, ord, i, Merged(items[i], p))
  BY <1>1 DEF Updated, Logged
<1>4. DOMAIN book'.items = DOMAIN book.items /\ DOMAIN items' = DOMAIN items
  BY <1>2 DEF Patched, With
<1>5. OrderInv'
  BY <1>3, <1>4 DEF SearchInv, OrderInv
<1>6. ASSUME previewsLoaded
      PROVE  Sound(index', items', {})
  <2> DEFINE it == Merged(items[i], p)
  <2>1. it \in Item /\ i \in Ids /\ DOMAIN items \subseteq Ids
    BY MergedItem, OrderedIds DEF SearchInv, EvictInv, HistoryTypes, ItemMap
  <2>2. items' = With(items, i, it)
    BY <1>2, <1>6 DEF Remembered
  <2>3. index' = Indexed(index, ord, i, it)
    BY <1>3
  <2> HIDE DEF it
  <2>4. ItemMap(items) /\ Sound(index, items, {})
    BY <1>6 DEF SearchInv, IndexInv, EvictInv, HistoryTypes
  <2>5. Sound(Indexed(index, ord, i, it), With(items, i, it), {})
    BY <1>6, <2>1, <2>4, IndexedSound
  <2> QED BY <2>2, <2>3, <2>5
<1> QED BY <1>3, <1>5, <1>6 DEF IndexInv

LEMMA IngestKeepsSearch ==
  ASSUME HistoryAssumption, SearchInv, NEW c \in Contents, NEW i \in Ids, IngestNew(c, i)
  PROVE  OrderInv' /\ IndexInv'
<1> DEFINE it == NewItem(c)
<1>1. LoggedAdd(i, it) /\ added' = Append(added, i)
  BY DEF IngestNew, LoggedAdd
<1>2. book' = [items |-> With(book.items, i, it), tabs |-> book.tabs]
  BY <1>1, AddEffect DEF SearchInv, EvictInv
<1>3. /\ items' = With(items, i, Remembered(it, previewsLoaded))
      /\ ord' = Append(ord, i) /\ previewsLoaded' = previewsLoaded
      /\ index' = Indexed(index, ord', i, it)
  BY DEF IngestNew, Remember
<1>4. DOMAIN book'.items = DOMAIN book.items \cup {i} /\ DOMAIN items' = DOMAIN items \cup {i}
  BY <1>2, <1>3 DEF With
<1>5. OrderInv'
  BY <1>1, <1>3, <1>4, AppendedIs DEF SearchInv, OrderInv
<1>6. ASSUME previewsLoaded
      PROVE  Sound(index', items', {})
  <2>1. it \in Item /\ DOMAIN items \subseteq Ids
    BY NewItemType, OrderedIds DEF SearchInv, EvictInv, HistoryTypes
  <2> HIDE DEF it
  <2>2. items' = With(items, i, it)
    BY <1>3, <1>6 DEF Remembered
  <2>3. ItemMap(items) /\ Sound(index, items, {})
    BY <1>6 DEF SearchInv, IndexInv, EvictInv, HistoryTypes
  <2>4. Sound(Indexed(index, ord', i, it), With(items, i, it), {})
    BY <1>6, <2>1, <2>3, IndexedSound
  <2> QED BY <1>3, <2>2, <2>4
<1> QED BY <1>3, <1>5, <1>6 DEF IndexInv

LEMMA RemovalKeepsSearch ==
  ASSUME SearchInv, Removals
  PROVE  OrderInv' /\ IndexInv'
<1>1. PICK S \in SUBSET DOMAIN items : Removed(S) \/ RemovedAndDied(S)
  BY RemovalsRemove
<1>2. /\ LoggedDeletes(S) /\ added' = Only(added, DOMAIN book.items \ S)
  BY <1>1 DEF Removed, RemovedAndDied, LoggedDeletes
<1>3. book' = [items |-> [i \in DOMAIN book.items \ S |-> book.items[i]], tabs |-> book.tabs]
  BY <1>2, DeleteEffect DEF SearchInv, EvictInv
<1>4. added' \in Seq(Ids) /\ Range(added') = DOMAIN book'.items
  <2>1. Only(added, DOMAIN book.items \ S) \in Seq(Ids)
        /\ Range(Only(added, DOMAIN book.items \ S)) = Range(added) \cap (DOMAIN book.items \ S)
    BY OnlyIs DEF SearchInv, OrderInv
  <2>2. DOMAIN book'.items = DOMAIN book.items \ S
    BY <1>3
  <2> QED BY <1>2, <2>1, <2>2 DEF SearchInv, OrderInv
<1>5. CASE RemovedAndDied(S)
  BY <1>4, <1>5, DieKeepsSearch DEF RemovedAndDied
<1>6. CASE Removed(S)
  <2>1. /\ items' = [i \in DOMAIN items \ S |-> items[i]]
        /\ index' = [i \in DOMAIN index \ S |-> index[i]]
        /\ ord' = Only(ord, DOMAIN items \ S) /\ previewsLoaded' = previewsLoaded
    BY <1>6 DEF Removed, Forget
  <2>2. ord' \in Seq(Ids) /\ Range(ord') = DOMAIN items'
    <3>1. Only(ord, DOMAIN items \ S) \in Seq(Ids)
          /\ Range(Only(ord, DOMAIN items \ S)) = Range(ord) \cap (DOMAIN items \ S)
      BY OnlyIs DEF SearchInv, OrderInv
    <3> QED BY <2>1, <3>1 DEF SearchInv, OrderInv
  <2>3. IndexInv'
    BY <2>1 DEF SearchInv, IndexInv, Sound, Map
  <2> QED BY <1>4, <2>2, <2>3 DEF OrderInv
<1> QED BY <1>1, <1>5, <1>6

LEMMA TabKeepsSearch ==
  ASSUME HistoryAssumption, SearchInv, NEW t \in Tabs, CreateTab(t) \/ RemoveTab(t)
  PROVE  OrderInv' /\ IndexInv'
<1>1. CASE CreateTab(t)
  <2>1. book' = [book EXCEPT !.tabs = book.tabs \cup {t}]
    BY <1>1 DEF CreateTab, Logged, ApplyEvent, TabCreated
  <2>2. book'.items = book.items
    BY <2>1 DEF SearchInv, EvictInv, HistoryTypes
  <2>3. UNCHANGED <<items, ord, index, added, previewsLoaded>>
    BY <1>1 DEF CreateTab, Logged
  <2> QED BY <2>2, <2>3, KeptMemoryKeepsSearch
<1>2. CASE RemoveTab(t)
  <2>1. /\ DOMAIN book'.items = DOMAIN book.items /\ DOMAIN items' = DOMAIN items
        /\ \A i \in DOMAIN items : t \notin items[i].tags => items'[i] = items[i]
        /\ ItemMap(items')
    BY <1>2, RemoveTabEffect DEF SearchInv, EvictInv
  <2>2. /\ UNCHANGED <<ord, added, previewsLoaded>>
        /\ previewsLoaded => index' = IndexedAll(index, Only(ord, Affected(t)), items', ord)
    BY <1>2 DEF RemoveTab, Logged
  <2>3. OrderInv'
    BY <2>1, <2>2 DEF SearchInv, OrderInv
  <2>4. ASSUME previewsLoaded
        PROVE  Sound(index', items', {})
    <3> DEFINE s == Only(ord, Affected(t))
               its == items'
    <3>1. s \in Seq(Ids) /\ Range(s) = Affected(t)
      <4>1. s \in Seq(Ids) /\ Range(s) = DOMAIN items \cap Affected(t)
        BY OnlyIs DEF SearchInv, OrderInv
      <4> QED BY <4>1 DEF Affected
    <3>2. Sound(index, its, Affected(t))
      BY <2>1, <2>4 DEF SearchInv, IndexInv, Sound, Affected
    <3>3. ItemMap(its) /\ DOMAIN its \subseteq Ids /\ Affected(t) \subseteq DOMAIN its
      BY <2>1, OrderedIds DEF SearchInv, Affected
    <3>4. index' = IndexedAll(index, s, its, ord)
      BY <2>2, <2>4
    <3> HIDE DEF s, its
    <3>5. Sound(IndexedAll(index, s, its, ord), its, {})
      BY <3>1, <3>2, <3>3, IndexedAllSound
    <3> QED BY <3>4, <3>5 DEF its
  <2> QED BY <2>2, <2>3, <2>4 DEF IndexInv
<1> QED BY <1>1, <1>2

LEMMA LoadKeepsSearch ==
  ASSUME HistoryAssumption, SearchInv, Loaded
  PROVE  OrderInv' /\ IndexInv'
<1>1. /\ book' = book /\ added' = added /\ ord' = added
      /\ previewsLoaded' = (loading = "running")
      /\ items' = [i \in DOMAIN book.items |-> Remembered(book.items[i], loading = "running")]
      /\ loading = "running" => index' = IndexedAll(<<>>, added, book.items, added)
  BY DEF Loaded
<1>2. OrderInv'
  BY <1>1 DEF SearchInv, OrderInv
<1>3. ASSUME loading = "running"
      PROVE  Sound(index', items', {})
  <2>1. ItemMap(book.items)
    BY DEF SearchInv, EvictInv, HistoryTypes
  <2>2. items' = book.items
    BY <1>1, <1>3, <2>1 DEF Remembered, ItemMap, Map
  <2>3. added \in Seq(Ids) /\ Range(added) = DOMAIN book.items /\ DOMAIN book.items \subseteq Ids
    BY OrderedIds DEF SearchInv, OrderInv
  <2>4. Sound(<<>>, book.items, Range(added))
    <3>1. DOMAIN <<>> = {}
      OBVIOUS
    <3> QED BY <2>3, <3>1, NothingThere DEF Sound
  <2>5. Sound(IndexedAll(<<>>, added, book.items, added), book.items, {})
    BY <2>1, <2>3, <2>4, IndexedAllSound
  <2> QED BY <1>1, <1>3, <2>2, <2>5
<1> QED BY <1>1, <1>2, <1>3 DEF IndexInv

LEMMA SearchStep == HistoryAssumption /\ SearchInv /\ [Next]_vars => SearchInv'
<1> SUFFICES ASSUME HistoryAssumption, SearchInv, [Next]_vars
             PROVE  SearchInv'
  OBVIOUS
<1>1. EvictInv'
  BY EvictStep DEF SearchInv
<1>2. CASE Start \/ Load \/ LoadFails \/ Tick \/ RemoveGone \/ UNCHANGED vars
           \/ \E n \in LimitChoices : SetMaxItems(n)
  <2>1. UNCHANGED <<items, ord, index, added, previewsLoaded, book>>
    BY <1>2 DEF Start, Load, LoadFails, Tick, RemoveGone, SetMaxItems, vars, disk, memory
  <2> QED BY <1>1, <2>1, KeptMemoryKeepsSearch DEF SearchInv
<1>3. CASE EvictPreviewCache
  <2>1. /\ UNCHANGED <<book, added, ord>> /\ DOMAIN items' = DOMAIN items /\ previewsLoaded' = FALSE
    BY <1>3 DEF EvictPreviewCache, disk
  <2> QED BY <1>1, <2>1 DEF SearchInv, OrderInv, IndexInv
<1>4. CASE Crash
  <2>1. Die /\ UNCHANGED <<book, added>>
    BY <1>4 DEF Crash, disk
  <2> QED BY <1>1, <2>1, DieKeepsSearch DEF SearchInv, OrderInv
<1>5. ASSUME NEW c \in Contents, IngestFails(c)
      PROVE  SearchInv'
  <2>1. UNCHANGED <<items, ord, index, added, previewsLoaded, book>>
    BY <1>5 DEF IngestFails, NotLogged, memory
  <2> QED BY <1>1, <2>1, KeptMemoryKeepsSearch DEF SearchInv
<1>6. ASSUME NEW c \in Contents, IngestCrashes(c)
      PROVE  SearchInv'
  <2>1. Die
    BY <1>6 DEF IngestCrashes
  <2>2. CASE NotLogged
    BY <1>1, <2>1, <2>2, DieKeepsSearch DEF NotLogged, SearchInv, OrderInv
  <2>3. CASE \E i \in Fresh : LoggedAdd(i, NewItem(c))
    <3>1. PICK i \in Ids : LoggedAdd(i, NewItem(c))
      BY <2>3 DEF Fresh
    <3>2. DOMAIN book'.items = DOMAIN book.items \cup {i}
      <4>1. book' = [items |-> With(book.items, i, NewItem(c)), tabs |-> book.tabs]
        BY <3>1, AddEffect DEF SearchInv, EvictInv
      <4> QED BY <4>1 DEF With
    <3>3. added' = Append(added, i)
      BY <3>1 DEF LoggedAdd
    <3> QED BY <1>1, <2>1, <3>2, <3>3, AppendedIs, DieKeepsSearch DEF SearchInv, OrderInv
  <2> QED BY <1>6, <2>2, <2>3 DEF IngestCrashes
<1>7. ASSUME \/ Changes \/ Removals \/ Loaded
             \/ \E c \in Contents, i \in Ids : IngestNew(c, i)
             \/ \E t \in Tabs : CreateTab(t) \/ RemoveTab(t)
      PROVE  SearchInv'
  BY <1>1, <1>7, ChangeKeepsSearch, RemovalKeepsSearch, LoadKeepsSearch, IngestKeepsSearch,
     TabKeepsSearch DEF SearchInv
<1> QED
  BY <1>2, <1>3, <1>4, <1>5, <1>6, <1>7 DEF Next, IngestStep, ItemStep, Changes, Removals

LEMMA SearchHolds == Spec => []SearchInv
  BY HistoryAssumption, SearchInit, SearchStep, PTL DEF Spec

(* Typing in the palette finds every item as it is now, if the index can    *)
(* hold them all: what is copied, changed, removed, reloaded or taken out   *)
(* of a tab is filed again with every change (reindex), whatever fails.     *)
THEOREM SearchIsComplete == Cardinality(Ids) <= IndexCap /\ Spec => []SearchFindsEverything
<1> SUFFICES ASSUME Roomy
             PROVE  Spec => []SearchFindsEverything
  BY DEF Roomy
<1>1. SearchInv => SearchFindsEverything
  BY DEF SearchFindsEverything, SearchInv, IndexInv, Sound, Map
<1> QED BY <1>1, SearchHolds, PTL

(* And if it cannot: what it holds is as it is now, and an item that is     *)
(* pinned or filed in a tab is in it, for an index of any capacity and any  *)
(* number of such items (evictOverflow).                                    *)
THEOREM SearchHasWhatIsKept == Spec => []SearchKeepsTheKept
<1>1. SearchInv => SearchKeepsTheKept
  BY DEF SearchInv, IndexInv, Sound, SearchKeepsTheKept
<1> QED BY <1>1, SearchHolds, PTL

-----------------------------------------------------------------------------
(* Sums of bytes, for any finite set of items.                              *)
Sized(its) == \A i \in DOMAIN its : its[i].byteLength \in Nat

Sums(its, S, f) ==
  f = [s \in SUBSET S |->
         IF s = {} THEN 0
         ELSE LET x == CHOOSE y \in s : TRUE
              IN  its[x].byteLength + f[s \ {x}]]

LEMMA FewerElements ==
  ASSUME NEW s, IsFiniteSet(s), NEW x \in s
  PROVE  /\ IsFiniteSet(s \ {x}) /\ Cardinality(s) \in Nat /\ Cardinality(s \ {x}) \in Nat
         /\ Cardinality(s) = Cardinality(s \ {x}) + 1
<1>1. IsFiniteSet(s \ {x}) /\ Cardinality(s \ {x}) = Cardinality(s) - 1
  BY FS_RemoveElement
<1>2. Cardinality(s) \in Nat /\ Cardinality(s \ {x}) \in Nat
  BY <1>1, FS_CardinalityType
<1> QED BY <1>1, <1>2

(* The sum over every subset of S exists: k steps settle it for those of at *)
(* most k elements.                                                         *)
LEMMA SumsExist ==
  ASSUME NEW its, Sized(its), NEW S \in SUBSET DOMAIN its, IsFiniteSet(S)
  PROVE  \E f : Sums(its, S, f)
<1> DEFINE V == [SUBSET S -> Nat]
           pick(s) == CHOOSE y \in s : TRUE
           next(g) == [s \in SUBSET S |->
                         IF s = {} THEN 0 ELSE its[pick(s)].byteLength + g[s \ {pick(s)}]]
           step == [p \in V \X Nat |-> next(p[1])]
           none == [s \in SUBSET S |-> 0]
           n == Cardinality(S)
<1>1. \A s \in SUBSET S : s # {} => pick(s) \in s /\ its[pick(s)].byteLength \in Nat
  BY DEF Sized
<1> HIDE DEF pick
<1>2. \A g \in V : next(g) \in V
  <2> SUFFICES ASSUME NEW g \in V, NEW s \in SUBSET S, s # {}
               PROVE  its[pick(s)].byteLength + g[s \ {pick(s)}] \in Nat
    OBVIOUS
  <2>1. s \ {pick(s)} \in SUBSET S
    OBVIOUS
  <2>2. g[s \ {pick(s)}] \in Nat
    BY <2>1
  <2> QED BY <1>1, <2>2
<1>3. none \in V /\ n \in Nat
  BY FS_CardinalityType
<1>4. \A g \in V, k \in Nat : step[<<g, k>>] = next(g)
  OBVIOUS
<1>5. \A g : next(g) = [s \in SUBSET S |->
                         IF s = {} THEN 0 ELSE its[pick(s)].byteLength + g[s \ {pick(s)}]]
  OBVIOUS
<1> HIDE DEF next, step, none, n
<1>6. StepsOn(V, step)
  BY <1>2, <1>4 DEF StepsOn
<1>7. PICK g : Recurs(V, none, step, n + 1, g)
  <2> HIDE DEF V
  <2>1. n + 1 \in Nat
    BY <1>3
  <2> QED BY <1>3, <1>6, <2>1, Recursion
<1>8. \A k \in 0 .. n : g[k] \in V /\ g[k + 1] = next(g[k])
  <2> SUFFICES ASSUME NEW k \in 0 .. n
               PROVE  g[k] \in V /\ g[k + 1] = next(g[k])
    OBVIOUS
  <2>1. k \in 0 .. n + 1 /\ k + 1 \in 1 .. n + 1 /\ (k + 1) - 1 = k /\ k + 1 \in Nat
    BY <1>3
  <2>2. g[k] \in V /\ g[k + 1] = step[<<g[k], k + 1>>]
    BY <2>1, <1>7 DEF Recurs
  <2> QED BY <1>4, <2>1, <2>2
<1> DEFINE T == {k \in Nat : k <= n =>
                   \A s \in SUBSET S : Cardinality(s) <= k => g[k + 1][s] = g[k][s]}
<1>9. \A s \in SUBSET S : IsFiniteSet(s) /\ Cardinality(s) \in Nat
  BY FS_Subset, FS_CardinalityType
<1>10. 0 \in T
  <2> SUFFICES ASSUME NEW s \in SUBSET S, Cardinality(s) <= 0
               PROVE  g[1][s] = g[0][s]
    BY <1>3
  <2>1. s = {}
    BY <1>9, FS_EmptySet
  <2>2. g[1] = next(g[0]) /\ g[0] = none
    BY <1>3, <1>7, <1>8 DEF Recurs
  <2>3. next(g[0])[{}] = 0 /\ none[{}] = 0
    BY <1>5 DEF none
  <2> QED BY <2>1, <2>2, <2>3
<1>11. ASSUME NEW k \in Nat, k \in T
       PROVE  k + 1 \in T
  <2> SUFFICES ASSUME k + 1 <= n, NEW s \in SUBSET S, Cardinality(s) <= k + 1
               PROVE  g[(k + 1) + 1][s] = g[k + 1][s]
    OBVIOUS
  <2>1. k \in 0 .. n /\ k + 1 \in 0 .. n
    BY <1>3
  <2>2. g[(k + 1) + 1] = next(g[k + 1]) /\ g[k + 1] = next(g[k])
    BY <1>8, <2>1
  <2>3. CASE s = {}
    BY <1>5, <2>2, <2>3
  <2>4. CASE s # {}
    <3> DEFINE x == pick(s)
               t == s \ {x}
    <3>1. x \in s
      BY <1>1, <2>4
    <3>2. t \in SUBSET S /\ Cardinality(t) <= k
      BY <1>9, <3>1, FewerElements
    <3>3. g[k + 1][t] = g[k][t]
      BY <1>3, <1>11, <3>2
    <3>4. /\ next(g[k + 1])[s] = its[x].byteLength + g[k + 1][t]
          /\ next(g[k])[s] = its[x].byteLength + g[k][t]
      BY <1>5, <2>4
    <3> QED BY <2>2, <3>3, <3>4
  <2> QED BY <2>3, <2>4
<1>12. n \in T
  <2> HIDE DEF T
  <2> QED BY <1>3, <1>10, <1>11, Induction
<1>13. g[n + 1] = g[n]
  <2>1. \A s \in SUBSET S : Cardinality(s) <= n
    BY FS_Subset DEF n
  <2>2. \A s \in SUBSET S : g[n + 1][s] = g[n][s]
    BY <1>3, <1>12, <2>1
  <2>3. g[n] \in V /\ g[n + 1] \in V
    <3>1. n \in 0 .. n
      BY <1>3
    <3> HIDE DEF V
    <3> QED BY <1>2, <1>8, <3>1
  <2> QED BY <2>2, <2>3
<1> DEFINE f == g[n]
<1>14. f = next(f)
  BY <1>3, <1>8, <1>13
<1> HIDE DEF f, T
<1>15. f = [s \in SUBSET S |-> IF s = {} THEN 0 ELSE its[pick(s)].byteLength + f[s \ {pick(s)}]]
  BY <1>5, <1>14
<1> QED BY <1>15 DEF Sums, pick

LEMMA SumsAt ==
  ASSUME NEW its, NEW S, NEW f, Sums(its, S, f)
  PROVE  /\ f[{}] = 0
         /\ \A s \in SUBSET S : s # {} =>
              f[s] = its[CHOOSE y \in s : TRUE].byteLength + f[s \ {CHOOSE y \in s : TRUE}]
<1> DEFINE body(s) == IF s = {} THEN 0
                      ELSE its[CHOOSE y \in s : TRUE].byteLength + f[s \ {CHOOSE y \in s : TRUE}]
<1>1. f = [s \in SUBSET S |-> body(s)]
  BY DEF Sums
<1>2. \A s \in SUBSET S : f[s] = body(s)
  <2> HIDE DEF body
  <2> QED BY <1>1
<1>3. {} \in SUBSET S
  OBVIOUS
<1> QED BY <1>2, <1>3

LEMMA SumsAgree ==
  ASSUME NEW its, NEW S, NEW f, Sums(its, S, f), NEW R \in SUBSET S, IsFiniteSet(R),
         NEW g, Sums(its, R, g)
  PROVE  f[R] = g[R]
<1> DEFINE T == {n \in Nat : \A s \in SUBSET R : Cardinality(s) = n => f[s] = g[s]}
<1>1. \A s \in SUBSET R : IsFiniteSet(s) /\ Cardinality(s) \in Nat
  BY FS_Subset, FS_CardinalityType
<1>2. 0 \in T
  <2> SUFFICES ASSUME NEW s \in SUBSET R, Cardinality(s) = 0
               PROVE  f[s] = g[s]
    OBVIOUS
  <2>1. s = {}
    BY <1>1, FS_EmptySet
  <2> QED BY <2>1, SumsAt
<1>3. ASSUME NEW n \in Nat, n \in T
      PROVE  n + 1 \in T
  <2> SUFFICES ASSUME NEW s \in SUBSET R, Cardinality(s) = n + 1
               PROVE  f[s] = g[s]
    OBVIOUS
  <2> DEFINE x == CHOOSE y \in s : TRUE
  <2>1. s # {}
    BY <1>3, FS_EmptySet
  <2>2. x \in s
    BY <2>1
  <2>3. f[s] = its[x].byteLength + f[s \ {x}] /\ g[s] = its[x].byteLength + g[s \ {x}]
    BY <2>1, SumsAt
  <2> HIDE DEF x
  <2>4. Cardinality(s \ {x}) = n /\ s \ {x} \in SUBSET R
    BY <1>1, <1>3, <2>2, FewerElements
  <2>5. f[s \ {x}] = g[s \ {x}]
    BY <1>3, <2>4
  <2> QED BY <2>3, <2>5
<1> HIDE DEF T
<1>4. Cardinality(R) \in T
  BY <1>1, <1>2, <1>3, Induction
<1> QED BY <1>4 DEF T

LEMMA BytesIs ==
  ASSUME NEW its, Sized(its), NEW S \in SUBSET DOMAIN its, IsFiniteSet(S)
  PROVE  \E f : Sums(its, S, f) /\ Bytes(its, S) = f[S]
<1> DEFINE f == CHOOSE g : Sums(its, S, g)
<1>1. Sums(its, S, f)
  BY SumsExist
<1>2. Bytes(its, S) = f[S]
  BY DEF Bytes, MapThenSumSet, MapThenFoldSet, Sums
<1> QED BY <1>1, <1>2

(* The sum over a set is that of one of its elements and of the others.     *)
LEMMA BytesPicked ==
  ASSUME NEW its, Sized(its), NEW S \in SUBSET DOMAIN its, IsFiniteSet(S)
  PROVE  /\ S = {} => Bytes(its, S) = 0
         /\ S # {} => \E x \in S : Bytes(its, S) = its[x].byteLength + Bytes(its, S \ {x})
<1>1. PICK f : Sums(its, S, f) /\ Bytes(its, S) = f[S]
  BY BytesIs
<1>2. CASE S = {}
  BY <1>1, <1>2, SumsAt
<1>3. CASE S # {}
  <2> DEFINE x == CHOOSE y \in S : TRUE
  <2>1. x \in S
    BY <1>3
  <2>2. f[S] = its[x].byteLength + f[S \ {x}]
    BY <1>1, <1>3, SumsAt
  <2> HIDE DEF x
  <2>3. S \ {x} \in SUBSET DOMAIN its /\ S \ {x} \in SUBSET S /\ IsFiniteSet(S \ {x})
    BY FS_Subset
  <2>4. PICK g : Sums(its, S \ {x}, g) /\ Bytes(its, S \ {x}) = g[S \ {x}]
    BY <2>3, BytesIs
  <2>5. f[S \ {x}] = g[S \ {x}]
    BY <1>1, <2>3, <2>4, SumsAgree
  <2> QED BY <1>1, <1>3, <2>1, <2>2, <2>4, <2>5
<1> QED BY <1>2, <1>3

LEMMA BytesStep ==
  ASSUME NEW its, Sized(its), NEW S \in SUBSET DOMAIN its, IsFiniteSet(S)
  PROVE  /\ Bytes(its, S) \in Nat
         /\ \A x \in S : Bytes(its, S) = its[x].byteLength + Bytes(its, S \ {x})
<1> DEFINE T == {n \in Nat : \A s \in SUBSET S : Cardinality(s) <= n =>
                   /\ Bytes(its, s) \in Nat
                   /\ \A x \in s : Bytes(its, s) = its[x].byteLength + Bytes(its, s \ {x})}
<1>1. \A s \in SUBSET S : IsFiniteSet(s) /\ Cardinality(s) \in Nat /\ s \in SUBSET DOMAIN its
  BY FS_Subset, FS_CardinalityType
<1>2. 0 \in T
  <2> SUFFICES ASSUME NEW s \in SUBSET S, Cardinality(s) <= 0
               PROVE  /\ Bytes(its, s) \in Nat
                      /\ \A x \in s : Bytes(its, s) = its[x].byteLength + Bytes(its, s \ {x})
    OBVIOUS
  <2>1. s = {}
    BY <1>1, FS_EmptySet
  <2>2. Bytes(its, s) = 0
    BY <1>1, <2>1, BytesPicked
  <2> QED BY <2>1, <2>2
<1>3. ASSUME NEW n \in Nat, n \in T
      PROVE  n + 1 \in T
  <2> SUFFICES ASSUME NEW s \in SUBSET S, Cardinality(s) <= n + 1, s # {}
               PROVE  /\ Bytes(its, s) \in Nat
                      /\ \A x \in s : Bytes(its, s) = its[x].byteLength + Bytes(its, s \ {x})
    BY <1>1, BytesPicked
  <2>2. PICK c \in s : Bytes(its, s) = its[c].byteLength + Bytes(its, s \ {c})
    BY <1>1, BytesPicked
  <2>3. \A x \in s : /\ s \ {x} \in SUBSET S /\ Cardinality(s \ {x}) <= n
                     /\ its[x].byteLength \in Nat
    BY <1>1, <1>3, FewerElements DEF Sized
  <2>4. \A x \in s : /\ Bytes(its, s \ {x}) \in Nat
                     /\ \A y \in s \ {x} :
                         Bytes(its, s \ {x}) = its[y].byteLength + Bytes(its, (s \ {x}) \ {y})
    BY <1>3, <2>3
  <2>5. Bytes(its, s) \in Nat
    BY <2>2, <2>3, <2>4
  <2>6. ASSUME NEW x \in s, x # c
        PROVE  Bytes(its, s) = its[x].byteLength + Bytes(its, s \ {x})
    <3> DEFINE r == s \ {c, x}
    <3>1. (s \ {c}) \ {x} = r /\ (s \ {x}) \ {c} = r
      OBVIOUS
    <3>2. Bytes(its, s \ {c}) = its[x].byteLength + Bytes(its, r)
      BY <2>4, <2>6, <3>1
    <3>3. Bytes(its, s \ {x}) = its[c].byteLength + Bytes(its, r)
      BY <2>4, <2>6, <3>1
    <3>4. Bytes(its, r) \in Nat
      <4>1. r \in SUBSET S /\ Cardinality(r) <= n
        <5>1. r = (s \ {c}) \ {x} /\ x \in s \ {c}
          BY <2>6
        <5>2. s \ {c} \in SUBSET S /\ Cardinality(s \ {c}) <= n
          BY <2>3
        <5> DEFINE t == s \ {c}
        <5> HIDE DEF t
        <5>3. IsFiniteSet(t) /\ x \in t /\ Cardinality(t) <= n
          BY <1>1, <5>1, <5>2 DEF t
        <5>4. /\ Cardinality(t) \in Nat /\ Cardinality(t \ {x}) \in Nat
              /\ Cardinality(t) = Cardinality(t \ {x}) + 1
          BY <5>3, FewerElements
        <5>5. Cardinality(t \ {x}) <= n
          BY <5>3, <5>4
        <5> QED BY <5>1, <5>5, <5>2 DEF t
      <4> QED BY <1>3, <4>1
    <3> HIDE DEF r
    <3>5. its[x].byteLength \in Nat /\ its[c].byteLength \in Nat
      BY <2>3
    <3> QED BY <2>2, <3>2, <3>3, <3>4, <3>5
  <2> QED BY <2>2, <2>5, <2>6
<1> HIDE DEF T
<1>4. Cardinality(S) \in T
  BY <1>1, <1>2, <1>3, Induction
<1> QED BY <1>4 DEF T

LEMMA BytesGrow ==
  ASSUME NEW its, Sized(its), NEW S \in SUBSET DOMAIN its, IsFiniteSet(S), NEW R \in SUBSET S
  PROVE  Bytes(its, R) <= Bytes(its, S)
<1> DEFINE T == {n \in Nat : \A s \in SUBSET S : Cardinality(s) = n /\ R \subseteq s =>
                   Bytes(its, R) <= Bytes(its, s)}
<1>1. \A s \in SUBSET S : /\ IsFiniteSet(s) /\ Cardinality(s) \in Nat
                          /\ s \in SUBSET DOMAIN its /\ Bytes(its, s) \in Nat
  <2> SUFFICES ASSUME NEW s \in SUBSET S
               PROVE  /\ IsFiniteSet(s) /\ Cardinality(s) \in Nat
                      /\ s \in SUBSET DOMAIN its /\ Bytes(its, s) \in Nat
    OBVIOUS
  <2>1. IsFiniteSet(s) /\ s \in SUBSET DOMAIN its
    BY FS_Subset
  <2> QED BY <2>1, FS_CardinalityType, BytesStep
<1>2. 0 \in T
  <2> SUFFICES ASSUME NEW s \in SUBSET S, Cardinality(s) = 0, R \subseteq s
               PROVE  Bytes(its, R) <= Bytes(its, s)
    OBVIOUS
  <2>1. s = {} /\ R = s
    BY <1>1, FS_EmptySet
  <2> QED BY <1>1, <2>1
<1>3. ASSUME NEW n \in Nat, n \in T
      PROVE  n + 1 \in T
  <2> SUFFICES ASSUME NEW s \in SUBSET S, Cardinality(s) = n + 1, R \subseteq s, R # s
               PROVE  Bytes(its, R) <= Bytes(its, s)
    BY <1>1
  <2>1. PICK x \in s : x \notin R
    OBVIOUS
  <2>2. s \ {x} \in SUBSET S /\ R \subseteq s \ {x} /\ Cardinality(s \ {x}) = n
    BY <1>1, <2>1, FewerElements
  <2>3. Bytes(its, R) <= Bytes(its, s \ {x})
    BY <1>3, <2>2
  <2>4. /\ Bytes(its, s) = its[x].byteLength + Bytes(its, s \ {x})
        /\ its[x].byteLength \in Nat /\ Bytes(its, s \ {x}) \in Nat /\ Bytes(its, R) \in Nat
    BY <1>1, <2>1, <2>2, BytesStep DEF Sized
  <2> QED BY <2>3, <2>4
<1> HIDE DEF T
<1>4. Cardinality(S) \in T
  BY <1>1, <1>2, <1>3, Induction
<1> QED BY <1>4 DEF T

LEMMA BytesSame ==
  ASSUME NEW its, Sized(its), NEW other, Sized(other), NEW S \in SUBSET DOMAIN its,
         S \subseteq DOMAIN other, IsFiniteSet(S),
         \A i \in S : its[i].byteLength = other[i].byteLength
  PROVE  Bytes(its, S) = Bytes(other, S)
<1> DEFINE T == {n \in Nat : \A s \in SUBSET S : Cardinality(s) = n => Bytes(its, s) = Bytes(other, s)}
<1>1. \A s \in SUBSET S : /\ IsFiniteSet(s) /\ Cardinality(s) \in Nat
                          /\ s \in SUBSET DOMAIN its /\ s \in SUBSET DOMAIN other
  BY FS_Subset, FS_CardinalityType
<1>2. 0 \in T
  <2> SUFFICES ASSUME NEW s \in SUBSET S, Cardinality(s) = 0
               PROVE  Bytes(its, s) = Bytes(other, s)
    OBVIOUS
  <2>1. s = {}
    BY <1>1, FS_EmptySet
  <2>2. Bytes(its, s) = 0
    BY <1>1, <2>1, BytesPicked
  <2>3. Bytes(other, s) = 0
    BY <1>1, <2>1, BytesPicked
  <2> QED BY <2>2, <2>3
<1>3. ASSUME NEW n \in Nat, n \in T
      PROVE  n + 1 \in T
  <2> SUFFICES ASSUME NEW s \in SUBSET S, Cardinality(s) = n + 1
               PROVE  Bytes(its, s) = Bytes(other, s)
    OBVIOUS
  <2>1. PICK x : x \in s
    BY <1>3, FS_EmptySet
  <2>2. s \ {x} \in SUBSET S /\ Cardinality(s \ {x}) = n
    <3>1. Cardinality(s \ {x}) \in Nat /\ Cardinality(s) = Cardinality(s \ {x}) + 1
      BY <1>1, <2>1, FewerElements
    <3> QED BY <1>3, <3>1
  <2>3. Bytes(its, s \ {x}) = Bytes(other, s \ {x})
    BY <1>3, <2>2
  <2>4. Bytes(its, s) = its[x].byteLength + Bytes(its, s \ {x})
    BY <1>1, <2>1, BytesStep
  <2>5. Bytes(other, s) = other[x].byteLength + Bytes(other, s \ {x})
    BY <1>1, <2>1, BytesStep
  <2> QED BY <2>1, <2>3, <2>4, <2>5
<1> HIDE DEF T
<1>4. Cardinality(S) \in T
  BY <1>1, <1>2, <1>3, Induction
<1> QED BY <1>4 DEF T

-----------------------------------------------------------------------------
(* Sweeps.                                                                  *)
Sweepable(its) ==
  /\ DOMAIN its \subseteq Int /\ IsFiniteSet(DOMAIN its) /\ Sized(its)
  /\ \A i \in DOMAIN its : its[i].updatedAt \in Int

LEMMA NewerIsAnOrder ==
  ASSUME NEW its, Sweepable(its)
  PROVE  /\ \A i \in DOMAIN its : ~Newer(its, i, i)
         /\ \A i, j \in DOMAIN its : i # j => Newer(its, i, j) \/ Newer(its, j, i)
         /\ \A i, j, k \in DOMAIN its : Newer(its, i, j) /\ Newer(its, j, k) => Newer(its, i, k)
<1>1. \A i \in DOMAIN its : i \in Int /\ its[i].updatedAt \in Int
  BY DEF Sweepable
<1> QED BY <1>1 DEF Newer

(* Of finitely many items one is the oldest.                                *)
LEMMA Oldest ==
  ASSUME NEW its, Sweepable(its), NEW R \in SUBSET DOMAIN its, R # {}
  PROVE  \E x \in R : \A y \in R : y = x \/ Newer(its, y, x)
<1> DEFINE older(x) == {y \in R : Newer(its, x, y)}
           T == {older(x) : x \in R}
<1>1. T \in SUBSET FiniteSubsetsOf(R) /\ T # {}
  <2>1. IsFiniteSet(R)
    BY FS_Subset DEF Sweepable
  <2>2. \A x \in R : older(x) \in SUBSET R /\ IsFiniteSet(older(x))
    BY <2>1, FS_Subset
  <2> QED BY <2>2 DEF FiniteSubsetsOf
<1>2. PICK least \in T : \A s \in T : ~(<<s, least>> \in StrictSubsetOrdering(R))
  <2> HIDE DEF T
  <2> QED BY <1>1, FS_StrictSubsetOrderingWellFounded, WFMin
<1>3. PICK x \in R : least = older(x)
  BY <1>2
<1>4. ASSUME NEW y \in R, y # x, ~Newer(its, y, x)
      PROVE  FALSE
  <2>1. Newer(its, x, y)
    BY <1>4, NewerIsAnOrder
  <2>2. older(y) \subseteq older(x) /\ y \in older(x) /\ y \notin older(y)
    BY <2>1, NewerIsAnOrder
  <2>3. <<older(y), older(x)>> \in StrictSubsetOrdering(R)
    BY <2>2 DEF StrictSubsetOrdering
  <2>4. older(y) \in T
    OBVIOUS
  <2> QED BY <1>2, <1>3, <2>3, <2>4
<1> QED BY <1>4

(* The parts of a plan: what it condemns, and what it leaves of what nobody *)
(* keeps.                                                                   *)
LEMMA PlanIs ==
  ASSUME NEW its, NEW t, NEW limits
  PROVE  LET rest  == Unkept(its) \ (Expiring(its, t) \cup Aging(its, t, limits.maxAge))
             surplus == Surplus(its, rest, limits.maxItems)
         IN  DOMAIN PlanEviction(its, t, limits) =
               Expiring(its, t) \cup Aging(its, t, limits.maxAge) \cup surplus
                 \cup Overweight(its, rest \ surplus, limits.maxBytes)
  BY DEF PlanEviction

LEMMA NothingToPlan ==
  ASSUME NEW its, NEW t, NEW limits, DOMAIN PlanEviction(its, t, limits) = {}
  PROVE  PlanEviction(its, t, limits) = <<>>
<1>1. \A f : Map(f) /\ DOMAIN f = {} => f = <<>>
  BY DEF Map
<1>2. Map(PlanEviction(its, t, limits))
  BY DEF Map, PlanEviction
<1> QED BY <1>1, <1>2

LEMMA CountIs ==
  ASSUME NEW S, IsFiniteSet(S), NEW R \in SUBSET S
  PROVE  /\ IsFiniteSet(R) /\ Cardinality(R) \in Nat /\ Cardinality(S) \in Nat
         /\ Cardinality(R) <= Cardinality(S)
<1>1. IsFiniteSet(R) /\ Cardinality(R) <= Cardinality(S)
  BY FS_Subset
<1> QED BY <1>1, FS_CardinalityType

(* What planEviction does is what a sweep should do, whatever is in the     *)
(* history and whatever the limits: the loops that count items and add up   *)
(* bytes from the newest on stop neither early nor late.                    *)
THEOREM PlansAreExact ==
  ASSUME NEW its, Sweepable(its), NEW t, NEW limits, limits.maxItems \in Nat, limits.maxBytes \in Nat
  PROVE  ExactlySwept(its, [i \in DOMAIN its \ DOMAIN PlanEviction(its, t, limits) |-> its[i]],
                      t, limits)
<1> DEFINE max      == limits.maxItems
           most     == limits.maxBytes
           expiring == Expiring(its, t)
           aging    == Aging(its, t, limits.maxAge)
           rest     == Unkept(its) \ (expiring \cup aging)
           surplus  == Surplus(its, rest, max)
           light    == rest \ surplus
           heavy    == Overweight(its, light, most)
           R        == light \ heavy
           gone     == expiring \cup aging \cup surplus \cup heavy
           left     == [i \in DOMAIN its \ gone |-> its[i]]
           newer(i, S) == {j \in S : Newer(its, j, i)}
           upTo(i, S)  == {j \in S : j = i \/ Newer(its, j, i)}
<1>1. gone = DOMAIN PlanEviction(its, t, limits)
  BY PlanIs
<1>2. /\ expiring \subseteq DOMAIN its
      /\ \A i \in DOMAIN its : i \in expiring <=> IsExpired(its[i], t)
  BY DEF Expiring
<1>3. \A i : i \in aging <=> /\ i \in Unkept(its) /\ i \notin expiring
                             /\ TooOld(its[i], t, limits.maxAge)
  BY DEF Aging
<1>4. Unkept(its) \subseteq DOMAIN its /\ \A i \in DOMAIN its : i \in Unkept(its) <=> ~IsKept(its[i])
  BY DEF Unkept
<1>5. \A i : i \in surplus <=> i \in rest /\ Cardinality(newer(i, rest)) + 1 > max
  BY DEF Surplus
<1>6. \A i : i \in heavy <=> i \in light /\ Bytes(its, upTo(i, light)) > most
  BY DEF Overweight
<1>7. /\ DOMAIN left = DOMAIN its \ gone /\ \A i \in DOMAIN left : left[i] = its[i]
  OBVIOUS
<1>8. /\ max \in Nat /\ most \in Nat /\ IsFiniteSet(DOMAIN its) /\ Sized(its)
  BY DEF Sweepable
<1> HIDE DEF expiring, aging, surplus, heavy, left, max, most
<1>9. rest \subseteq DOMAIN its /\ light \subseteq rest /\ R \subseteq light
  BY <1>4
<1>10. Unkept(left) = R
  <2>1. Unkept(left) = {i \in DOMAIN left : ~IsKept(left[i])}
    BY DEF Unkept
  <2> QED BY <1>4, <1>7, <2>1
<1>11. \A S \in SUBSET DOMAIN its : IsFiniteSet(S) /\ Cardinality(S) \in Nat
  BY <1>8, CountIs
<1>12. Cardinality(Unkept(left)) <= max
  <2>1. CASE R = {}
    BY <1>8, <1>10, <2>1, FS_EmptySet
  <2>2. CASE R # {}
    <3>1. PICK x \in R : \A y \in R : y = x \/ Newer(its, y, x)
      BY <1>9, <2>2, Oldest
    <3>2. R \ {x} \subseteq newer(x, rest) /\ newer(x, rest) \in SUBSET DOMAIN its
      BY <1>9, <3>1
    <3>3. Cardinality(newer(x, rest)) + 1 <= max
      <4>1. x \in rest /\ x \notin surplus /\ Cardinality(newer(x, rest)) \in Nat
        BY <1>9, <1>11, <3>2
      <4> QED BY <1>5, <1>8, <4>1
    <3>4. /\ Cardinality(R \ {x}) \in Nat /\ Cardinality(newer(x, rest)) \in Nat
          /\ Cardinality(R \ {x}) <= Cardinality(newer(x, rest))
      <4> HIDE DEF newer, R
      <4> QED BY <1>11, <3>2, CountIs
    <3>5. Cardinality(R) = Cardinality(R \ {x}) + 1
      <4> HIDE DEF R
      <4>1. R \in SUBSET DOMAIN its
        BY <1>9 DEF R
      <4> QED BY <1>11, <4>1, FewerElements
    <3> QED BY <1>8, <1>10, <3>3, <3>4, <3>5
  <2> QED BY <2>1, <2>2
<1>13. \A S \in SUBSET DOMAIN left : Bytes(left, S) = Bytes(its, S)
  <2> SUFFICES ASSUME NEW S \in SUBSET DOMAIN left
               PROVE  Bytes(left, S) = Bytes(its, S)
    OBVIOUS
  <2>1. Sized(left) /\ S \in SUBSET DOMAIN its /\ IsFiniteSet(S)
    BY <1>7, <1>8, <1>11 DEF Sized
  <2>2. \A i \in S : left[i].byteLength = its[i].byteLength
    BY <1>7
  <2> QED BY <1>8, <2>1, <2>2, BytesSame
<1>14. \A i \in R : \A S \in SUBSET upTo(i, light) : Bytes(its, S) <= most
  <2> SUFFICES ASSUME NEW i \in R, NEW S \in SUBSET upTo(i, light)
               PROVE  Bytes(its, S) <= most
    OBVIOUS
  <2>1. upTo(i, light) \in SUBSET DOMAIN its /\ i \in light /\ i \notin heavy
    BY <1>9
  <2>2. ~(Bytes(its, upTo(i, light)) > most)
    BY <1>6, <2>1
  <2> HIDE DEF upTo
  <2>3. /\ Bytes(its, upTo(i, light)) \in Nat /\ Bytes(its, S) \in Nat
        /\ Bytes(its, S) <= Bytes(its, upTo(i, light))
    BY <1>8, <1>11, <2>1, BytesStep, BytesGrow
  <2> QED BY <1>8, <2>2, <2>3
<1>15. Bytes(left, Unkept(left)) <= most
  <2>1. R \in SUBSET DOMAIN left
    BY <1>4, <1>7
  <2>2. CASE R = {}
    <3>1. {} \in SUBSET DOMAIN its /\ IsFiniteSet({})
      BY <1>11
    <3>2. Bytes(its, {}) = 0
      BY <1>8, <3>1, BytesPicked
    <3>3. Bytes(left, R) = 0
      BY <1>13, <2>1, <2>2, <3>2
    <3> QED BY <1>8, <1>10, <3>3
  <2>3. CASE R # {}
    <3>1. PICK x \in R : \A y \in R : y = x \/ Newer(its, y, x)
      BY <1>9, <2>3, Oldest
    <3>2. R \in SUBSET upTo(x, light)
      BY <1>9, <3>1
    <3>3. Bytes(its, R) <= most
      BY <1>14, <3>2
    <3> QED BY <1>10, <1>13, <2>1, <3>3
  <2> QED BY <2>2, <2>3
<1>16. \A i \in DOMAIN left : ~IsExpired(left[i], t)
  BY <1>2, <1>7
<1>17. \A i, j \in DOMAIN left : Newer(left, i, j) <=> Newer(its, i, j)
  BY <1>7 DEF Newer
<1>18. PlanEviction(left, t, limits) = <<>>
  <2>1. Expiring(left, t) = {}
    BY <1>16 DEF Expiring
  <2>2. Aging(left, t, limits.maxAge) = {}
    <3>1. \A i \in R : ~TooOld(left[i], t, limits.maxAge)
      BY <1>2, <1>3, <1>4, <1>7
    <3> QED BY <1>10, <3>1 DEF Aging
  <2>3. Surplus(left, R, max) = {}
    <3> SUFFICES ASSUME NEW i \in R
                 PROVE  ~(Cardinality({j \in R : Newer(left, j, i)}) + 1 > max)
      BY DEF Surplus
    <3> DEFINE N == {j \in R : Newer(left, j, i)}
    <3>1. R \subseteq DOMAIN left
      BY <1>4, <1>7
    <3>2. N \subseteq newer(i, rest) /\ newer(i, rest) \in SUBSET DOMAIN its
      BY <1>9, <1>17, <3>1
    <3>3. i \in rest /\ i \notin surplus
      BY <1>9
    <3>4. ~(Cardinality(newer(i, rest)) + 1 > max)
      BY <1>5, <3>3
    <3> HIDE DEF N, newer
    <3>5. /\ Cardinality(N) \in Nat /\ Cardinality(newer(i, rest)) \in Nat
          /\ Cardinality(N) <= Cardinality(newer(i, rest))
      BY <1>11, <3>2, CountIs
    <3>6. ~(Cardinality(N) + 1 > max)
      BY <1>8, <3>4, <3>5
    <3> QED BY <3>6 DEF N
  <2>4. Overweight(left, R, most) = {}
    <3> SUFFICES ASSUME NEW i \in R
                 PROVE  ~(Bytes(left, {j \in R : j = i \/ Newer(left, j, i)}) > most)
      BY DEF Overweight
    <3> DEFINE N == {j \in R : j = i \/ Newer(left, j, i)}
    <3>1. R \subseteq DOMAIN left
      BY <1>4, <1>7
    <3>2. N \in SUBSET upTo(i, light) /\ N \in SUBSET DOMAIN left /\ N \in SUBSET DOMAIN its
      BY <1>9, <1>17, <3>1
    <3> HIDE DEF N
    <3>3. Bytes(its, N) <= most /\ Bytes(left, N) = Bytes(its, N) /\ Bytes(its, N) \in Nat
      BY <1>8, <1>11, <1>13, <1>14, <3>2, BytesStep
    <3>4. ~(Bytes(left, N) > most)
      BY <1>8, <3>3
    <3> QED BY <3>4 DEF N
  <2>5. Unkept(left) \ (Expiring(left, t) \cup Aging(left, t, limits.maxAge)) = R
    BY <1>10, <2>1, <2>2
  <2>6. Surplus(left, R, limits.maxItems) = {} /\ R \ {} = R /\ Overweight(left, R, limits.maxBytes) = {}
    BY <2>3, <2>4 DEF max, most
  <2> HIDE DEF R
  <2>7. DOMAIN PlanEviction(left, t, limits) = {}
    <3>1. DOMAIN PlanEviction(left, t, limits) =
            {} \cup {} \cup Surplus(left, R, limits.maxItems)
              \cup Overweight(left, R \ Surplus(left, R, limits.maxItems), limits.maxBytes)
      BY <2>1, <2>2, <2>5, PlanIs
    <3> QED BY <2>6, <3>1
  <2> QED BY <2>7, NothingToPlan
<1>19. ASSUME NEW i \in DOMAIN its \ DOMAIN left
       PROVE  \/ IsExpired(its[i], t)
              \/ /\ ~its[i].pinned /\ its[i].tags = {}
                 /\ TooOld(its[i], t, limits.maxAge) \/ ~Room(its, i, t, limits)
  <2>1. i \in gone
    BY <1>7
  <2>2. CASE i \in expiring
    BY <1>2, <2>2
  <2>3. CASE i \in aging
    BY <1>3, <1>4, <2>3 DEF IsKept
  <2> DEFINE N == {j \in Unkept(its) : /\ Newer(its, j, i)
                                       /\ ~IsExpired(its[j], t)
                                       /\ ~TooOld(its[j], t, limits.maxAge)}
  <2>4. N = newer(i, rest)
    BY <1>2, <1>3, <1>4
  <2>5. Room(its, i, t, limits) =>
          Cardinality(N) < max /\ Bytes(its, N) + its[i].byteLength <= most
    BY DEF Room, max, most
  <2>6. CASE i \in surplus
    <3>1. i \in rest /\ Cardinality(newer(i, rest)) + 1 > max
      BY <1>5, <2>6
    <3>2. Cardinality(newer(i, rest)) \in Nat
      BY <1>9, <1>11
    <3>3. ~Room(its, i, t, limits)
      <4> HIDE DEF N, newer
      <4> QED BY <1>8, <2>4, <2>5, <3>1, <3>2
    <3> QED BY <1>4, <3>1, <3>3 DEF IsKept
  <2>7. CASE i \in heavy
    <3>1. i \in light /\ i \in rest /\ Bytes(its, upTo(i, light)) > most
      BY <1>6, <1>9, <2>7
    <3>2. newer(i, rest) \subseteq light
      <4> SUFFICES ASSUME NEW j \in newer(i, rest), j \in surplus
                   PROVE  FALSE
        OBVIOUS
      <4>1. j \in rest /\ Newer(its, j, i)
        OBVIOUS
      <4>2. newer(j, rest) \subseteq newer(i, rest) /\ newer(i, rest) \in SUBSET DOMAIN its
        BY <1>9, <3>1, <4>1, NewerIsAnOrder
      <4>3. i \notin surplus /\ Cardinality(newer(j, rest)) + 1 > max
        BY <1>5, <3>1
      <4>4. ~(Cardinality(newer(i, rest)) + 1 > max)
        BY <1>5, <3>1, <4>3
      <4> HIDE DEF newer
      <4>5. /\ Cardinality(newer(i, rest)) \in Nat /\ Cardinality(newer(j, rest)) \in Nat
            /\ Cardinality(newer(j, rest)) <= Cardinality(newer(i, rest))
        BY <1>11, <4>2, CountIs
      <4> QED BY <1>8, <4>3, <4>4, <4>5
    <3> DEFINE M == upTo(i, light)
    <3>3. M \ {i} = N /\ i \in M /\ M \in SUBSET DOMAIN its
      BY <1>9, <2>4, <3>1, <3>2, NewerIsAnOrder
    <3>4. Bytes(its, M) > most
      BY <3>1
    <3> HIDE DEF M, N
    <3>5. Bytes(its, M) = its[i].byteLength + Bytes(its, N)
      BY <1>8, <1>11, <3>3, BytesStep
    <3>6. its[i].byteLength \in Nat /\ Bytes(its, N) \in Nat
      <4>1. N \in SUBSET DOMAIN its
        BY <3>3
      <4> QED BY <1>8, <1>11, <4>1, BytesStep DEF Sized
    <3>7. ~Room(its, i, t, limits)
      BY <1>8, <2>5, <3>4, <3>5, <3>6
    <3> QED BY <1>4, <3>1, <3>7 DEF IsKept
  <2> QED BY <2>1, <2>2, <2>3, <2>6, <2>7
<1>20. ExactlySwept(its, left, t, limits)
  BY <1>12, <1>15, <1>16, <1>18, <1>19 DEF ExactlySwept, max, most
<1> HIDE DEF gone
<1> QED BY <1>1, <1>20 DEF left

LimitInv == maxItems \in LimitChoices

LEMMA LimitStep == LimitInv /\ [Next]_vars => LimitInv'
<1> SUFFICES ASSUME LimitInv, [Next]_vars
             PROVE  LimitInv'
  OBVIOUS
<1>1. CASE Changes
  <2>1. maxItems' = maxItems
    <3>1. \A i, p : Updated(i, p) => maxItems' = maxItems
      BY DEF Updated
    <3> QED BY <1>1, <3>1 DEF Changes, Recopy, Pin, Tag, SetTitle
  <2> QED BY <2>1 DEF LimitInv
<1>2. CASE Removals
  BY <1>2, RemovalsRemove DEF Removed, RemovedAndDied, LimitInv
<1> QED
  BY <1>1, <1>2
     DEF LimitInv, Next, Start, Load, Loaded, LoadFails, EvictPreviewCache, SetMaxItems, Tick, Crash, IngestStep,
         ItemStep, Changes, Removals, IngestNew, IngestFails, IngestCrashes, CreateTab, RemoveTab,
         RemoveGone, vars

(* So is every sweep of a history, whatever was copied, kept and changed    *)
(* before, and whichever limits are set (history.evict).                    *)
THEOREM SweepsAreExact == Spec => [][EvictNow => ExactlySwept(items, items', now, Limits)]_vars
<1>1. Spec => []SearchInv
  BY SearchHolds
<1>2. Spec => []LimitInv
  <2>1. Init => LimitInv
    BY DEF Init, LimitInv
  <2> QED BY <2>1, LimitStep, PTL DEF Spec
<1>3. SearchInv /\ LimitInv /\ [Next]_vars =>
        [EvictNow => ExactlySwept(items, items', now, Limits)]_vars
  <2> SUFFICES ASSUME SearchInv, LimitInv, EvictNow
               PROVE  ExactlySwept(items, items', now, Limits)
    OBVIOUS
  <2>1. items' = [i \in DOMAIN items \ DOMAIN PlanEviction(items, now, Limits) |-> items[i]]
    BY DEF EvictNow, Removed, Forget, Plan
  <2>2. Sweepable(items)
    <3>1. DOMAIN items \subseteq Ids
      BY OrderedIds DEF SearchInv
    <3>2. \A i \in DOMAIN items : items[i] \in Item
      BY DEF SearchInv, EvictInv, HistoryTypes, ItemMap
    <3>3. IsFiniteSet(DOMAIN items) /\ DOMAIN items \subseteq Int
      BY <3>1, HistoryAssumption, FS_Subset DEF HistoryAssumption
    <3> QED BY <3>2, <3>3 DEF Sweepable, Sized, Item
  <2>3. Limits.maxItems \in Nat /\ Limits.maxBytes \in Nat
    BY HistoryAssumption DEF Limits, LimitInv, HistoryAssumption
  <2> QED BY <2>1, <2>2, <2>3, PlansAreExact
<1> QED BY <1>1, <1>2, <1>3, PTL DEF Spec
=============================================================================
