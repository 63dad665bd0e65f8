------------------------------ MODULE LogStore ------------------------------
(***************************************************************************)
(* packages/store: the encrypted, hash-chained event log history.ndjson    *)
(* and the directory of content-addressed blobs beside it, as one process  *)
(* uses them, with crashes and failing file operations.                    *)
(*                                                                         *)
(* The store's methods are synchronous, so each is one step; what a crash  *)
(* or an I/O error in the middle of one can leave on the disk is a choice  *)
(* inside that step.  A sealed line is abstracted to the fields its AAD    *)
(* and payload carry and a nonce that no other line has; SHA-256 is taken  *)
(* to be injective, so a chain tip is the sequence of the nonces it folds. *)
(***************************************************************************)
EXTENDS Events, FiniteSets, SequencesExt

CONSTANTS
  Items,      (* item ids                                                  *)
  Tabs,       (* tab names                                                 *)
  Blobs,      (* blob ids                                                  *)
  Refs,       (* Refs[i]: the blobs of item i, thumbnail included          *)
  Faults,     (* what a failing file operation may leave behind            *)
  MaxSeals    (* bound: lines sealed and written, over all generations     *)

ASSUME LogStoreAssumption ==
  /\ IsFiniteSet(Items) /\ IsFiniteSet(Tabs)
  /\ Refs \in [Items -> SUBSET Blobs]
  /\ Faults \subseteq {"clean", "torn", "whole", "short", "renamed", "undurable"}
  /\ MaxSeals \in Nat

VARIABLES
  lines,      (* the complete, newline-terminated lines of history.ndjson  *)
  torn,       (* does the file end in bytes without a newline?             *)
  blobs,      (* the blob files a reader sees                              *)
  entries,    (* the blob directory as of its last fsync                   *)
  up,         (* is the store open?                                        *)
  mem,        (* the open store's anchorSeq, lineCount and tipHash         *)
  reply,      (* the answer to the last call                               *)
  seals       (* lines sealed and written so far: the last nonce           *)

disk == <<lines, torn, blobs, entries>>
vars == <<lines, torn, blobs, entries, up, mem, reply, seals>>

-----------------------------------------------------------------------------
(* Sealed records and the hash chain.                                      *)

AnchorAadSeq == 0

Sealed(nonce, index, seq, prev, e) ==
  [nonce  |-> nonce,
   whole  |-> TRUE,
   index  |-> index,
   aadSeq |-> IF index = 0 THEN AnchorAadSeq ELSE seq,
   seq    |-> seq,
   prev   |-> prev,
   event  |-> e]

(* Bytes in front of a line, with no newline between, spoil the line.      *)
Glued(line) == [line EXCEPT !.whole = FALSE]

ChainGenesis == <<>>
ChainNext(tip, line) == Append(tip, line.nonce)
ChainTip(ls) == [k \in DOMAIN ls |-> ls[k].nonce]

(* A record opens only at the index and sequence number it was sealed for. *)
Opens(line, index, aadSeq) ==
  /\ line.whole
  /\ line.index = index
  /\ line.aadSeq = aadSeq

(* Line k (counted from 1) of a log whose anchor has sequence number a.    *)
Authentic(ls, a, k) ==
  /\ Opens(ls[k], k - 1, IF k = 1 THEN AnchorAadSeq ELSE a + k - 1)
  /\ ls[k].prev = ChainTip(SubSeq(ls, 1, k - 1))

Accepted(ls, a, k) ==
  /\ Authentic(ls, a, k)
  /\ ls[k].seq = a + k - 1

(* readAll yields no error.                                                *)
Verifies(ls, a) == \A k \in DOMAIN ls : Accepted(ls, a, k)

(* How many records readAll yields before its first error, after a reopen. *)
ReadLen(ls) ==
  LET bad == {k \in DOMAIN ls : ~Accepted(ls, ls[1].seq, k)}
  IN  IF bad = {} THEN Len(ls) ELSE Min(bad) - 1

(* Replaying them, from nothing.                                           *)
Replay(ls) ==
  LET after[k \in 0..Len(ls)] ==
        IF k = 0 THEN EmptyBook ELSE ApplyEvent(after[k - 1], ls[k].event)
  IN  after[ReadLen(ls)]

Book == Replay(lines)

MaxSeq == mem.anchorSeq + mem.lineCount - 1

(* What is left of the blob directory by a crash: entries whose creation   *)
(* or removal was never fsynced may be there or not.                       *)
Survivors(now) ==
  {S \in SUBSET (now \cup entries) : now \cap entries \subseteq S}

-----------------------------------------------------------------------------
(* Answers.                                                                *)

NoReply == [ok |-> TRUE, call |-> Checkpoint]
Yes(e)  == [ok |-> TRUE, call |-> e]
No(why) == [ok |-> FALSE, call |-> [kind |-> why]]
Compacted == Yes([kind |-> "compact"])

(* The events.  An item's mutable part is its set of tabs; whatever else a *)
(* patch can carry, the store treats in the same way.                      *)
ItemOf(T) == [tags |-> T]
Event ==
  [kind : {"CHECKPOINT"}]
    \cup [kind : {"ITEM_ADDED"}, id : Items, item : [tags : SUBSET Tabs]]
    \cup [kind : {"ITEM_UPDATED"}, id : Items, patch : [tags : SUBSET Tabs]]
    \cup [kind : {"ITEM_DELETED"}, id : Items]
    \cup [kind : {"TAB_CREATED", "TAB_DELETED"}, tag : Tabs]

(* The calls packages/history makes: ids are fresh when added, and only    *)
(* live items are updated or deleted.                                      *)
Callable ==
  LET live == {i \in Items : i \in DOMAIN Book.items}
  IN  {ItemAdded(i, ItemOf({})) : i \in Items \ live}
        \cup {ItemUpdated(i, ItemOf(T)) : i \in live, T \in SUBSET Tabs}
        \cup {ItemDeleted(i) : i \in live}
        \cup {TabCreated(t) : t \in Tabs}
        \cup {TabDeleted(t) : t \in Tabs}

-----------------------------------------------------------------------------
Closed == [anchorSeq |-> 0, lineCount |-> 0, tip |-> ChainGenesis]

Init ==
  /\ lines = <<>>
  /\ torn = FALSE
  /\ blobs = {}
  /\ entries = {}
  /\ up = FALSE
  /\ mem = Closed
  /\ reply = NoReply
  /\ seals = 0

(* Mutant: the byte of the last newline is cut off with the torn tail.  *)
OpenExisting_CutsALine ==
  /\ ~up
  /\ lines # <<>>
  /\ Opens(lines[1], 0, AnchorAadSeq)
  /\ lines[1].event = Checkpoint
  /\ lines' = IF torn THEN SubSeq(lines, 1, Len(lines) - 1) ELSE lines
  /\ torn' = FALSE
  /\ up' = TRUE
  /\ mem' = [anchorSeq |-> lines[1].seq,
             lineCount |-> Len(lines'),
             tip       |-> ChainTip(lines')]
  /\ UNCHANGED <<blobs, entries, reply, seals>>

(* openStore on a log that has a line: cut the torn tail, open the anchor, *)
(* count and fold the lines; nothing else is decrypted.                    *)
OpenExisting ==
  /\ ~up
  /\ lines # <<>>
  /\ Opens(lines[1], 0, AnchorAadSeq)
  /\ lines[1].event = Checkpoint
  /\ torn' = FALSE
  /\ up' = TRUE
  /\ mem' = [anchorSeq |-> lines[1].seq,
             lineCount |-> Len(lines),
             tip       |-> ChainTip(lines)]
  /\ UNCHANGED <<lines, blobs, entries, reply, seals>>

AnchorLine == Sealed(seals + 1, 0, 1, ChainGenesis, Checkpoint)

(* openStore on an empty log seals the anchor CHECKPOINT with seq 1.       *)
OpenFresh ==
  /\ ~up
  /\ lines = <<>>
  /\ seals < MaxSeals
  /\ lines' = <<AnchorLine>>
  /\ torn' = FALSE
  /\ up' = TRUE
  /\ mem' = [anchorSeq |-> 1,
             lineCount |-> 1,
             tip       |-> ChainNext(ChainGenesis, AnchorLine)]
  /\ seals' = seals + 1
  /\ UNCHANGED <<blobs, entries, reply>>

(* ... or fails, or crashes, after writing some of it.                     *)
OpenFails ==
  /\ ~up
  /\ lines = <<>>
  /\ \/ /\ torn' \in BOOLEAN
        /\ UNCHANGED <<lines, seals>>
     \/ /\ seals < MaxSeals
        /\ lines' = <<AnchorLine>>
        /\ torn' = FALSE
        /\ seals' = seals + 1
  /\ UNCHANGED <<blobs, entries, up, mem, reply>>

-----------------------------------------------------------------------------
(* sealAndAppend.  The line is sealed from memory and written after        *)
(* whatever the file ends in.                                              *)
NextLine(e) == Sealed(seals + 1, mem.lineCount, MaxSeq + 1, mem.tip, e)

WriteLine(e) ==
  /\ seals < MaxSeals
  /\ lines' = Append(lines, IF torn THEN Glued(NextLine(e)) ELSE NextLine(e))
  /\ torn' = FALSE
  /\ seals' = seals + 1

WriteSome == torn' = TRUE /\ UNCHANGED <<lines, seals>>
WriteNone == UNCHANGED <<lines, torn, seals>>

(* Mutant: the tip is not folded.                                       *)
Advance_StaleTip(e) == mem' = [mem EXCEPT !.lineCount = @ + 1]

Advance(e) ==
  mem' = [mem EXCEPT !.lineCount = @ + 1, !.tip = ChainNext(@, NextLine(e))]

(* Mutant: the blobs of an item are not looked for.                     *)
BlobsPresent_Unchecked(e) == TRUE

(* An ITEM_ADDED may only name blobs that are on the disk.                 *)
BlobsPresent(e) == e.kind = "ITEM_ADDED" => Refs[e.id] \subseteq blobs

AppendEvent(e) ==
  /\ up
  /\ BlobsPresent(e)
  /\ WriteLine(e)
  /\ Advance(e)
  /\ reply' = Yes(e)
  /\ UNCHANGED <<blobs, entries, up>>

AppendRefused(e) ==
  /\ up
  /\ ~BlobsPresent(e)
  /\ reply' = No("append")
  /\ UNCHANGED <<disk, up, mem, seals>>

(* The write, the fsync or the chmod throws: E_STORE_IO, and memory stays  *)
(* as it was, whatever reached the file.                                   *)
AppendFails(e) ==
  /\ up
  /\ BlobsPresent(e)
  /\ \/ "clean" \in Faults /\ WriteNone
     \/ "torn" \in Faults /\ WriteSome
     \/ "whole" \in Faults /\ WriteLine(e)
  /\ reply' = No("append")
  /\ UNCHANGED <<blobs, entries, up, mem>>

(* writeSync returns after a short write, and nobody looks at its result.  *)
AppendShort(e) ==
  /\ up
  /\ BlobsPresent(e)
  /\ "short" \in Faults
  /\ seals < MaxSeals
  /\ torn' = TRUE
  /\ seals' = seals + 1
  /\ Advance(e)
  /\ reply' = Yes(e)
  /\ UNCHANGED <<lines, blobs, entries, up>>

(* The process dies in the call.                                           *)
Die == up' = FALSE /\ mem' = Closed /\ reply' = NoReply

AppendCrashes(e) ==
  /\ up
  /\ BlobsPresent(e)
  /\ WriteNone \/ WriteSome \/ WriteLine(e)
  /\ blobs' \in Survivors(blobs)
  /\ entries' = blobs'
  /\ Die

-----------------------------------------------------------------------------
(* Blobs.                                                                  *)

(* put: temporary file, fsync, rename, fsync of the directory.  A blob     *)
(* that is already there is left alone.                                    *)
PutBlob(b) ==
  /\ up
  /\ b \notin blobs
  /\ blobs' = blobs \cup {b}
  /\ entries' = blobs'
  /\ UNCHANGED <<lines, torn, up, mem, reply, seals>>

(* The directory's fsync throws after the rename.                          *)
PutBlobFails(b) ==
  /\ up
  /\ b \notin blobs
  /\ "undurable" \in Faults
  /\ blobs' = blobs \cup {b}
  /\ UNCHANGED <<lines, torn, entries, up, mem, reply, seals>>

PutBlobCrashes(b) ==
  /\ up
  /\ b \notin blobs
  /\ blobs' \in Survivors(blobs \cup {b})
  /\ entries' = blobs'
  /\ Die
  /\ UNCHANGED <<lines, torn, seals>>

(* packages/history deletes only blobs no live item names.                 *)
Unreferenced(b) == \A i \in DOMAIN Book.items : b \notin Refs[i]

DeleteBlob(b) ==
  /\ up
  /\ b \in blobs
  /\ Unreferenced(b)
  /\ blobs' = blobs \ {b}
  /\ entries' = blobs'
  /\ UNCHANGED <<lines, torn, up, mem, reply, seals>>

DeleteBlobFails(b) ==
  /\ up
  /\ b \in blobs
  /\ Unreferenced(b)
  /\ "undurable" \in Faults
  /\ blobs' = blobs \ {b}
  /\ UNCHANGED <<lines, torn, entries, up, mem, reply, seals>>

DeleteBlobCrashes(b) ==
  /\ up
  /\ b \in blobs
  /\ Unreferenced(b)
  /\ blobs' \in Survivors(blobs \ {b})
  /\ entries' = blobs'
  /\ Die
  /\ UNCHANGED <<lines, torn, seals>>

-----------------------------------------------------------------------------
(* compact(liveIds): replay the file, keep the live items asked for, write *)
(* a new generation whose sequence numbers continue the old one's, rename  *)
(* it over the log, and only then remove the blobs nothing names.          *)

AddedAt(i) ==
  CHOOSE k \in DOMAIN lines :
    /\ lines[k].event.kind = "ITEM_ADDED"
    /\ lines[k].event.id = i
    /\ \A j \in DOMAIN lines :
         lines[j].event.kind = "ITEM_ADDED" /\ lines[j].event.id = i => j <= k

KeptItems(requested) == {i \in requested : i \in DOMAIN Book.items}
(* Mutant: compaction forgets the tabs made by createTab.               *)
KeptTabs_None == {}
KeptTabs == {t \in Tabs : t \in Book.tabs}
KeptRefs(requested) == UNION {Refs[i] : i \in KeptItems(requested)}

(* The kept items in the order they were added, and the tabs in any order. *)
AddOrders(K) ==
  {o \in [1..Cardinality(K) -> K] :
     \A m, n \in 1..Cardinality(K) : m < n => AddedAt(o[m]) < AddedAt(o[n])}

TabOrders(T) ==
  {o \in [1..Cardinality(T) -> T] :
     \A m, n \in 1..Cardinality(T) : m # n => o[m] # o[n]}

(* An item as its ITEM_ADDED in the new generation carries it.             *)
Materialised(it) == ItemOf({t \in Tabs : t \in it.tags})

(* The event of line k of the new generation.                              *)
GenerationEvent(items, o, to, k) ==
  CASE k = 1 -> Checkpoint
    [] k \in 2..(1 + Len(o)) -> ItemAdded(o[k - 1], Materialised(items[o[k - 1]]))
    [] OTHER -> TabCreated(to[k - 1 - Len(o)])

(* Mutant: sequence numbers start again with every generation.          *)
Generation_FromOne(o, to) ==
  LET items == Book.items
  IN  [k \in 1..(1 + Len(o) + Len(to)) |->
         Sealed(seals + k, k - 1, k, [j \in 1..(k - 1) |-> seals + j],
                GenerationEvent(items, o, to, k))]

Generation(o, to) ==
  LET base == MaxSeq + 1
      items == Book.items
  IN  [k \in 1..(1 + Len(o) + Len(to)) |->
         Sealed(seals + k, k - 1, base + k - 1,
                [j \in 1..(k - 1) |-> seals + j], GenerationEvent(items, o, to, k))]

CanCompact == up /\ \A k \in DOMAIN lines : Authentic(lines, mem.anchorSeq, k)

(* Written to a temporary file and renamed over the log.                   *)
Switch(o, to) ==
  /\ seals + 1 + Len(o) + Len(to) <= MaxSeals
  /\ lines' = Generation(o, to)
  /\ torn' = FALSE
  /\ seals' = seals + 1 + Len(o) + Len(to)

(* Mutant: memory keeps the line count of the old generation.           *)
Adopt_OldCount(o, to) ==
  mem' = [anchorSeq |-> MaxSeq + 1,
          lineCount |-> mem.lineCount,
          tip       |-> ChainTip(Generation(o, to))]

Adopt(o, to) ==
  mem' = [anchorSeq |-> MaxSeq + 1,
          lineCount |-> 1 + Len(o) + Len(to),
          tip       |-> ChainTip(Generation(o, to))]

Compact(requested) ==
  /\ CanCompact
  /\ \E o \in AddOrders(KeptItems(requested)), to \in TabOrders(KeptTabs) :
       Switch(o, to) /\ Adopt(o, to)
  /\ blobs' = blobs \cap KeptRefs(requested)
  /\ reply' = Compacted
  /\ UNCHANGED <<entries, up>>

(* An unlink throws half-way: E_STORE_IO, after the switch.                *)
CompactGcFails(requested) ==
  /\ CanCompact
  /\ \E o \in AddOrders(KeptItems(requested)), to \in TabOrders(KeptTabs) :
       Switch(o, to) /\ Adopt(o, to)
  /\ \E S \in SUBSET blobs :
       /\ blobs \cap KeptRefs(requested) \subseteq S
       /\ blobs' = S
       /\ S # blobs \cap KeptRefs(requested)
  /\ reply' = No("blob GC failed")
  /\ UNCHANGED <<entries, up>>

(* "compact failed before rename": the write, the rename or -- with the    *)
(* rename already done -- the directory's fsync throws.                    *)
CompactWriteFails(requested) ==
  /\ CanCompact
  /\ \/ "clean" \in Faults /\ WriteNone
     \/ /\ "renamed" \in Faults
        /\ \E o \in AddOrders(KeptItems(requested)), to \in TabOrders(KeptTabs) :
             Switch(o, to)
  /\ reply' = No("failed before rename")
  /\ UNCHANGED <<blobs, entries, up, mem>>

(* A log that does not authenticate is not compacted.                      *)
CompactRefused ==
  /\ up
  /\ ~CanCompact
  /\ reply' = No("corrupt")
  /\ UNCHANGED <<disk, up, mem, seals>>

CompactCrashes(requested) ==
  /\ CanCompact
  /\ \/ WriteNone /\ blobs' \in Survivors(blobs)
     \/ /\ \E o \in AddOrders(KeptItems(requested)), to \in TabOrders(KeptTabs) :
             Switch(o, to)
        /\ \E S \in SUBSET blobs :
             /\ blobs \cap KeptRefs(requested) \subseteq S
             /\ blobs' \in Survivors(S)
  /\ entries' = blobs'
  /\ Die

-----------------------------------------------------------------------------
Crash ==
  /\ up
  /\ blobs' \in Survivors(blobs)
  /\ entries' = blobs'
  /\ Die
  /\ UNCHANGED <<lines, torn, seals>>

Close ==
  /\ up
  /\ Die
  /\ UNCHANGED <<disk, seals>>

AppendStep(e) ==
  \/ AppendEvent(e)
  \/ AppendRefused(e)
  \/ AppendFails(e)
  \/ AppendShort(e)
  \/ AppendCrashes(e)

BlobStep(b) ==
  \/ PutBlob(b)
  \/ PutBlobFails(b)
  \/ PutBlobCrashes(b)
  \/ DeleteBlob(b)
  \/ DeleteBlobFails(b)
  \/ DeleteBlobCrashes(b)

CompactStep(requested) ==
  \/ Compact(requested)
  \/ CompactGcFails(requested)
  \/ CompactWriteFails(requested)
  \/ CompactCrashes(requested)

Next ==
  \/ OpenExisting
  \/ OpenFresh
  \/ OpenFails
  \/ \E e \in Callable \cup {Checkpoint} : AppendStep(e)
  \/ \E b \in Blobs : BlobStep(b)
  \/ \E requested \in SUBSET Items : CompactStep(requested)
  \/ CompactRefused
  \/ Crash
  \/ Close

Spec == Init /\ [][Next]_vars

-----------------------------------------------------------------------------
(* Properties.                                                             *)

Line == [nonce : Nat, whole : BOOLEAN, index : Nat, aadSeq : Nat, seq : Nat,
         prev : Seq(Nat), event : Event]
Memory == [anchorSeq : Nat, lineCount : Nat, tip : Seq(Nat)]
Outcome == {"compact", "append", "blob GC failed", "failed before rename", "corrupt"}
Reply == [ok : BOOLEAN, call : Event \cup [kind : Outcome]]

(* Every variable has its type; and an open store has counted at least its *)
(* anchor, so that no line appended after it (log-store.ts sealAndAppend)  *)
(* is sealed with the AAD sequence number that anchors have.               *)
TypeOK ==
  /\ lines \in Seq(Line)
  /\ torn \in BOOLEAN
  /\ blobs \subseteq Blobs
  /\ entries \subseteq Blobs
  /\ up \in BOOLEAN
  /\ mem \in Memory
  /\ up => mem.lineCount >= 1
  /\ reply \in Reply
  /\ seals \in Nat

(* Nobody tampers with the file here, so a reader never meets a record     *)
(* that fails to authenticate, is out of sequence or breaks the chain:     *)
(* neither the open store nor the one a restart would open.                *)
Readable ==
  lines # <<>> => /\ Verifies(lines, lines[1].seq)
                  /\ up => Verifies(lines, mem.anchorSeq)

(* The next append continues the file: what the open store remembers of    *)
(* the log is what the log is.                                             *)
MemoryMatchesFile ==
  up => /\ lines # <<>>
        /\ ~torn
        /\ mem.anchorSeq = lines[1].seq
        /\ mem.lineCount = Len(lines)
        /\ mem.tip = ChainTip(lines)

(* Every blob a live item names is on the disk: a crash may leave a blob   *)
(* nobody names, never a name without its blob.                            *)
NoDanglingRefs == \A i \in DOMAIN Book.items : Refs[i] \subseteq blobs

(* No sequence number is used twice, in one generation or across a         *)
(* compaction or a restart: the last one in the file only ever grows.      *)
LastSeq(ls) == ls[Len(ls)].seq
SeqsOnlyGrow ==
  [][lines # <<>> =>
       /\ lines' # <<>>
       /\ lines' # lines => LastSeq(lines') > LastSeq(lines)]_lines

(* A failing call damages nothing that was there before it: what could be  *)
(* read stays where it is and readable, until a compaction replaces the    *)
(* whole file by a later generation.  And a log that no longer verifies is *)
(* never made to look sound: opening it does not drop the bad line, and    *)
(* compaction refuses to copy the rest.  (sealAndAppend, openStore,        *)
(* compact.)                                                               *)
Broken(ls) == ls # <<>> /\ ~Verifies(ls, ls[1].seq)
DamageStays ==
  [][/\ \/ IsPrefix(lines, lines') /\ ReadLen(lines') >= ReadLen(lines)
        \/ lines' # <<>> /\ lines'[1].nonce > lines[1].nonce
     /\ Broken(lines) => Broken(lines')]_lines

J == INSTANCE Journal WITH book <- Book
ImplementsJournal == J!Spec
=============================================================================
