-------------------------- MODULE LogStore_proofs ---------------------------
(***************************************************************************)
(* For every set of items, tabs and blobs: a store whose failing calls     *)
(* leave nothing behind is the journal history builds on, and whatever     *)
(* they leave behind, damage stays where it is.                            *)
(***************************************************************************)
EXTENDS LogStore, FiniteSetTheorems, TLAPS

(***************************************************************************)
(* Types.  An open store has counted at least the anchor line, so a line   *)
(* appended after it never gets the anchor's fixed AAD sequence number.    *)
(***************************************************************************)
LEMMA MemType ==
  ASSUME TypeOK
  PROVE  /\ mem.anchorSeq \in Nat /\ mem.lineCount \in Nat /\ mem.tip \in Seq(Nat)
         /\ MaxSeq + 1 \in Int
         /\ mem = [anchorSeq |-> mem.anchorSeq, lineCount |-> mem.lineCount,
                   tip |-> mem.tip]
         /\ up => mem.lineCount >= 1 /\ MaxSeq \in Nat
<1>1. mem \in Memory
  BY DEF TypeOK
<1>2. up => mem.lineCount >= 1
  BY DEF TypeOK
<1> QED BY <1>1, <1>2 DEF Memory, MaxSeq

LEMMA SealedType ==
  ASSUME NEW nonce \in Nat, NEW index \in Nat, NEW seq \in Nat,
         NEW prev \in Seq(Nat), NEW e \in Event
  PROVE  Sealed(nonce, index, seq, prev, e) \in Line
<1>1. (IF index = 0 THEN AnchorAadSeq ELSE seq) \in Nat
  BY DEF AnchorAadSeq
<1> QED BY <1>1 DEF Sealed, Line

LEMMA NextLineType ==
  ASSUME TypeOK, up, NEW e \in Event
  PROVE  NextLine(e) \in Line /\ Glued(NextLine(e)) \in Line
<1>1. mem.lineCount \in Nat /\ mem.tip \in Seq(Nat) /\ MaxSeq + 1 \in Nat
  BY MemType
<1>2. seals + 1 \in Nat
  BY DEF TypeOK
<1>3. NextLine(e) \in Line
  BY <1>1, <1>2, SealedType DEF NextLine
<1>4. ASSUME NEW l \in Line PROVE Glued(l) \in Line
  BY DEF Glued, Line
<1> QED BY <1>3, <1>4

LEMMA CheckpointType == Checkpoint \in Event
  BY DEF Checkpoint, Event

LEMMA AnchorLineType ==
  ASSUME seals \in Nat
  PROVE  AnchorLine \in Line
<1>1. ChainGenesis \in Seq(Nat)
  BY DEF ChainGenesis
<1>2. seals + 1 \in Nat /\ 0 \in Nat /\ 1 \in Nat
  OBVIOUS
<1> QED BY <1>1, <1>2, CheckpointType, SealedType DEF AnchorLine

LEMMA CallableType == Callable \cup {Checkpoint} \subseteq Event
  BY DEF Callable, Event, Checkpoint, ItemOf, ItemAdded, ItemUpdated,
         ItemDeleted, TabCreated, TabDeleted

LEMMA ReplyType ==
  /\ NoReply \in Reply
  /\ Compacted \in Reply
  /\ \A e \in Event : Yes(e) \in Reply
  /\ No("append") \in Reply /\ No("blob GC failed") \in Reply
  /\ No("failed before rename") \in Reply /\ No("corrupt") \in Reply
<1>1. ASSUME NEW ok \in BOOLEAN, NEW why \in Outcome
      PROVE  [ok |-> ok, call |-> [kind |-> why]] \in Reply
  BY DEF Reply
<1>2. ASSUME NEW ok \in BOOLEAN, NEW e \in Event
      PROVE  [ok |-> ok, call |-> e] \in Reply
  BY DEF Reply
<1>3. NoReply \in Reply
  BY <1>2, CheckpointType DEF NoReply
<1>4. Compacted \in Reply
  BY <1>1 DEF Compacted, Yes, Outcome
<1>5. \A e \in Event : Yes(e) \in Reply
  BY <1>2 DEF Yes
<1>6. \A why \in Outcome : No(why) \in Reply
  BY <1>1 DEF No
<1> QED BY <1>3, <1>4, <1>5, <1>6 DEF Outcome

LEMMA ChainTipType ==
  ASSUME NEW ls \in Seq(Line)
  PROVE  /\ ChainTip(ls) \in Seq(Nat)
         /\ Len(ChainTip(ls)) = Len(ls)
         /\ \A k \in 1..Len(ls) : ChainTip(ls)[k] = ls[k].nonce
<1>1. DOMAIN ls = 1..Len(ls) /\ Len(ls) \in Nat
  OBVIOUS
<1>2. \A k \in 1..Len(ls) : ls[k] \in Line
  OBVIOUS
<1>3. \A l \in Line : l.nonce \in Nat
  BY DEF Line
<1>4. ChainTip(ls) = [k \in 1..Len(ls) |-> ls[k].nonce]
  BY <1>1 DEF ChainTip
<1>5. \A k \in 1..Len(ls) : ls[k].nonce \in Nat
  BY <1>2, <1>3
<1>6. ChainTip(ls) \in [1..Len(ls) -> Nat]
  BY <1>4, <1>5
<1>7. ChainTip(ls) \in Seq(Nat)
  BY <1>1, <1>6
<1>8. Len(ChainTip(ls)) = Len(ls)
  BY <1>1, <1>6, <1>7
<1> QED BY <1>4, <1>7, <1>8

(* The lines a compaction writes.                                          *)
LEMMA GenerationType ==
  ASSUME TypeOK, up,
         NEW requested \in SUBSET Items,
         NEW o \in AddOrders(KeptItems(requested)),
         NEW to \in TabOrders(KeptTabs)
  PROVE  /\ Len(o) \in Nat /\ Len(to) \in Nat
         /\ Generation(o, to) \in Seq(Line)
         /\ Len(Generation(o, to)) = 1 + Len(o) + Len(to)
<1> DEFINE K == KeptItems(requested)
           n == 1 + Len(o) + Len(to)
<1>1. K \subseteq Items /\ KeptTabs \subseteq Tabs
  BY DEF KeptItems, KeptTabs
<1>2. Cardinality(K) \in Nat /\ Cardinality(KeptTabs) \in Nat
  BY <1>1, LogStoreAssumption, FS_Subset, FS_CardinalityType DEF LogStoreAssumption
<1>3. o \in Seq(K) /\ to \in Seq(KeptTabs)
  BY <1>2 DEF AddOrders, TabOrders
<1>4. Len(o) \in Nat /\ Len(to) \in Nat
  BY <1>3
<1>5. ASSUME NEW k \in 1..n
      PROVE  GenerationEvent(Book.items, o, to, k) \in Event
  <2>1. CASE k = 1
    BY <2>1 DEF GenerationEvent, Event, Checkpoint
  <2>2. CASE k \in 2..(1 + Len(o))
    <3>1. o[k - 1] \in Items
      BY <1>1, <1>3, <1>4, <2>2
    <3>2. Materialised(Book.items[o[k - 1]]) \in [tags : SUBSET Tabs]
      BY DEF Materialised, ItemOf
    <3> QED BY <2>2, <3>1, <3>2, <1>4 DEF GenerationEvent, Event, ItemAdded
  <2>3. CASE k \notin 2..(1 + Len(o)) /\ k # 1
    <3>1. k - 1 - Len(o) \in 1..Len(to)
      BY <2>3, <1>4
    <3>2. to[k - 1 - Len(o)] \in Tabs
      BY <1>1, <1>3, <3>1
    <3> QED BY <2>3, <3>2 DEF GenerationEvent, Event, TabCreated
  <2> QED BY <2>1, <2>2, <2>3
<1>6. seals \in Nat /\ MaxSeq + 1 \in Nat
  BY MemType DEF TypeOK
<1>7. ASSUME NEW k \in 1..n PROVE Generation(o, to)[k] \in Line
  <2>1. [j \in 1..(k - 1) |-> seals + j] \in Seq(Nat)
    BY <1>4, <1>6
  <2>2. Generation(o, to)[k]
          = Sealed(seals + k, k - 1, MaxSeq + 1 + k - 1,
                   [j \in 1..(k - 1) |-> seals + j],
                   GenerationEvent(Book.items, o, to, k))
    BY DEF Generation
  <2>3. k - 1 \in Nat /\ MaxSeq + 1 + k - 1 \in Nat /\ seals + k \in Nat
    BY <1>4, <1>6
  <2>4. GenerationEvent(Book.items, o, to, k) \in Event
    BY <1>5
  <2> QED BY <2>1, <2>2, <2>3, <2>4, SealedType
<1>8. DOMAIN Generation(o, to) = 1..n
  BY DEF Generation
<1>9. Generation(o, to) \in [1..n -> Line]
  <2>1. Generation(o, to) = [k \in 1..n |-> Generation(o, to)[k]]
    BY DEF Generation
  <2> QED BY <2>1, <1>7
<1> QED BY <1>4, <1>9

LEMMA DieType ==
  ASSUME Die
  PROVE  mem' \in Memory /\ up' = FALSE /\ reply' \in Reply
<1>1. Closed \in Memory
  BY DEF Closed, ChainGenesis, Memory
<1> QED BY <1>1, ReplyType DEF Die

LEMMA TypeInit == Init => TypeOK
<1> SUFFICES ASSUME Init PROVE TypeOK
  OBVIOUS
<1>1. mem \in Memory
  BY DEF Init, Closed, ChainGenesis, Memory
<1>2. lines \in Seq(Line)
  BY DEF Init
<1>3. reply \in Reply
  BY ReplyType DEF Init
<1> QED BY <1>1, <1>2, <1>3 DEF Init, TypeOK

LEMMA WriteLineType ==
  ASSUME TypeOK, up, NEW e \in Event, WriteLine(e)
  PROVE  lines' \in Seq(Line) /\ torn' \in BOOLEAN /\ seals' \in Nat
<1>1. lines \in Seq(Line) /\ seals \in Nat
  BY DEF TypeOK
<1>2. PICK l \in Line : lines' = Append(lines, l)
  BY NextLineType DEF WriteLine
<1>3. lines' \in Seq(Line)
  BY <1>1, <1>2
<1>4. torn' = FALSE /\ seals' = seals + 1
  BY DEF WriteLine
<1>5. seals + 1 \in Nat
  BY <1>1
<1> QED BY <1>3, <1>4, <1>5, Zenon

LEMMA AdvanceType ==
  ASSUME TypeOK, up, NEW e \in Event, Advance(e)
  PROVE  mem' \in Memory /\ mem'.lineCount >= 1
<1>1. NextLine(e).nonce \in Nat
  BY NextLineType DEF Line
<1>2. Append(mem.tip, NextLine(e).nonce) \in Seq(Nat)
  BY <1>1, MemType
<1>3. mem' = [anchorSeq |-> mem.anchorSeq, lineCount |-> mem.lineCount + 1,
              tip |-> Append(mem.tip, NextLine(e).nonce)]
  BY MemType DEF Advance, ChainNext
<1> QED BY <1>2, <1>3, MemType DEF Memory

LEMMA SwitchType ==
  ASSUME TypeOK, up,
         NEW requested \in SUBSET Items,
         NEW o \in AddOrders(KeptItems(requested)),
         NEW to \in TabOrders(KeptTabs),
         Switch(o, to)
  PROVE  lines' \in Seq(Line) /\ torn' \in BOOLEAN /\ seals' \in Nat
<1>1. seals \in Nat /\ Len(o) \in Nat /\ Len(to) \in Nat
  BY GenerationType DEF TypeOK
<1>2. seals' \in Nat
  BY <1>1 DEF Switch
<1>3. lines' \in Seq(Line)
  BY GenerationType DEF Switch
<1> QED BY <1>2, <1>3 DEF Switch

LEMMA AdoptType ==
  ASSUME TypeOK, up,
         NEW requested \in SUBSET Items,
         NEW o \in AddOrders(KeptItems(requested)),
         NEW to \in TabOrders(KeptTabs),
         Adopt(o, to)
  PROVE  mem' \in Memory /\ mem'.lineCount >= 1
<1>1. MaxSeq + 1 \in Nat
  BY MemType
<1>2. Len(o) \in Nat /\ Len(to) \in Nat /\ ChainTip(Generation(o, to)) \in Seq(Nat)
  BY GenerationType, ChainTipType
<1> QED BY <1>1, <1>2 DEF Adopt, Memory

LEMMA SurvivorsType ==
  ASSUME TypeOK, NEW now \in SUBSET Blobs, NEW S \in Survivors(now)
  PROVE  S \subseteq Blobs
BY DEF Survivors, TypeOK

(* What a step has to establish, conjunct by conjunct.                     *)
LEMMA TypeNext ==
  ASSUME lines' \in Seq(Line) /\ torn' \in BOOLEAN /\ seals' \in Nat,
         blobs' \subseteq Blobs /\ entries' \subseteq Blobs,
         up' \in BOOLEAN,
         mem' \in Memory /\ reply' \in Reply,
         up' => mem'.lineCount >= 1
  PROVE  TypeOK'
BY DEF TypeOK

LEMMA TypeParts ==
  ASSUME TypeOK
  PROVE  /\ lines \in Seq(Line) /\ torn \in BOOLEAN /\ seals \in Nat
         /\ blobs \subseteq Blobs /\ entries \subseteq Blobs
         /\ up \in BOOLEAN
         /\ mem \in Memory /\ reply \in Reply
         /\ up => mem.lineCount >= 1
BY DEF TypeOK

LEMMA AppendTypes ==
  ASSUME TypeOK, NEW e \in Callable \cup {Checkpoint}, AppendStep(e)
  PROVE  TypeOK'
<1>0. e \in Event
  BY CallableType
<1>1. CASE AppendEvent(e)
  <2>1. lines' \in Seq(Line) /\ torn' \in BOOLEAN /\ seals' \in Nat
    BY <1>0, <1>1, WriteLineType DEF AppendEvent
  <2>2. mem' \in Memory /\ mem'.lineCount >= 1
    BY <1>0, <1>1, AdvanceType DEF AppendEvent
  <2>3. reply' \in Reply
    BY <1>0, <1>1, ReplyType DEF AppendEvent
  <2> QED BY <1>1, <2>1, <2>2, <2>3, TypeParts, TypeNext DEF AppendEvent
<1>2. CASE AppendRefused(e)
  BY <1>2, ReplyType, TypeParts, TypeNext DEF AppendRefused, disk
<1>3. CASE AppendFails(e)
  <2>1. lines' \in Seq(Line) /\ torn' \in BOOLEAN /\ seals' \in Nat
    BY <1>0, <1>3, WriteLineType, TypeParts DEF AppendFails, WriteNone, WriteSome
  <2>2. reply' \in Reply
    BY <1>3, ReplyType DEF AppendFails
  <2> QED BY <1>3, <2>1, <2>2, TypeParts, TypeNext DEF AppendFails
<1>4. CASE AppendShort(e)
  <2>1. mem' \in Memory /\ mem'.lineCount >= 1
    BY <1>0, <1>4, AdvanceType DEF AppendShort
  <2>2. reply' \in Reply
    BY <1>0, <1>4, ReplyType DEF AppendShort
  <2>3. lines' \in Seq(Line) /\ torn' \in BOOLEAN /\ seals' \in Nat
    BY <1>4, TypeParts DEF AppendShort
  <2> QED BY <1>4, <2>1, <2>2, <2>3, TypeParts, TypeNext DEF AppendShort
<1>5. CASE AppendCrashes(e)
  <2>1. lines' \in Seq(Line) /\ torn' \in BOOLEAN /\ seals' \in Nat
    BY <1>0, <1>5, WriteLineType, TypeParts DEF AppendCrashes, WriteNone, WriteSome
  <2>2. blobs' \subseteq Blobs
    BY <1>5, SurvivorsType, TypeParts DEF AppendCrashes
  <2>3. Die /\ entries' = blobs'
    BY <1>5 DEF AppendCrashes
  <2> QED BY <2>1, <2>2, <2>3, DieType, TypeNext
<1> QED BY <1>1, <1>2, <1>3, <1>4, <1>5 DEF AppendStep

LEMMA BlobTypes ==
  ASSUME TypeOK, NEW b \in Blobs, BlobStep(b)
  PROVE  TypeOK'
<1>1. CASE PutBlob(b)
  BY <1>1, TypeParts, TypeNext DEF PutBlob
<1>2. CASE PutBlobFails(b)
  BY <1>2, TypeParts, TypeNext DEF PutBlobFails
<1>3. CASE DeleteBlob(b)
  BY <1>3, TypeParts, TypeNext DEF DeleteBlob
<1>4. CASE DeleteBlobFails(b)
  BY <1>4, TypeParts, TypeNext DEF DeleteBlobFails
<1>5. CASE PutBlobCrashes(b)
  <2>1. blobs \cup {b} \in SUBSET Blobs
    BY TypeParts
  <2>2. blobs' \subseteq Blobs
    BY <1>5, <2>1, SurvivorsType DEF PutBlobCrashes
  <2>3. Die /\ entries' = blobs' /\ UNCHANGED <<lines, torn, seals>>
    BY <1>5 DEF PutBlobCrashes
  <2> QED BY <2>2, <2>3, DieType, TypeParts, TypeNext
<1>6. CASE DeleteBlobCrashes(b)
  <2>1. blobs \ {b} \in SUBSET Blobs
    BY TypeParts
  <2>2. blobs' \subseteq Blobs
    BY <1>6, <2>1, SurvivorsType DEF DeleteBlobCrashes
  <2>3. Die /\ entries' = blobs' /\ UNCHANGED <<lines, torn, seals>>
    BY <1>6 DEF DeleteBlobCrashes
  <2> QED BY <2>2, <2>3, DieType, TypeParts, TypeNext
<1> QED BY <1>1, <1>2, <1>3, <1>4, <1>5, <1>6 DEF BlobStep

LEMMA CompactTypes ==
  ASSUME TypeOK, NEW requested \in SUBSET Items, CompactStep(requested)
  PROVE  TypeOK'
<1>1. CASE Compact(requested)
  <2>1. PICK o \in AddOrders(KeptItems(requested)), to \in TabOrders(KeptTabs) :
          Switch(o, to) /\ Adopt(o, to)
    BY <1>1 DEF Compact
  <2>2. up /\ up' = up /\ entries' = entries /\ blobs' \subseteq blobs
           /\ reply' = Compacted
    BY <1>1 DEF Compact, CanCompact
  <2>3. lines' \in Seq(Line) /\ torn' \in BOOLEAN /\ seals' \in Nat
    BY <2>1, <2>2, SwitchType
  <2>4. mem' \in Memory /\ mem'.lineCount >= 1
    BY <2>1, <2>2, AdoptType
  <2> QED BY <2>2, <2>3, <2>4, ReplyType, TypeParts, TypeNext
<1>2. CASE CompactGcFails(requested)
  <2>1. PICK o \in AddOrders(KeptItems(requested)), to \in TabOrders(KeptTabs) :
          Switch(o, to) /\ Adopt(o, to)
    BY <1>2 DEF CompactGcFails
  <2>2. up /\ up' = up /\ entries' = entries /\ blobs' \subseteq blobs
           /\ reply' = No("blob GC failed")
    BY <1>2 DEF CompactGcFails, CanCompact
  <2>3. lines' \in Seq(Line) /\ torn' \in BOOLEAN /\ seals' \in Nat
    BY <2>1, <2>2, SwitchType
  <2>4. mem' \in Memory /\ mem'.lineCount >= 1
    BY <2>1, <2>2, AdoptType
  <2> QED BY <2>2, <2>3, <2>4, ReplyType, TypeParts, TypeNext
<1>3. CASE CompactWriteFails(requested)
  <2>1. up /\ UNCHANGED <<blobs, entries, up, mem>>
           /\ reply' = No("failed before rename")
    BY <1>3 DEF CompactWriteFails, CanCompact
  <2>2. lines' \in Seq(Line) /\ torn' \in BOOLEAN /\ seals' \in Nat
    BY <1>3, <2>1, SwitchType, TypeParts DEF CompactWriteFails, WriteNone
  <2> QED BY <2>1, <2>2, ReplyType, TypeParts, TypeNext
<1>4. CASE CompactCrashes(requested)
  <2>1. up /\ Die /\ entries' = blobs'
    BY <1>4 DEF CompactCrashes, CanCompact
  <2>2. lines' \in Seq(Line) /\ torn' \in BOOLEAN /\ seals' \in Nat
    BY <1>4, <2>1, SwitchType, TypeParts DEF CompactCrashes, WriteNone
  <2>3. \E S \in SUBSET blobs : blobs' \in Survivors(S)
    BY <1>4 DEF CompactCrashes
  <2>4. blobs' \subseteq Blobs
    BY <2>3, SurvivorsType, TypeParts
  <2> QED BY <2>1, <2>2, <2>4, DieType, TypeNext
<1> QED BY <1>1, <1>2, <1>3, <1>4 DEF CompactStep

LEMMA TypeStep == TypeOK /\ [Next]_vars => TypeOK'
<1> SUFFICES ASSUME TypeOK, [Next]_vars PROVE TypeOK'
  OBVIOUS
<1>1. CASE OpenExisting
  <2>1. lines[1] \in Line /\ Len(lines) \in Nat /\ Len(lines) >= 1
    BY <1>1, TypeParts DEF OpenExisting
  <2>2. lines[1].seq \in Nat
    BY <2>1 DEF Line
  <2>3. ChainTip(lines) \in Seq(Nat)
    BY TypeParts, ChainTipType
  <2>4. mem' \in Memory /\ mem'.lineCount >= 1
    BY <1>1, <2>1, <2>2, <2>3 DEF OpenExisting, Memory
  <2> QED BY <1>1, <2>4, TypeParts, TypeNext DEF OpenExisting
<1>2. CASE OpenFresh
  <2>1. AnchorLine \in Line
    BY AnchorLineType, TypeParts
  <2>2. AnchorLine.nonce \in Nat
    BY <2>1 DEF Line
  <2>3. ChainNext(ChainGenesis, AnchorLine) \in Seq(Nat)
    BY <2>2 DEF ChainNext, ChainGenesis
  <2>4. mem' \in Memory /\ mem'.lineCount >= 1
    BY <1>2, <2>3 DEF OpenFresh, Memory
  <2>5. lines' \in Seq(Line) /\ torn' \in BOOLEAN /\ seals' \in Nat
    <3>1. <<AnchorLine>> \in Seq(Line)
      BY <2>1
    <3>2. lines' = <<AnchorLine>> /\ torn' = FALSE /\ seals' = seals + 1
      BY <1>2 DEF OpenFresh
    <3>3. seals + 1 \in Nat
      BY TypeParts
    <3> QED BY <3>1, <3>2, <3>3, Zenon
  <2> QED BY <1>2, <2>4, <2>5, TypeParts, TypeNext DEF OpenFresh
<1>3. CASE OpenFails
  <2>1. AnchorLine \in Line
    BY AnchorLineType, TypeParts
  <2>2. <<AnchorLine>> \in Seq(Line)
    BY <2>1
  <2>3. lines' \in Seq(Line) /\ torn' \in BOOLEAN /\ seals' \in Nat
    <3>1. \/ lines' = lines /\ seals' = seals
          \/ lines' = <<AnchorLine>> /\ seals' = seals + 1
      BY <1>3 DEF OpenFails
    <3>2. torn' \in BOOLEAN
      BY <1>3 DEF OpenFails
    <3>3. seals \in Nat /\ seals + 1 \in Nat /\ lines \in Seq(Line)
      BY TypeParts
    <3> QED BY <2>2, <3>1, <3>2, <3>3, Zenon
  <2> QED BY <1>3, <2>3, TypeParts, TypeNext DEF OpenFails
<1>4. ASSUME NEW e \in Callable \cup {Checkpoint}, AppendStep(e) PROVE TypeOK'
  BY <1>4, AppendTypes
<1>5. ASSUME NEW b \in Blobs, BlobStep(b) PROVE TypeOK'
  BY <1>5, BlobTypes
<1>6. ASSUME NEW requested \in SUBSET Items, CompactStep(requested) PROVE TypeOK'
  BY <1>6, CompactTypes
<1>7. CASE CompactRefused
  BY <1>7, ReplyType, TypeParts, TypeNext DEF CompactRefused, disk
<1>8. CASE Crash
  BY <1>8, DieType, SurvivorsType, TypeParts, TypeNext DEF Crash
<1>9. CASE Close
  BY <1>9, DieType, TypeParts, TypeNext DEF Close, disk
<1>10. CASE UNCHANGED vars
  BY <1>10, TypeParts, TypeNext DEF vars
<1> QED BY <1>1, <1>2, <1>3, <1>4, <1>5, <1>6, <1>7, <1>8, <1>9, <1>10 DEF Next

(* Every state of the store is well typed, whatever fails and however.     *)
THEOREM TypeCorrect == Spec => []TypeOK
BY TypeInit, TypeStep, PTL DEF Spec

-----------------------------------------------------------------------------
(***************************************************************************)
(* Readability.  When a failing call leaves nothing behind, what the store *)
(* remembers of the file is the file, so every line is sealed for the      *)
(* place it is written at.  Crashes may happen anywhere.                   *)
(***************************************************************************)
IInv == TypeOK /\ Readable /\ MemoryMatchesFile

LEMMA IInvParts ==
  ASSUME IInv
  PROVE  /\ TypeOK
         /\ lines \in Seq(Line) /\ seals \in Nat
         /\ lines # <<>> => Verifies(lines, lines[1].seq)
         /\ up => /\ lines # <<>> /\ ~torn
                  /\ mem.anchorSeq = lines[1].seq
                  /\ mem.lineCount = Len(lines)
                  /\ mem.tip = ChainTip(lines)
BY TypeParts DEF IInv, Readable, MemoryMatchesFile

(* The chain up to a line is the nonces of the lines before it.            *)
LEMMA ChainUpTo ==
  ASSUME NEW ls \in Seq(Line), NEW m \in 0..Len(ls)
  PROVE  ChainTip(SubSeq(ls, 1, m)) = [j \in 1..m |-> ls[j].nonce]
<1>1. m \in Nat /\ Len(ls) \in Nat
  OBVIOUS
<1>2. /\ SubSeq(ls, 1, m) \in Seq(Line)
      /\ Len(SubSeq(ls, 1, m)) = m
      /\ \A j \in 1..m : SubSeq(ls, 1, m)[j] = ls[j]
  BY <1>1
<1>3. DOMAIN SubSeq(ls, 1, m) = 1..m
  BY <1>2
<1> QED BY <1>2, <1>3 DEF ChainTip

(* A line in its place, field by field.                                    *)
InPlace(ls, a, k) ==
  /\ ls[k].whole
  /\ ls[k].index = k - 1
  /\ ls[k].aadSeq = IF k = 1 THEN 0 ELSE a + k - 1
  /\ ls[k].prev = [j \in 1..(k - 1) |-> ls[j].nonce]
  /\ ls[k].seq = a + k - 1

LEMMA AcceptedByField ==
  ASSUME NEW ls \in Seq(Line), NEW a \in Nat, NEW k \in 1..Len(ls)
  PROVE  Accepted(ls, a, k) <=> InPlace(ls, a, k)
<1>1. k - 1 \in 0..Len(ls)
  OBVIOUS
<1>2. ChainTip(SubSeq(ls, 1, k - 1)) = [j \in 1..(k - 1) |-> ls[j].nonce]
  BY <1>1, ChainUpTo
<1> QED BY <1>2 DEF Accepted, Authentic, Opens, AnchorAadSeq, InPlace

(* A line sealed for the end of a sound log keeps it sound.                *)
LEMMA AppendVerifies ==
  ASSUME NEW ls \in Seq(Line), NEW a \in Nat, Verifies(ls, a), ls # <<>>,
         NEW l \in Line,
         l.whole, l.index = Len(ls), l.seq = a + Len(ls), l.aadSeq = l.seq,
         l.prev = ChainTip(ls)
  PROVE  Verifies(Append(ls, l), a)
<1> DEFINE new == Append(ls, l)
<1>1. /\ new \in Seq(Line)
      /\ Len(new) = Len(ls) + 1 /\ Len(ls) \in Nat /\ Len(ls) >= 1
      /\ \A j \in 1..Len(ls) : new[j] = ls[j]
      /\ new[Len(ls) + 1] = l
  OBVIOUS
<1>2. DOMAIN new = 1..(Len(ls) + 1) /\ DOMAIN ls = 1..Len(ls)
  BY <1>1
<1>3. ASSUME NEW k \in 1..Len(ls) PROVE Accepted(new, a, k)
  <2>1. Accepted(ls, a, k)
    BY <1>2 DEF Verifies
  <2>2. [j \in 1..(k - 1) |-> ls[j].nonce] = [j \in 1..(k - 1) |-> new[j].nonce]
    BY <1>1
  <2>3. k \in 1..Len(new) /\ new[k] = ls[k] /\ new \in Seq(Line)
    BY <1>1
  <2> HIDE DEF new
  <2>4. InPlace(ls, a, k)
    BY <2>1, AcceptedByField
  <2>5. InPlace(new, a, k)
    BY <2>2, <2>3, <2>4 DEF InPlace
  <2> QED BY <2>3, <2>5, AcceptedByField
<1>4. Accepted(new, a, Len(ls) + 1)
  <2>1. ChainTip(ls) = [j \in 1..Len(ls) |-> ls[j].nonce]
    BY <1>2 DEF ChainTip
  <2>2. [j \in 1..Len(ls) |-> ls[j].nonce]
          = [j \in 1..(Len(ls) + 1 - 1) |-> new[j].nonce]
    BY <1>1
  <2>3. Len(ls) + 1 \in 1..Len(new) /\ Len(ls) + 1 # 1
        /\ Len(ls) + 1 - 1 = Len(ls) /\ a + (Len(ls) + 1) - 1 = a + Len(ls)
    BY <1>1
  <2>4. l.prev = [j \in 1..(Len(ls) + 1 - 1) |-> new[j].nonce]
    BY <2>1, <2>2
  <2>5. new \in Seq(Line) /\ new[Len(ls) + 1] = l
    BY <1>1
  <2> DEFINE k == Len(ls) + 1
  <2> HIDE DEF new
  <2>6. InPlace(new, a, k)
    BY <2>3, <2>4, <2>5 DEF InPlace
  <2>7. k \in 1..Len(new)
    BY <2>3
  <2> HIDE DEF k
  <2>8. Accepted(new, a, k)
    BY <2>5, <2>6, <2>7, AcceptedByField
  <2> QED BY <2>8 DEF k
<1> QED BY <1>2, <1>3, <1>4 DEF Verifies

(* The line an open store seals next belongs at the end of the file.       *)
LEMMA NextLineVerifies ==
  ASSUME IInv, up, NEW e \in Event
  PROVE  /\ Verifies(Append(lines, NextLine(e)), lines[1].seq)
         /\ NextLine(e).seq = lines[1].seq + Len(lines)
         /\ ChainTip(Append(lines, NextLine(e))) = ChainNext(mem.tip, NextLine(e))
<1>1. /\ lines \in Seq(Line) /\ lines # <<>> /\ Len(lines) \in Nat
      /\ mem.lineCount = Len(lines) /\ mem.tip = ChainTip(lines)
      /\ mem.anchorSeq = lines[1].seq /\ mem.anchorSeq \in Nat
  BY IInvParts, MemType
<1>2. NextLine(e) \in Line
  BY IInvParts, NextLineType
<1>3. MaxSeq + 1 = lines[1].seq + Len(lines)
  BY <1>1 DEF MaxSeq
<1>4. /\ NextLine(e).whole /\ NextLine(e).index = Len(lines)
      /\ NextLine(e).seq = lines[1].seq + Len(lines)
      /\ NextLine(e).aadSeq = NextLine(e).seq
      /\ NextLine(e).prev = ChainTip(lines)
  BY <1>1, <1>3 DEF NextLine, Sealed
<1>5. Verifies(lines, lines[1].seq)
  BY <1>1, IInvParts
<1>6. ASSUME NEW l \in Line
      PROVE  ChainTip(Append(lines, l)) = Append(ChainTip(lines), l.nonce)
  <2>1. /\ Append(lines, l) \in Seq(Line)
        /\ Len(Append(lines, l)) = Len(lines) + 1
        /\ \A j \in 1..Len(lines) : Append(lines, l)[j] = lines[j]
        /\ Append(lines, l)[Len(lines) + 1] = l
    BY <1>1
  <2>2. /\ ChainTip(Append(lines, l)) \in Seq(Nat)
        /\ Len(ChainTip(Append(lines, l))) = Len(lines) + 1
        /\ \A j \in 1..(Len(lines) + 1) :
             ChainTip(Append(lines, l))[j] = Append(lines, l)[j].nonce
    BY <2>1, ChainTipType
  <2>3. /\ ChainTip(lines) \in Seq(Nat)
        /\ Len(ChainTip(lines)) = Len(lines)
        /\ \A j \in 1..Len(lines) : ChainTip(lines)[j] = lines[j].nonce
    BY <1>1, ChainTipType
  <2>4. l.nonce \in Nat
    BY DEF Line
  <2>5. /\ Append(ChainTip(lines), l.nonce) \in Seq(Nat)
        /\ Len(Append(ChainTip(lines), l.nonce)) = Len(lines) + 1
        /\ \A j \in 1..Len(lines) :
             Append(ChainTip(lines), l.nonce)[j] = ChainTip(lines)[j]
        /\ Append(ChainTip(lines), l.nonce)[Len(lines) + 1] = l.nonce
    BY <2>3, <2>4
  <2>6. ASSUME NEW j \in 1..(Len(lines) + 1)
        PROVE  ChainTip(Append(lines, l))[j] = Append(ChainTip(lines), l.nonce)[j]
    <3>1. ChainTip(Append(lines, l))[j] = Append(lines, l)[j].nonce
      BY <2>2
    <3>2. CASE j = Len(lines) + 1
      BY <2>1, <2>5, <3>1, <3>2
    <3>3. CASE j \in 1..Len(lines)
      <4>1. Append(lines, l)[j].nonce = lines[j].nonce
        BY <2>1, <3>3
      <4>2. Append(ChainTip(lines), l.nonce)[j] = lines[j].nonce
        BY <2>3, <2>5, <3>3
      <4> QED BY <3>1, <4>1, <4>2
    <3>4. j = Len(lines) + 1 \/ j \in 1..Len(lines)
      BY <1>1
    <3> QED BY <3>2, <3>3, <3>4
  <2> QED BY <2>2, <2>5, <2>6
<1>7. ChainTip(Append(lines, NextLine(e))) = ChainNext(mem.tip, NextLine(e))
  BY <1>1, <1>2, <1>6 DEF ChainNext
<1>8. lines[1].seq \in Nat
  BY <1>1
<1> QED BY <1>1, <1>2, <1>4, <1>5, <1>7, <1>8, AppendVerifies

(* So does what a compaction writes, as a file of its own.                 *)
LEMMA GenerationVerifies ==
  ASSUME IInv, up,
         NEW requested \in SUBSET Items,
         NEW o \in AddOrders(KeptItems(requested)),
         NEW to \in TabOrders(KeptTabs)
  PROVE  LET g == Generation(o, to)
         IN  /\ g # <<>> /\ g[1].seq = MaxSeq + 1
             /\ Verifies(g, MaxSeq + 1)
             /\ g[Len(g)].seq >= MaxSeq + 1
<1> DEFINE g == Generation(o, to)
           n == 1 + Len(o) + Len(to)
<1>1. /\ Len(o) \in Nat /\ Len(to) \in Nat
      /\ g \in Seq(Line) /\ Len(g) = n
  BY IInvParts, GenerationType
<1>2. MaxSeq + 1 \in Nat /\ seals \in Nat
  BY IInvParts, MemType
<1>3. n \in Nat /\ n >= 1
  BY <1>1
<1>4. ASSUME NEW k \in 1..n
      PROVE  g[k] = Sealed(seals + k, k - 1, MaxSeq + 1 + k - 1,
                           [j \in 1..(k - 1) |-> seals + j],
                           GenerationEvent(Book.items, o, to, k))
  BY DEF Generation
<1> HIDE DEF g
<1>5. ASSUME NEW k \in 1..n
      PROVE  /\ g[k].nonce = seals + k
             /\ g[k].seq = MaxSeq + 1 + k - 1
             /\ g[k].whole
             /\ g[k].index = k - 1
             /\ g[k].aadSeq = IF k - 1 = 0 THEN 0 ELSE MaxSeq + 1 + k - 1
             /\ g[k].prev = [j \in 1..(k - 1) |-> seals + j]
  <2> DEFINE q == MaxSeq + 1 + k - 1
             p == [j \in 1..(k - 1) |-> seals + j]
             e == GenerationEvent(Book.items, o, to, k)
  <2>1. g[k] = Sealed(seals + k, k - 1, q, p, e)
    BY <1>4
  <2> HIDE DEF q, p, e
  <2>2. /\ g[k].nonce = seals + k /\ g[k].seq = q /\ g[k].whole
        /\ g[k].index = k - 1 /\ g[k].prev = p
        /\ g[k].aadSeq = IF k - 1 = 0 THEN 0 ELSE q
    BY <2>1 DEF Sealed, AnchorAadSeq
  <2> QED BY <2>2 DEF q, p
<1>6. ASSUME NEW k \in 1..n PROVE Accepted(g, MaxSeq + 1, k)
  <2>1. [j \in 1..(k - 1) |-> seals + j] = [j \in 1..(k - 1) |-> g[j].nonce]
    <3>1. \A j \in 1..(k - 1) : j \in 1..n
      BY <1>3
    <3> QED BY <1>5, <3>1
  <2>2. InPlace(g, MaxSeq + 1, k)
    <3>1. (IF k - 1 = 0 THEN 0 ELSE MaxSeq + 1 + k - 1)
            = (IF k = 1 THEN 0 ELSE MaxSeq + 1 + k - 1)
      BY <1>3
    <3> QED BY <1>5, <2>1, <3>1 DEF InPlace
  <2>3. k \in 1..Len(g)
    BY <1>1
  <2> QED BY <1>1, <1>2, <2>2, <2>3, AcceptedByField
<1>7. DOMAIN g = 1..n
  BY <1>1
<1>8. g[1].seq = MaxSeq + 1 /\ g[n].seq >= MaxSeq + 1
  <2>1. 1 \in 1..n /\ n \in 1..n
    BY <1>3
  <2>2. g[1].seq = MaxSeq + 1 + 1 - 1 /\ g[n].seq = MaxSeq + 1 + n - 1
    BY <1>5, <2>1
  <2> HIDE DEF n
  <2> QED BY <1>2, <1>3, <2>2
<1>9. g # <<>>
  BY <1>1, <1>3
<1> QED BY <1>1, <1>2, <1>3, <1>6, <1>7, <1>8, <1>9 DEF Verifies, g

(***************************************************************************)
(* The invariant, one lemma for each way a step can leave the log.         *)
(***************************************************************************)
LogInv == Readable /\ MemoryMatchesFile

(* ... with the store closed,                                              *)
LEMMA ClosedSame ==
  ASSUME IInv, lines' = lines, up' = FALSE
  PROVE  LogInv'
BY IInvParts DEF LogInv, Readable, MemoryMatchesFile

(* ... with nothing of it touched,                                         *)
LEMMA SameLog ==
  ASSUME IInv, UNCHANGED <<lines, torn, up, mem>>
  PROVE  LogInv'
<1>1. Readable /\ MemoryMatchesFile
  BY DEF IInv
<1> QED BY <1>1 DEF LogInv, Readable, MemoryMatchesFile

(* ... with a line appended, and the store open or dead,                   *)
LEMMA Extended ==
  ASSUME IInv, up, NEW e \in Event, WriteLine(e), up' => Advance(e)
  PROVE  LogInv'
<1>1. /\ lines \in Seq(Line) /\ lines # <<>> /\ ~torn
      /\ mem.lineCount = Len(lines) /\ mem.anchorSeq = lines[1].seq
  BY IInvParts
<1>2. lines' = Append(lines, NextLine(e)) /\ torn' = FALSE
  BY <1>1 DEF WriteLine
<1>3. lines' # <<>> /\ lines'[1] = lines[1] /\ Len(lines') = Len(lines) + 1
  BY <1>1, <1>2, NextLineType, IInvParts
<1>4. Verifies(lines', lines'[1].seq) /\ ChainTip(lines') = ChainNext(mem.tip, NextLine(e))
  BY <1>2, <1>3, NextLineVerifies
<1>5. up' => /\ mem'.anchorSeq = mem.anchorSeq
             /\ mem'.lineCount = mem.lineCount + 1
             /\ mem'.tip = ChainNext(mem.tip, NextLine(e))
  BY IInvParts, MemType DEF Advance
<1> QED BY <1>1, <1>2, <1>3, <1>4, <1>5 DEF LogInv, Readable, MemoryMatchesFile

(* ... with the log replaced by the next generation.                       *)
LEMMA Switched ==
  ASSUME IInv, up,
         NEW requested \in SUBSET Items,
         NEW o \in AddOrders(KeptItems(requested)),
         NEW to \in TabOrders(KeptTabs),
         Switch(o, to), up' => Adopt(o, to)
  PROVE  LogInv'
<1>1. lines' = Generation(o, to) /\ torn' = FALSE
  BY DEF Switch
<1>2. lines' # <<>> /\ lines'[1].seq = MaxSeq + 1 /\ Verifies(lines', MaxSeq + 1)
  BY <1>1, GenerationVerifies
<1>3. Len(lines') = 1 + Len(o) + Len(to)
  BY <1>1, GenerationType, IInvParts
<1>4. up' => /\ mem'.anchorSeq = MaxSeq + 1
             /\ mem'.lineCount = 1 + Len(o) + Len(to)
             /\ mem'.tip = ChainTip(lines')
  BY <1>1 DEF Adopt
<1> QED BY <1>1, <1>2, <1>3, <1>4 DEF LogInv, Readable, MemoryMatchesFile

(* The log of a new store is its anchor.                                   *)
LEMMA AnchorVerifies ==
  ASSUME IInv
  PROVE  /\ Verifies(<<AnchorLine>>, 1)
         /\ <<AnchorLine>>[1].seq = 1
         /\ ChainTip(<<AnchorLine>>) = ChainNext(ChainGenesis, AnchorLine)
<1> DEFINE ls == <<AnchorLine>>
<1>1. AnchorLine \in Line
  BY IInvParts, AnchorLineType
<1>2. ls \in Seq(Line) /\ Len(ls) = 1 /\ ls[1] = AnchorLine /\ DOMAIN ls = {1}
  BY <1>1
<1>3. /\ AnchorLine.whole /\ AnchorLine.index = 0 /\ AnchorLine.aadSeq = 0
      /\ AnchorLine.prev = <<>> /\ AnchorLine.seq = 1
  BY DEF AnchorLine, Sealed, AnchorAadSeq, ChainGenesis
<1> HIDE DEF ls
<1>4. [j \in 1..(1 - 1) |-> ls[j].nonce] = <<>>
  OBVIOUS
<1>5. InPlace(ls, 1, 1)
  BY <1>2, <1>3, <1>4 DEF InPlace
<1>6. Accepted(ls, 1, 1)
  BY <1>2, <1>5, AcceptedByField
<1>7. ChainTip(ls) = <<AnchorLine.nonce>>
  <2>1. ChainTip(ls) \in Seq(Nat) /\ Len(ChainTip(ls)) = 1
        /\ ChainTip(ls)[1] = AnchorLine.nonce
    BY <1>2, ChainTipType
  <2> QED BY <2>1
<1>8. ChainNext(ChainGenesis, AnchorLine) = <<AnchorLine.nonce>>
  BY DEF ChainNext, ChainGenesis
<1> QED BY <1>2, <1>3, <1>6, <1>7, <1>8 DEF Verifies, ls

LEMMA LogInvInit == Init => IInv
BY TypeInit DEF Init, IInv, Readable, MemoryMatchesFile

LEMMA LogInvStep ==
  ASSUME Faults \subseteq {"clean"}, IInv, [Next]_vars
  PROVE  LogInv'
<1>0. "torn" \notin Faults /\ "whole" \notin Faults /\ "short" \notin Faults
      /\ "renamed" \notin Faults
  OBVIOUS
<1>1. CASE OpenExisting
  <2>1. Verifies(lines, lines[1].seq) /\ lines # <<>>
    BY <1>1, IInvParts DEF OpenExisting
  <2>2. lines' = lines /\ torn' = FALSE
        /\ mem'.anchorSeq = lines[1].seq /\ mem'.lineCount = Len(lines)
        /\ mem'.tip = ChainTip(lines)
    BY <1>1 DEF OpenExisting
  <2> QED BY <2>1, <2>2 DEF LogInv, Readable, MemoryMatchesFile
<1>2. CASE OpenFresh
  <2>1. lines' = <<AnchorLine>> /\ torn' = FALSE /\ mem'.anchorSeq = 1
        /\ mem'.lineCount = 1 /\ mem'.tip = ChainNext(ChainGenesis, AnchorLine)
    BY <1>2 DEF OpenFresh
  <2>2. Len(lines') = 1 /\ lines' # <<>>
    BY <2>1
  <2> QED BY <2>1, <2>2, AnchorVerifies DEF LogInv, Readable, MemoryMatchesFile
<1>3. CASE OpenFails
  <2>1. lines' = lines \/ lines' = <<AnchorLine>>
    BY <1>3 DEF OpenFails
  <2>2. up' = FALSE
    BY <1>3, IInvParts, TypeParts DEF OpenFails
  <2>3. CASE lines' = lines
    BY <2>2, <2>3, ClosedSame
  <2>4. CASE lines' = <<AnchorLine>>
    BY <2>2, <2>4, AnchorVerifies DEF LogInv, Readable, MemoryMatchesFile
  <2> QED BY <2>1, <2>3, <2>4
<1>4. ASSUME NEW e \in Callable \cup {Checkpoint}, AppendStep(e) PROVE LogInv'
  <2>0. e \in Event
    BY CallableType
  <2>1. CASE AppendEvent(e)
    BY <2>0, <2>1, Extended DEF AppendEvent
  <2>2. CASE AppendRefused(e)
    BY <2>2, SameLog DEF AppendRefused, disk
  <2>3. CASE AppendFails(e)
    BY <1>0, <2>3, SameLog DEF AppendFails, WriteNone
  <2>4. CASE AppendShort(e)
    BY <1>0, <2>4 DEF AppendShort
  <2>5. CASE AppendCrashes(e)
    <3>1. up /\ up' = FALSE
      BY <2>5 DEF AppendCrashes, Die
    <3>2. lines' = lines \/ WriteLine(e)
      BY <2>5 DEF AppendCrashes, WriteNone, WriteSome
    <3> QED BY <2>0, <3>1, <3>2, ClosedSame, Extended
  <2> QED BY <1>4, <2>1, <2>2, <2>3, <2>4, <2>5 DEF AppendStep
<1>5. ASSUME NEW b \in Blobs, BlobStep(b) PROVE LogInv'
  <2>1. \/ UNCHANGED <<lines, torn, up, mem>>
        \/ lines' = lines /\ up' = FALSE
    BY <1>5 DEF BlobStep, PutBlob, PutBlobFails, PutBlobCrashes, DeleteBlob,
                DeleteBlobFails, DeleteBlobCrashes, Die
  <2> QED BY <2>1, ClosedSame, SameLog
<1>6. ASSUME NEW requested \in SUBSET Items, CompactStep(requested) PROVE LogInv'
  <2>1. CASE Compact(requested)
    BY <2>1, Switched DEF Compact, CanCompact
  <2>2. CASE CompactGcFails(requested)
    BY <2>2, Switched DEF CompactGcFails, CanCompact
  <2>3. CASE CompactWriteFails(requested)
    BY <1>0, <2>3, SameLog DEF CompactWriteFails, WriteNone
  <2>4. CASE CompactCrashes(requested)
    <3>1. up /\ up' = FALSE
      BY <2>4 DEF CompactCrashes, CanCompact, Die
    <3>2. \/ lines' = lines
          \/ \E o \in AddOrders(KeptItems(requested)), to \in TabOrders(KeptTabs) :
               Switch(o, to)
      BY <2>4 DEF CompactCrashes, WriteNone
    <3> QED BY <3>1, <3>2, ClosedSame, Switched
  <2> QED BY <1>6, <2>1, <2>2, <2>3, <2>4 DEF CompactStep
<1>7. CASE CompactRefused
  BY <1>7, SameLog DEF CompactRefused, disk
<1>8. CASE Crash \/ Close
  BY <1>8, ClosedSame DEF Crash, Close, Die, disk
<1>9. CASE UNCHANGED vars
  BY <1>9, SameLog DEF vars
<1> QED BY <1>1, <1>2, <1>3, <1>4, <1>5, <1>6, <1>7, <1>8, <1>9 DEF Next

LEMMA InductiveInvariant ==
  ASSUME Faults \subseteq {"clean"}
  PROVE  Spec => []IInv
<1>1. IInv /\ [Next]_vars => IInv'
  BY TypeStep, LogInvStep DEF IInv, LogInv
<1> QED BY <1>1, LogInvInit, PTL DEF Spec

(* A store whose failing calls leave nothing behind can always read its    *)
(* whole log back, open or restarted, wherever it crashed: sealAndAppend   *)
(* and compact seal every line for the place it is written at.             *)
THEOREM CleanReadable ==
  ASSUME Faults \subseteq {"clean"}
  PROVE  Spec => []Readable
<1>1. IInv => Readable
  BY DEF IInv
<1> QED BY <1>1, InductiveInvariant, PTL

(* ... because the memory sealAndAppend seals from is always the file's.   *)
THEOREM CleanMemory ==
  ASSUME Faults \subseteq {"clean"}
  PROVE  Spec => []MemoryMatchesFile
<1>1. IInv => MemoryMatchesFile
  BY DEF IInv
<1> QED BY <1>1, InductiveInvariant, PTL

-----------------------------------------------------------------------------
(***************************************************************************)
(* Sequence numbers.                                                       *)
(***************************************************************************)
LEMMA LastSeqIs ==
  ASSUME NEW ls \in Seq(Line), ls # <<>>, NEW a \in Nat, Verifies(ls, a)
  PROVE  LastSeq(ls) = a + Len(ls) - 1
<1>1. Len(ls) \in Nat /\ Len(ls) \in DOMAIN ls
  OBVIOUS
<1> QED BY <1>1 DEF Verifies, Accepted, LastSeq

LEMMA SeqsGrowStep ==
  ASSUME Faults \subseteq {"clean"}, IInv, [Next]_vars, lines # <<>>
  PROVE  /\ lines' # <<>>
         /\ lines' # lines => LastSeq(lines') > LastSeq(lines)
<1>0. "torn" \notin Faults /\ "whole" \notin Faults /\ "short" \notin Faults
      /\ "renamed" \notin Faults
  OBVIOUS
<1>1. /\ lines \in Seq(Line) /\ Len(lines) \in Nat
      /\ Verifies(lines, lines[1].seq) /\ lines[1].seq \in Nat
  <2>1. lines[1] \in Line
    BY IInvParts
  <2> QED BY <2>1, IInvParts DEF Line
<1>2. LastSeq(lines) = lines[1].seq + Len(lines) - 1
  BY <1>1, LastSeqIs
<1>3. ASSUME up, NEW e \in Event, WriteLine(e)
      PROVE  lines' # <<>> /\ LastSeq(lines') > LastSeq(lines)
  <2>1. lines' = Append(lines, NextLine(e))
    BY <1>3, IInvParts DEF WriteLine
  <2>2. NextLine(e).seq = lines[1].seq + Len(lines)
    BY <1>3, NextLineVerifies
  <2>3. Len(lines') = Len(lines) + 1 /\ lines'[Len(lines) + 1] = NextLine(e)
    BY <1>1, <1>3, <2>1, NextLineType, IInvParts
  <2>4. LastSeq(lines') = lines[1].seq + Len(lines)
    BY <2>2, <2>3 DEF LastSeq
  <2>5. lines' # <<>>
    BY <1>1, <2>3
  <2> QED BY <1>1, <1>2, <2>4, <2>5
<1>4. ASSUME up,
             NEW requested \in SUBSET Items,
             NEW o \in AddOrders(KeptItems(requested)),
             NEW to \in TabOrders(KeptTabs),
             Switch(o, to)
      PROVE  lines' # <<>> /\ LastSeq(lines') > LastSeq(lines)
  <2>1. lines' = Generation(o, to)
    BY <1>4 DEF Switch
  <2>2. lines' # <<>> /\ LastSeq(lines') >= MaxSeq + 1
    BY <1>4, <2>1, GenerationVerifies DEF LastSeq
  <2>3. MaxSeq = LastSeq(lines)
    BY <1>2, <1>4, IInvParts DEF MaxSeq
  <2>4. MaxSeq \in Nat
    BY <1>4, IInvParts, MemType
  <2>5. LastSeq(lines') \in Nat
    <3>1. lines' \in Seq(Line)
      BY <1>4, IInvParts, SwitchType
    <3>2. lines'[Len(lines')] \in Line
      BY <2>2, <3>1
    <3> QED BY <3>2 DEF LastSeq, Line
  <2> QED BY <2>2, <2>3, <2>4, <2>5
<1>5. CASE lines' = lines
  BY <1>5
<1>6. CASE lines' # lines
  <2>1. ~OpenExisting /\ ~OpenFresh /\ ~OpenFails /\ ~CompactRefused
        /\ ~Crash /\ ~Close /\ ~UNCHANGED vars
    BY <1>6 DEF OpenExisting, OpenFresh, OpenFails, CompactRefused, Crash,
                Close, disk, vars
  <2>2. ASSUME NEW e \in Callable \cup {Checkpoint}, AppendStep(e)
        PROVE  up /\ WriteLine(e)
    BY <1>0, <1>6, <2>2
    DEF AppendStep, AppendEvent, AppendRefused, AppendFails, AppendShort,
        AppendCrashes, WriteNone, WriteSome, disk
  <2>3. ASSUME NEW b \in Blobs PROVE ~BlobStep(b)
    BY <1>6 DEF BlobStep, PutBlob, PutBlobFails, PutBlobCrashes, DeleteBlob,
                DeleteBlobFails, DeleteBlobCrashes
  <2>4. ASSUME NEW requested \in SUBSET Items, CompactStep(requested)
        PROVE  /\ up
               /\ \E o \in AddOrders(KeptItems(requested)),
                     to \in TabOrders(KeptTabs) : Switch(o, to)
    BY <1>0, <1>6, <2>4
    DEF CompactStep, Compact, CompactGcFails, CompactWriteFails,
        CompactCrashes, CanCompact, WriteNone
  <2> QED BY <1>3, <1>4, <2>1, <2>2, <2>3, <2>4, CallableType DEF Next
<1> QED BY <1>5, <1>6

(* No sequence number is ever used twice, across appends, compactions,     *)
(* crashes and restarts: compact numbers the next generation from maxSeq.  *)
THEOREM CleanSeqs ==
  ASSUME Faults \subseteq {"clean"}
  PROVE  Spec => SeqsOnlyGrow
<1>1. IInv /\ [Next]_vars =>
        [lines # <<>> =>
           /\ lines' # <<>>
           /\ lines' # lines => LastSeq(lines') > LastSeq(lines)]_lines
  BY SeqsGrowStep
<1> QED BY <1>1, InductiveInvariant, PTL DEF Spec, SeqsOnlyGrow

-----------------------------------------------------------------------------
(***************************************************************************)
(* The book.  Replaying the log is a recursion over its lines, so what it  *)
(* gives is shown by induction over how many of them are replayed.         *)
(***************************************************************************)
(* Induction over the natural numbers, for a set instead of a predicate:   *)
(* of the intervals up to a number that is not in it one is the smallest.  *)
LEMMA Induction ==
  ASSUME NEW S, 0 \in S, \A n \in Nat : n \in S => n + 1 \in S
  PROVE  \A n \in Nat : n \in S
<1> SUFFICES ASSUME NEW n \in Nat, n \notin S PROVE FALSE
  OBVIOUS
<1> DEFINE T == {0 .. m : m \in {k \in Nat : k \notin S}}
<1>1. T \in SUBSET FiniteSubsetsOf(Nat) /\ T # {}
  <2>1. \A m \in Nat : 0 .. m \in FiniteSubsetsOf(Nat)
    BY FS_Interval DEF FiniteSubsetsOf
  <2> QED BY <2>1
<1>2. PICK x \in T : \A y \in T : ~(<<y, x>> \in StrictSubsetOrdering(Nat))
  <2> HIDE DEF T
  <2> QED BY <1>1, FS_StrictSubsetOrderingWellFounded, WFMin
<1>3. PICK m \in Nat : m \notin S /\ x = 0 .. m
  BY <1>2
<1>4. m - 1 \in Nat /\ m - 1 \notin S
  <2>1. m # 0
    BY <1>3
  <2>2. m - 1 \in Nat /\ (m - 1) + 1 = m
    BY <2>1
  <2> QED BY <1>3, <2>2
<1>5. 0 .. m - 1 \in T
  BY <1>4
<1>6. <<0 .. m - 1, 0 .. m>> \in StrictSubsetOrdering(Nat)
  <2>1. 0 .. m - 1 \in SUBSET Nat /\ 0 .. m \in SUBSET Nat
    BY <1>4
  <2>2. 0 .. m - 1 \subseteq 0 .. m /\ m \in 0 .. m /\ m \notin 0 .. m - 1
    BY <1>4
  <2> QED BY <2>1, <2>2 DEF StrictSubsetOrdering
<1> QED BY <1>2, <1>3, <1>5, <1>6

(* The books replaying the first lines of a log goes through.              *)
Books(ls, f) ==
  f = [k \in 0 .. Len(ls) |->
         IF k = 0 THEN EmptyBook ELSE ApplyEvent(f[k - 1], ls[k].event)]

LEMMA BooksExist ==
  ASSUME NEW ls \in Seq(Line)
  PROVE  \E f : Books(ls, f)
<1> DEFINE Upto(n, f) ==
             f = [k \in 0 .. n |->
                    IF k = 0 THEN EmptyBook ELSE ApplyEvent(f[k - 1], ls[k].event)]
           S == {n \in Nat : \E f : Upto(n, f)}
<1>1. 0 \in S
  <2> DEFINE f == [k \in 0 .. 0 |-> EmptyBook]
  <2>1. Upto(0, f)
    OBVIOUS
  <2> HIDE DEF f, Upto
  <2> QED BY <2>1
<1>2. ASSUME NEW n \in Nat, n \in S
      PROVE  n + 1 \in S
  <2>1. PICK f : Upto(n, f)
    BY <1>2
  <2> DEFINE g == [k \in 0 .. n + 1 |->
                     IF k <= n THEN f[k] ELSE ApplyEvent(f[n], ls[n + 1].event)]
             h == [k \in 0 .. n + 1 |->
                     IF k = 0 THEN EmptyBook ELSE ApplyEvent(g[k - 1], ls[k].event)]
  <2>2. \A k \in 0 .. n : f[k] = IF k = 0 THEN EmptyBook ELSE ApplyEvent(f[k - 1], ls[k].event)
    <3> DEFINE body(k) == IF k = 0 THEN EmptyBook ELSE ApplyEvent(f[k - 1], ls[k].event)
    <3>1. f = [k \in 0 .. n |-> body(k)]
      BY <2>1
    <3> HIDE DEF body
    <3>2. \A k \in 0 .. n : f[k] = body(k)
      BY <3>1
    <3> QED BY <3>2 DEF body
  <2>3. ASSUME NEW k \in 0 .. n + 1
        PROVE  g[k] = h[k]
    <3>1. CASE k = 0
      BY <2>2, <3>1
    <3>2. CASE k \in 1 .. n
      <4>1. g[k - 1] = f[k - 1] /\ g[k] = f[k]
        BY <3>2
      <4> QED BY <2>2, <3>2, <4>1
    <3>3. CASE k = n + 1
      <4>1. g[k] = ApplyEvent(f[n], ls[n + 1].event) /\ g[k - 1] = f[n]
        BY <3>3
      <4> QED BY <3>3, <4>1
    <3> QED BY <3>1, <3>2, <3>3
  <2>4. g = h
    <3>1. g = [k \in 0 .. n + 1 |-> g[k]] /\ h = [k \in 0 .. n + 1 |-> h[k]]
      OBVIOUS
    <3> HIDE DEF g, h
    <3> QED BY <2>3, <3>1
  <2>5. Upto(n + 1, g)
    BY <2>4
  <2> HIDE DEF g, Upto
  <2> QED BY <2>5
<1>3. Len(ls) \in S
  <2> HIDE DEF S
  <2> QED BY <1>1, <1>2, Induction
<1> QED BY <1>3 DEF Books

LEMMA ReplayIs ==
  ASSUME NEW ls \in Seq(Line), ls # <<>> => Verifies(ls, ls[1].seq)
  PROVE  \E f : Books(ls, f) /\ Replay(ls) = f[Len(ls)]
<1>1. ReadLen(ls) = Len(ls)
  <2>1. {k \in DOMAIN ls : ~Accepted(ls, ls[1].seq, k)} = {}
    BY DEF Verifies
  <2> QED BY <2>1 DEF ReadLen
<1> DEFINE after == CHOOSE f : Books(ls, f)
<1>2. Books(ls, after)
  BY BooksExist
<1>3. Replay(ls) = after[ReadLen(ls)]
  BY DEF Replay, Books
<1> HIDE DEF after
<1> QED BY <1>1, <1>2, <1>3

LEMMA BooksAt ==
  ASSUME NEW ls \in Seq(Line), NEW f, Books(ls, f)
  PROVE  /\ f[0] = EmptyBook
         /\ \A k \in 1 .. Len(ls) : f[k] = ApplyEvent(f[k - 1], ls[k].event)
<1> DEFINE body(k) == IF k = 0 THEN EmptyBook ELSE ApplyEvent(f[k - 1], ls[k].event)
<1>1. f = [k \in 0 .. Len(ls) |-> body(k)]
  BY DEF Books
<1>2. Len(ls) \in Nat
  OBVIOUS
<1>3. \A k \in 0 .. Len(ls) : f[k] = body(k)
  <2> HIDE DEF body
  <2> QED BY <1>1
<1> QED BY <1>2, <1>3

(* Logs that begin with the same events give the same books.               *)
LEMMA BooksAgree ==
  ASSUME NEW ls \in Seq(Line), NEW f, Books(ls, f),
         NEW ms \in Seq(Line), NEW g, Books(ms, g),
         NEW n \in Nat, n <= Len(ls), n <= Len(ms),
         \A k \in 1 .. n : ls[k].event = ms[k].event
  PROVE  f[n] = g[n]
<1> DEFINE S == {k \in Nat : k <= n => f[k] = g[k]}
<1>1. 0 \in S
  BY BooksAt
<1>2. ASSUME NEW k \in Nat, k \in S
      PROVE  k + 1 \in S
  <2>1. ASSUME k + 1 <= n
        PROVE  f[k + 1] = g[k + 1]
    <3>1. f[k] = g[k] /\ k + 1 \in 1 .. n /\ (k + 1) - 1 = k
      BY <1>2, <2>1
    <3>2. Len(ls) \in Nat /\ Len(ms) \in Nat /\ k + 1 \in 1 .. Len(ls) /\ k + 1 \in 1 .. Len(ms)
      BY <3>1
    <3>3. f[k + 1] = ApplyEvent(f[(k + 1) - 1], ls[k + 1].event)
      BY <3>2, BooksAt
    <3>4. g[k + 1] = ApplyEvent(g[(k + 1) - 1], ms[k + 1].event)
      BY <3>2, BooksAt
    <3> QED BY <3>1, <3>3, <3>4
  <2> QED BY <2>1
<1>3. n \in S
  <2> HIDE DEF S
  <2> QED BY <1>1, <1>2, Induction
<1> QED BY <1>3

LEMMA ReplayAppend ==
  ASSUME NEW ls \in Seq(Line), ls # <<>> => Verifies(ls, ls[1].seq),
         NEW l \in Line, Verifies(Append(ls, l), Append(ls, l)[1].seq)
  PROVE  Replay(Append(ls, l)) = ApplyEvent(Replay(ls), l.event)
<1> DEFINE ms == Append(ls, l)
<1>1. /\ ms \in Seq(Line) /\ Len(ms) = Len(ls) + 1 /\ Len(ls) \in Nat
      /\ \A k \in 1 .. Len(ls) : ms[k] = ls[k]
      /\ ms[Len(ls) + 1] = l
  OBVIOUS
<1>2. PICK f : Books(ls, f) /\ Replay(ls) = f[Len(ls)]
  BY ReplayIs
<1>3. Verifies(ms, ms[1].seq)
  OBVIOUS
<1> HIDE DEF ms
<1>4. PICK g : Books(ms, g) /\ Replay(ms) = g[Len(ms)]
  BY <1>1, <1>3, ReplayIs
<1>5. f[Len(ls)] = g[Len(ls)]
  <2>1. Len(ls) <= Len(ms) /\ \A k \in 1 .. Len(ls) : ls[k].event = ms[k].event
    BY <1>1
  <2> QED BY <1>1, <1>2, <1>4, <2>1, BooksAgree
<1>6. g[Len(ms)] = ApplyEvent(g[Len(ls)], l.event)
  <2>1. Len(ms) \in 1 .. Len(ms) /\ Len(ms) - 1 = Len(ls)
    BY <1>1
  <2>2. g[Len(ms)] = ApplyEvent(g[Len(ms) - 1], ms[Len(ms)].event)
    BY <1>1, <1>4, <2>1, BooksAt
  <2> QED BY <1>1, <2>1, <2>2
<1>7. Replay(ms) = ApplyEvent(Replay(ls), l.event)
  BY <1>2, <1>4, <1>5, <1>6
<1> QED BY <1>7 DEF ms

LEMMA ReplayEmpty == Replay(<<>>) = EmptyBook
<1>1. <<>> \in Seq(Line) /\ Len(<<>>) = 0
  OBVIOUS
<1>2. PICK f : Books(<<>>, f) /\ Replay(<<>>) = f[Len(<<>>)]
  BY <1>1, ReplayIs
<1> QED BY <1>1, <1>2, BooksAt

-----------------------------------------------------------------------------
(* Books and what an event does to them.                                   *)
Tagged == [tags : SUBSET Tabs]
Shelf == UNION {[D -> Tagged] : D \in SUBSET Items}
IsBook(b) == b = [items |-> b.items, tabs |-> b.tabs] /\ b.items \in Shelf /\ b.tabs \subseteq Tabs

LEMMA ShelfIs ==
  ASSUME NEW f
  PROVE  f \in Shelf <=> /\ f = [i \in DOMAIN f |-> f[i]]
                         /\ DOMAIN f \subseteq Items
                         /\ \A i \in DOMAIN f : f[i] \in Tagged
BY DEF Shelf

LEMMA EmptyBookIs == IsBook(EmptyBook) /\ EmptyBook.items = <<>> /\ EmptyBook.tabs = {}
<1>1. EmptyBook = [items |-> <<>>, tabs |-> {}]
  BY DEF EmptyBook
<1>2. <<>> \in Shelf
  <2>1. <<>> = [i \in {} |-> {}] /\ DOMAIN <<>> = {}
    OBVIOUS
  <2> QED BY <2>1, ShelfIs
<1> QED BY <1>1, <1>2 DEF IsBook

LEMMA PatchedTags ==
  ASSUME NEW it \in Tagged, NEW patch \in Tagged
  PROVE  Merged(it, patch) = patch /\ it = ItemOf(it.tags)
<1>1. it = [tags |-> it.tags] /\ patch = [tags |-> patch.tags]
  BY DEF Tagged
<1>2. DOMAIN it = {"tags"} /\ DOMAIN patch = {"tags"}
  BY <1>1
<1>3. Merged(it, patch) = [f \in {"tags"} |-> patch[f]]
  BY <1>2 DEF Merged
<1> QED BY <1>1, <1>2, <1>3 DEF ItemOf

(* What the events do, one by one.                                         *)
LEMMA Applied ==
  ASSUME NEW b, b = [items |-> b.items, tabs |-> b.tabs], NEW i, NEW x
  PROVE  /\ ApplyEvent(b, ItemAdded(i, x)) = [items |-> With(b.items, i, x), tabs |-> b.tabs]
         /\ ApplyEvent(b, ItemUpdated(i, x)) = [items |-> Patched(b.items, i, x), tabs |-> b.tabs]
         /\ ApplyEvent(b, ItemDeleted(i)) = [items |-> Without(b.items, i), tabs |-> b.tabs]
         /\ ApplyEvent(b, TabCreated(x)) = [items |-> b.items, tabs |-> b.tabs \cup {x}]
         /\ ApplyEvent(b, TabDeleted(x)) = [items |-> Untagged(b.items, x), tabs |-> b.tabs \ {x}]
         /\ ApplyEvent(b, Checkpoint) = b
<1>1. ApplyEvent(b, ItemAdded(i, x)) = [items |-> With(b.items, i, x), tabs |-> b.tabs]
  BY DEF ApplyEvent, ItemAdded
<1>2. ApplyEvent(b, ItemUpdated(i, x)) = [items |-> Patched(b.items, i, x), tabs |-> b.tabs]
  BY DEF ApplyEvent, ItemUpdated
<1>3. ApplyEvent(b, ItemDeleted(i)) = [items |-> Without(b.items, i), tabs |-> b.tabs]
  BY DEF ApplyEvent, ItemDeleted
<1>4. ApplyEvent(b, TabCreated(x)) = [items |-> b.items, tabs |-> b.tabs \cup {x}]
  BY DEF ApplyEvent, TabCreated
<1>5. ApplyEvent(b, TabDeleted(x)) = [items |-> Untagged(b.items, x), tabs |-> b.tabs \ {x}]
  BY DEF ApplyEvent, TabDeleted
<1>6. ApplyEvent(b, Checkpoint) = b
  BY DEF ApplyEvent, Checkpoint
<1> QED BY <1>1, <1>2, <1>3, <1>4, <1>5, <1>6

(* An event is one of six.                                                 *)
LEMMA EventKinds ==
  ASSUME NEW e \in Event
  PROVE  \/ e = Checkpoint
         \/ \E i \in Items, x \in Tagged : e = ItemAdded(i, x)
         \/ \E i \in Items, x \in Tagged : e = ItemUpdated(i, x)
         \/ \E i \in Items : e = ItemDeleted(i)
         \/ \E t \in Tabs : e = TabCreated(t) \/ e = TabDeleted(t)
BY DEF Event, Tagged, Checkpoint, ItemAdded, ItemUpdated, ItemDeleted, TabCreated, TabDeleted

LEMMA BookApplied ==
  ASSUME NEW b, IsBook(b), NEW e \in Event
  PROVE  /\ IsBook(ApplyEvent(b, e))
         /\ \A i \in DOMAIN ApplyEvent(b, e).items :
              i \in DOMAIN b.items \/ (e.kind = "ITEM_ADDED" /\ e.id = i)
<1> DEFINE Good(n) == IsBook(n) /\ \A i \in DOMAIN n.items :
                         i \in DOMAIN b.items \/ (e.kind = "ITEM_ADDED" /\ e.id = i)
<1>1. /\ b = [items |-> b.items, tabs |-> b.tabs] /\ b.tabs \subseteq Tabs
      /\ DOMAIN b.items \subseteq Items /\ \A i \in DOMAIN b.items : b.items[i] \in Tagged
  BY ShelfIs DEF IsBook
<1>2. ASSUME NEW items, NEW tabs, items = [i \in DOMAIN items |-> items[i]], tabs \subseteq Tabs,
             DOMAIN items \subseteq Items,
             \A i \in DOMAIN items : items[i] \in Tagged,
             \A i \in DOMAIN items : i \in DOMAIN b.items \/ (e.kind = "ITEM_ADDED" /\ e.id = i)
      PROVE  Good([items |-> items, tabs |-> tabs])
  BY <1>2, ShelfIs DEF IsBook
<1> HIDE DEF Good
<1>3. ASSUME e = Checkpoint
      PROVE  Good(ApplyEvent(b, e))
  <2>1. Good(b)
    BY DEF Good
  <2> QED BY <1>1, <1>3, <2>1, Applied
<1>4. ASSUME NEW i \in Items, NEW x \in Tagged, e = ItemAdded(i, x)
      PROVE  Good(ApplyEvent(b, e))
  <2>1. e.kind = "ITEM_ADDED" /\ e.id = i
    BY <1>4 DEF ItemAdded
  <2> DEFINE items == With(b.items, i, x)
  <2>2. /\ items = [j \in DOMAIN items |-> items[j]]
        /\ DOMAIN items = DOMAIN b.items \cup {i}
        /\ \A j \in DOMAIN items : items[j] = IF j = i THEN x ELSE b.items[j]
    BY DEF With
  <2> HIDE DEF items
  <2>3. Good([items |-> items, tabs |-> b.tabs])
    BY <1>1, <1>2, <2>1, <2>2
  <2> QED BY <1>1, <1>4, <2>3, Applied DEF items
<1>5. ASSUME NEW i \in Items, NEW x \in Tagged, e = ItemUpdated(i, x)
      PROVE  Good(ApplyEvent(b, e))
  <2> DEFINE items == Patched(b.items, i, x)
  <2>1. CASE i \in DOMAIN b.items
    <3>1. Merged(b.items[i], x) = x
      BY <1>1, <2>1, PatchedTags
    <3>2. /\ items = [j \in DOMAIN items |-> items[j]]
          /\ DOMAIN items = DOMAIN b.items
          /\ \A j \in DOMAIN items : items[j] = IF j = i THEN x ELSE b.items[j]
      BY <2>1, <3>1 DEF With, Patched
    <3> HIDE DEF items
    <3>3. Good([items |-> items, tabs |-> b.tabs])
      BY <1>1, <1>2, <3>2
    <3> QED BY <1>1, <1>5, <3>3, Applied DEF items
  <2>2. CASE i \notin DOMAIN b.items
    <3>1. ApplyEvent(b, e) = b
      BY <1>1, <1>5, <2>2, Applied DEF Patched
    <3> QED BY <3>1 DEF Good
  <2> QED BY <2>1, <2>2
<1>6. ASSUME NEW i \in Items, e = ItemDeleted(i)
      PROVE  Good(ApplyEvent(b, e))
  <2> DEFINE items == Without(b.items, i)
  <2>1. /\ items = [j \in DOMAIN items |-> items[j]]
        /\ DOMAIN items = DOMAIN b.items \ {i}
        /\ \A j \in DOMAIN items : items[j] = b.items[j]
    BY DEF Without
  <2> HIDE DEF items
  <2>2. Good([items |-> items, tabs |-> b.tabs])
    BY <1>1, <1>2, <2>1
  <2> QED BY <1>1, <1>6, <2>2, Applied DEF items
<1>7. ASSUME NEW t \in Tabs, e = TabCreated(t)
      PROVE  Good(ApplyEvent(b, e))
  <2>1. b.items = [j \in DOMAIN b.items |-> b.items[j]]
    BY ShelfIs DEF IsBook
  <2>2. Good([items |-> b.items, tabs |-> b.tabs \cup {t}])
    BY <1>1, <1>2, <2>1
  <2> QED BY <1>1, <1>7, <2>2, Applied
<1>8. ASSUME NEW t \in Tabs, e = TabDeleted(t)
      PROVE  Good(ApplyEvent(b, e))
  <2> DEFINE items == Untagged(b.items, t)
  <2>1. ASSUME NEW it \in Tagged
        PROVE  [it EXCEPT !.tags = @ \ {t}] \in Tagged
    BY DEF Tagged
  <2>2. /\ items = [j \in DOMAIN items |-> items[j]]
        /\ DOMAIN items = DOMAIN b.items
        /\ \A j \in DOMAIN items : items[j] = [b.items[j] EXCEPT !.tags = @ \ {t}]
    BY DEF Untagged
  <2> HIDE DEF items
  <2>3. \A j \in DOMAIN items : items[j] \in Tagged
    BY <1>1, <2>1, <2>2
  <2>4. Good([items |-> items, tabs |-> b.tabs \ {t}])
    BY <1>1, <1>2, <2>2, <2>3
  <2> QED BY <1>1, <1>8, <2>4, Applied DEF items
<1>9. Good(ApplyEvent(b, e))
  <2>1. CASE \E i \in Items, x \in Tagged : e = ItemAdded(i, x)
    BY <1>4, <2>1
  <2>2. CASE \E i \in Items, x \in Tagged : e = ItemUpdated(i, x)
    BY <1>5, <2>2
  <2>3. CASE \E i \in Items : e = ItemDeleted(i)
    BY <1>6, <2>3
  <2>4. CASE \E t \in Tabs : e = TabCreated(t) \/ e = TabDeleted(t)
    BY <1>7, <1>8, <2>4
  <2> QED BY <1>3, <2>1, <2>2, <2>3, <2>4, EventKinds
<1> QED BY <1>9 DEF Good

(* A set of numbers up to n has a greatest one, if it has any.             *)
LEMMA Greatest ==
  ASSUME NEW n \in Nat, NEW P \in SUBSET (1 .. n), P # {}
  PROVE  \E m \in P : \A j \in P : j <= m
<1> DEFINE S == {k \in Nat : \A Q \in SUBSET (1 .. k) :
                               Q # {} => \E m \in Q : \A j \in Q : j <= m}
<1>1. 0 \in S
  <2>1. 1 .. 0 = {}
    OBVIOUS
  <2> QED BY <2>1
<1>2. ASSUME NEW k \in Nat, k \in S
      PROVE  k + 1 \in S
  <2>1. ASSUME NEW Q \in SUBSET (1 .. k + 1), Q # {}
        PROVE  \E m \in Q : \A j \in Q : j <= m
    <3>1. CASE k + 1 \in Q
      BY <3>1
    <3>2. CASE k + 1 \notin Q
      <4>1. Q \in SUBSET (1 .. k)
        BY <3>2
      <4> QED BY <1>2, <2>1, <4>1
    <3> QED BY <3>1, <3>2
  <2> QED BY <2>1
<1>3. n \in S
  <2> HIDE DEF S
  <2> QED BY <1>1, <1>2, Induction
<1> QED BY <1>3

(* Whatever is replayed is a book, and its items were added.               *)
Adds(l, i) == l.event.kind = "ITEM_ADDED" /\ l.event.id = i

LEMMA ReplayBook ==
  ASSUME NEW ls \in Seq(Line), ls # <<>> => Verifies(ls, ls[1].seq)
  PROVE  /\ IsBook(Replay(ls))
         /\ \A i \in DOMAIN Replay(ls).items : \E k \in 1 .. Len(ls) : Adds(ls[k], i)
<1>1. PICK f : Books(ls, f) /\ Replay(ls) = f[Len(ls)]
  BY ReplayIs
<1>2. Len(ls) \in Nat /\ \A k \in 1 .. Len(ls) : ls[k].event \in Event
  <2>1. \A k \in 1 .. Len(ls) : ls[k] \in Line
    OBVIOUS
  <2>2. \A l \in Line : l.event \in Event
    BY DEF Line
  <2> QED BY <2>1, <2>2
<1> DEFINE Good(n) == /\ IsBook(f[n])
                      /\ \A i \in DOMAIN f[n].items : \E k \in 1 .. n : Adds(ls[k], i)
           S == {n \in Nat : n <= Len(ls) => Good(n)}
<1>3. 0 \in S
  <2>1. f[0] = EmptyBook
    BY <1>1, BooksAt
  <2>2. DOMAIN EmptyBook.items = {}
    BY EmptyBookIs
  <2> QED BY <2>1, <2>2, EmptyBookIs
<1>4. ASSUME NEW n \in Nat, n \in S
      PROVE  n + 1 \in S
  <2>1. ASSUME n + 1 <= Len(ls)
        PROVE  Good(n + 1)
    <3>1. Good(n) /\ n + 1 \in 1 .. Len(ls) /\ (n + 1) - 1 = n
      BY <1>2, <1>4, <2>1
    <3>2. f[n + 1] = ApplyEvent(f[(n + 1) - 1], ls[n + 1].event)
      BY <1>1, <3>1, BooksAt
    <3> DEFINE e == ls[n + 1].event
    <3>3. f[n + 1] = ApplyEvent(f[n], e) /\ e \in Event
      BY <1>2, <3>1, <3>2
    <3>4. IsBook(f[n + 1])
      BY <3>1, <3>3, BookApplied
    <3>5. ASSUME NEW i \in DOMAIN f[n + 1].items
          PROVE  \E k \in 1 .. n + 1 : Adds(ls[k], i)
      <4>1. CASE i \in DOMAIN f[n].items
        <5>1. PICK k \in 1 .. n : Adds(ls[k], i)
          BY <3>1, <4>1
        <5> QED BY <5>1
      <4>2. CASE e.kind = "ITEM_ADDED" /\ e.id = i
        BY <4>2 DEF Adds
      <4> QED BY <3>1, <3>3, <3>5, <4>1, <4>2, BookApplied
    <3> QED BY <3>4, <3>5
  <2> QED BY <2>1
<1>5. Len(ls) \in S
  <2> HIDE DEF S
  <2> QED BY <1>2, <1>3, <1>4, Induction
<1> QED BY <1>1, <1>5

LEMMA BookIs ==
  ASSUME IInv
  PROVE  /\ IsBook(Book)
         /\ \A i \in DOMAIN Book.items : \E k \in DOMAIN lines : Adds(lines[k], i)
BY IInvParts, ReplayBook DEF Book

LEMMA AddedAtIs ==
  ASSUME IInv, NEW i \in DOMAIN Book.items
  PROVE  AddedAt(i) \in Nat
<1> DEFINE P == {k \in DOMAIN lines : Adds(lines[k], i)}
<1>1. Len(lines) \in Nat /\ DOMAIN lines = 1 .. Len(lines)
  BY IInvParts
<1>2. P \in SUBSET (1 .. Len(lines)) /\ P # {}
  BY <1>1, BookIs
<1>3. PICK m \in P : \A j \in P : j <= m
  BY <1>1, <1>2, Greatest
<1>4. AddedAt(i) \in DOMAIN lines
  BY <1>3 DEF AddedAt, Adds
<1> QED BY <1>1, <1>4

(* Every kept item is written once, and so is every tab.                   *)
LEMMA Enumerated ==
  ASSUME NEW T, IsFiniteSet(T), NEW o \in [1 .. Cardinality(T) -> T],
         \A m, n \in 1 .. Cardinality(T) : m # n => o[m] # o[n]
  PROVE  /\ o \in Seq(T) /\ Len(o) = Cardinality(T)
         /\ {o[m] : m \in 1 .. Len(o)} = T
<1>1. Cardinality(T) \in Nat
  BY FS_CardinalityType
<1>2. o \in Seq(T) /\ Len(o) = Cardinality(T)
  BY <1>1
<1>3. o \in Injection(1 .. Cardinality(T), T)
  BY DEF Injection, IsInjective
<1>4. Cardinality(1 .. Cardinality(T)) = Cardinality(T)
  BY <1>1, FS_Interval
<1>5. o \in Surjection(1 .. Cardinality(T), T)
  BY <1>3, <1>4, FS_Injection
<1> QED BY <1>2, <1>5 DEF Surjection

LEMMA Ordered ==
  ASSUME IInv, NEW requested \in SUBSET Items,
         NEW o \in AddOrders(KeptItems(requested)), NEW to \in TabOrders(KeptTabs)
  PROVE  /\ o \in Seq(KeptItems(requested)) /\ to \in Seq(KeptTabs)
         /\ {o[m] : m \in 1 .. Len(o)} = KeptItems(requested)
         /\ {to[m] : m \in 1 .. Len(to)} = KeptTabs
<1> DEFINE K == KeptItems(requested)
<1>1. K \subseteq Items /\ K \subseteq DOMAIN Book.items /\ KeptTabs \subseteq Tabs
  BY DEF KeptItems, KeptTabs
<1>2. IsFiniteSet(K) /\ IsFiniteSet(KeptTabs)
  BY <1>1, LogStoreAssumption, FS_Subset DEF LogStoreAssumption
<1>3. Cardinality(K) \in Nat
  BY <1>2, FS_CardinalityType
<1>4. /\ o \in [1 .. Cardinality(K) -> K]
      /\ \A m, n \in 1 .. Cardinality(K) : m < n => AddedAt(o[m]) < AddedAt(o[n])
  BY DEF AddOrders
<1>5. ASSUME NEW m \in 1 .. Cardinality(K), NEW n \in 1 .. Cardinality(K), m # n
      PROVE  o[m] # o[n]
  <2>1. AddedAt(o[m]) \in Nat
    BY <1>1, <1>4, AddedAtIs
  <2>2. m < n \/ n < m
    BY <1>3, <1>5
  <2> QED BY <1>4, <2>1, <2>2
<1>6. /\ to \in [1 .. Cardinality(KeptTabs) -> KeptTabs]
      /\ \A m, n \in 1 .. Cardinality(KeptTabs) : m # n => to[m] # to[n]
  BY DEF TabOrders
<1> HIDE DEF K
<1>7. o \in Seq(K) /\ {o[m] : m \in 1 .. Len(o)} = K
  BY <1>2, <1>4, <1>5, Enumerated
<1>8. to \in Seq(KeptTabs) /\ {to[m] : m \in 1 .. Len(to)} = KeptTabs
  BY <1>2, <1>6, Enumerated
<1> QED BY <1>7, <1>8 DEF K

(* The events of a generation.                                             *)
LEMMA GenerationEvents ==
  ASSUME IInv, up, NEW requested \in SUBSET Items,
         NEW o \in AddOrders(KeptItems(requested)), NEW to \in TabOrders(KeptTabs)
  PROVE  LET g == Generation(o, to)
         IN  /\ g[1].event = Checkpoint
             /\ \A m \in 1 .. Len(o) : g[1 + m].event = ItemAdded(o[m], Book.items[o[m]])
             /\ \A m \in 1 .. Len(to) : g[1 + Len(o) + m].event = TabCreated(to[m])
<1> DEFINE g == Generation(o, to)
           n == 1 + Len(o) + Len(to)
<1>1. Len(o) \in Nat /\ Len(to) \in Nat
  BY IInvParts, GenerationType
<1>2. ASSUME NEW k \in 1 .. n
      PROVE  g[k].event = GenerationEvent(Book.items, o, to, k)
  <2>1. g[k] = Sealed(seals + k, k - 1, MaxSeq + 1 + k - 1, [j \in 1 .. (k - 1) |-> seals + j],
                      GenerationEvent(Book.items, o, to, k))
    BY DEF Generation
  <2> QED BY <2>1 DEF Sealed
<1> HIDE DEF g
<1>3. g[1].event = Checkpoint
  <2>1. 1 \in 1 .. n
    BY <1>1
  <2> QED BY <1>2, <2>1 DEF GenerationEvent
<1>4. ASSUME NEW m \in 1 .. Len(o)
      PROVE  g[1 + m].event = ItemAdded(o[m], Book.items[o[m]])
  <2>1. /\ 1 + m \in 1 .. n /\ 1 + m \in 2 .. (1 + Len(o)) /\ (1 + m) - 1 = m /\ 1 + m # 1
    BY <1>1
  <2>2. o[m] \in DOMAIN Book.items
    <3>1. o[m] \in KeptItems(requested)
      BY <1>1, Ordered
    <3> QED BY <3>1 DEF KeptItems
  <2>3. Book.items[o[m]] \in Tagged
    BY <2>2, BookIs, ShelfIs DEF IsBook
  <2>4. Materialised(Book.items[o[m]]) = Book.items[o[m]]
    <3>1. ASSUME NEW it \in Tagged
          PROVE  Materialised(it) = it
      <4>1. it.tags \subseteq Tabs /\ it = ItemOf(it.tags)
        BY PatchedTags DEF Tagged
      <4>2. {t \in Tabs : t \in it.tags} = it.tags
        BY <4>1
      <4> QED BY <4>1, <4>2 DEF Materialised
    <3> QED BY <2>3, <3>1
  <2>5. GenerationEvent(Book.items, o, to, 1 + m)
          = ItemAdded(o[(1 + m) - 1], Materialised(Book.items[o[(1 + m) - 1]]))
    BY <2>1 DEF GenerationEvent
  <2> QED BY <1>2, <2>1, <2>4, <2>5
<1>5. ASSUME NEW m \in 1 .. Len(to)
      PROVE  g[1 + Len(o) + m].event = TabCreated(to[m])
  <2>1. /\ 1 + Len(o) + m \in 1 .. n /\ 1 + Len(o) + m \notin 2 .. (1 + Len(o))
        /\ (1 + Len(o) + m) - 1 - Len(o) = m /\ 1 + Len(o) + m # 1
    BY <1>1
  <2>2. GenerationEvent(Book.items, o, to, 1 + Len(o) + m)
          = TabCreated(to[(1 + Len(o) + m) - 1 - Len(o)])
    BY <2>1 DEF GenerationEvent
  <2> QED BY <1>2, <2>1, <2>2
<1> QED BY <1>3, <1>4, <1>5 DEF g

(* Replaying a generation gives the book without the items let go.         *)
LEMMA GenerationReplays ==
  ASSUME IInv, up, NEW requested \in SUBSET Items,
         NEW o \in AddOrders(KeptItems(requested)), NEW to \in TabOrders(KeptTabs)
  PROVE  Replay(Generation(o, to))
           = [items |-> [i \in KeptItems(requested) |-> Book.items[i]], tabs |-> Book.tabs]
<1> DEFINE g == Generation(o, to)
           ItemsOf(D) == [i \in D |-> Book.items[i]]
<1>1. /\ Len(o) \in Nat /\ Len(to) \in Nat
      /\ g \in Seq(Line) /\ Len(g) = 1 + Len(o) + Len(to)
  BY IInvParts, GenerationType
<1>2. g # <<>> => Verifies(g, g[1].seq)
  BY GenerationVerifies
<1>3. /\ g[1].event = Checkpoint
      /\ \A m \in 1 .. Len(o) : g[1 + m].event = ItemAdded(o[m], Book.items[o[m]])
      /\ \A m \in 1 .. Len(to) : g[1 + Len(o) + m].event = TabCreated(to[m])
  BY GenerationEvents
<1> HIDE DEF g
<1>4. PICK f : Books(g, f) /\ Replay(g) = f[Len(g)]
  BY <1>1, <1>2, ReplayIs
<1>5. f[0] = EmptyBook /\ \A k \in 1 .. Len(g) : f[k] = ApplyEvent(f[k - 1], g[k].event)
  BY <1>1, <1>4, BooksAt
<1> DEFINE ItemsIn(m) == [items |-> ItemsOf({o[j] : j \in 1 .. m}), tabs |-> {}]
           S == {m \in Nat : m <= Len(o) => f[1 + m] = ItemsIn(m)}
<1>6. 0 \in S
  <2>1. 1 \in 1 .. Len(g)
    BY <1>1
  <2>2. f[1] = ApplyEvent(f[1 - 1], g[1].event)
    BY <1>5, <2>1
  <2>3. f[1] = ApplyEvent(EmptyBook, Checkpoint)
    BY <1>3, <1>5, <2>2
  <2>4. f[1] = EmptyBook
    BY <2>3, EmptyBookIs, Applied DEF IsBook
  <2>5. ItemsIn(0) = EmptyBook
    <3>1. {o[j] : j \in 1 .. 0} = {}
      OBVIOUS
    <3>2. ItemsOf({}) = <<>>
      OBVIOUS
    <3> QED BY <3>1, <3>2 DEF EmptyBook
  <2> HIDE DEF ItemsIn
  <2>6. 1 + 0 = 1
    OBVIOUS
  <2>7. f[1 + 0] = ItemsIn(0)
    BY <2>4, <2>5, <2>6
  <2> QED BY <2>7
<1>7. ASSUME NEW m \in Nat, m \in S
      PROVE  m + 1 \in S
  <2>1. ASSUME m + 1 <= Len(o)
        PROVE  f[1 + (m + 1)] = ItemsIn(m + 1)
    <3>1. /\ m + 1 \in 1 .. Len(o) /\ 1 + (m + 1) \in 1 .. Len(g)
          /\ (1 + (m + 1)) - 1 = 1 + m /\ f[1 + m] = ItemsIn(m)
      BY <1>1, <1>7, <2>1
    <3> DEFINE x == o[m + 1]
               D == {o[j] : j \in 1 .. m}
    <3>2. f[1 + (m + 1)] = ApplyEvent(f[(1 + (m + 1)) - 1], g[1 + (m + 1)].event)
      BY <1>5, <3>1
    <3>3. f[1 + (m + 1)] = ApplyEvent(ItemsIn(m), ItemAdded(x, Book.items[x]))
      BY <1>3, <3>1, <3>2
    <3>4. ApplyEvent(ItemsIn(m), ItemAdded(x, Book.items[x]))
            = [items |-> With(ItemsOf(D), x, Book.items[x]), tabs |-> {}]
      <4> DEFINE b == ItemsIn(m)
      <4>1. b = [items |-> b.items, tabs |-> b.tabs] /\ b.items = ItemsOf(D) /\ b.tabs = {}
        OBVIOUS
      <4> DEFINE v == Book.items[x]
      <4> HIDE DEF b, x, D, ItemsOf, v
      <4>2. ApplyEvent(b, ItemAdded(x, v)) = [items |-> With(b.items, x, v), tabs |-> b.tabs]
        BY <4>1, Applied
      <4>3. ApplyEvent(b, ItemAdded(x, Book.items[x]))
              = [items |-> With(ItemsOf(D), x, Book.items[x]), tabs |-> {}]
        BY <4>1, <4>2 DEF v
      <4> QED BY <4>3 DEF b
    <3>5. {o[j] : j \in 1 .. m + 1} = D \cup {x}
      <4>1. 1 .. m + 1 = (1 .. m) \cup {m + 1}
        OBVIOUS
      <4> QED BY <4>1
    <3>6. With(ItemsOf(D), x, Book.items[x]) = ItemsOf(D \cup {x})
      <4> HIDE DEF D, x
      <4> QED BY DEF With
    <3> QED BY <3>3, <3>4, <3>5, <3>6
  <2> QED BY <2>1
<1>8. f[1 + Len(o)] = [items |-> ItemsOf(KeptItems(requested)), tabs |-> {}]
  <2>1. Len(o) \in S
    <3> HIDE DEF S
    <3> QED BY <1>1, <1>6, <1>7, Induction
  <2>2. {o[j] : j \in 1 .. Len(o)} = KeptItems(requested)
    BY Ordered
  <2>3. f[1 + Len(o)] = ItemsIn(Len(o))
    BY <1>1, <2>1
  <2> HIDE DEF ItemsOf
  <2> QED BY <2>2, <2>3
<1> DEFINE kept == ItemsOf(KeptItems(requested))
           TabsIn(m) == [items |-> kept, tabs |-> {to[j] : j \in 1 .. m}]
           R == {m \in Nat : m <= Len(to) => f[1 + Len(o) + m] = TabsIn(m)}
<1>9. 0 \in R
  <2>1. {to[j] : j \in 1 .. 0} = {}
    OBVIOUS
  <2>2. 1 + Len(o) + 0 = 1 + Len(o)
    BY <1>1
  <2> HIDE DEF kept
  <2>3. f[1 + Len(o)] = TabsIn(0)
    BY <1>8, <2>1 DEF kept
  <2> QED BY <2>2, <2>3
<1>10. ASSUME NEW m \in Nat, m \in R
       PROVE  m + 1 \in R
  <2> HIDE DEF kept
  <2>1. ASSUME m + 1 <= Len(to)
        PROVE  f[1 + Len(o) + (m + 1)] = TabsIn(m + 1)
    <3> DEFINE k == 1 + Len(o) + (m + 1)
               x == to[m + 1]
    <3>1. /\ m + 1 \in 1 .. Len(to) /\ k \in 1 .. Len(g)
          /\ k - 1 = 1 + Len(o) + m /\ f[1 + Len(o) + m] = TabsIn(m)
      BY <1>1, <1>10, <2>1
    <3>2. f[k] = ApplyEvent(TabsIn(m), TabCreated(x))
      BY <1>3, <1>5, <3>1
    <3>3. ApplyEvent(TabsIn(m), TabCreated(x))
            = [items |-> kept, tabs |-> {to[j] : j \in 1 .. m} \cup {x}]
      <4> DEFINE b == TabsIn(m)
      <4>1. /\ b = [items |-> b.items, tabs |-> b.tabs]
            /\ b.items = kept /\ b.tabs = {to[j] : j \in 1 .. m}
        OBVIOUS
      <4> HIDE DEF b, x
      <4>2. ApplyEvent(b, TabCreated(x)) = [items |-> b.items, tabs |-> b.tabs \cup {x}]
        BY <4>1, Applied
      <4>3. ApplyEvent(b, TabCreated(x))
              = [items |-> kept, tabs |-> {to[j] : j \in 1 .. m} \cup {x}]
        BY <4>1, <4>2
      <4> QED BY <4>3 DEF b
    <3>4. {to[j] : j \in 1 .. m + 1} = {to[j] : j \in 1 .. m} \cup {x}
      <4>1. 1 .. m + 1 = (1 .. m) \cup {m + 1}
        OBVIOUS
      <4> QED BY <4>1
    <3> QED BY <3>2, <3>3, <3>4
  <2> QED BY <2>1
<1>11. Len(to) \in R
  <2> HIDE DEF R
  <2> QED BY <1>1, <1>9, <1>10, Induction
<1>12. {to[j] : j \in 1 .. Len(to)} = Book.tabs
  <2>1. KeptTabs = Book.tabs
    BY BookIs DEF KeptTabs, IsBook
  <2> QED BY <2>1, Ordered
<1>13. Replay(g) = [items |-> kept, tabs |-> Book.tabs]
  <2> HIDE DEF kept
  <2>1. f[1 + Len(o) + Len(to)] = TabsIn(Len(to))
    BY <1>1, <1>11
  <2>2. TabsIn(Len(to)) = [items |-> kept, tabs |-> Book.tabs]
    BY <1>12
  <2> HIDE DEF TabsIn
  <2> QED BY <1>1, <1>4, <2>1, <2>2
<1> QED BY <1>13 DEF g

(* What a step does to the book.                                           *)
LEMMA BookSame == lines' = lines => Book' = Book
BY DEF Book

LEMMA BookAppended ==
  ASSUME IInv, up, NEW e \in Event, WriteLine(e)
  PROVE  Book' = ApplyEvent(Book, e)
<1>1. lines' = Append(lines, NextLine(e)) /\ lines # <<>> /\ lines \in Seq(Line)
  BY IInvParts DEF WriteLine
<1>2. NextLine(e) \in Line
  BY IInvParts, NextLineType
<1>3. NextLine(e).event = e
  BY DEF NextLine, Sealed
<1>4. lines # <<>> => Verifies(lines, lines[1].seq)
  BY IInvParts
<1>5. Append(lines, NextLine(e))[1] = lines[1]
  BY <1>1, <1>2
<1>6. Verifies(Append(lines, NextLine(e)), lines[1].seq)
  BY NextLineVerifies
<1>7. Replay(Append(lines, NextLine(e))) = ApplyEvent(Replay(lines), NextLine(e).event)
  BY <1>1, <1>2, <1>4, <1>5, <1>6, ReplayAppend
<1> QED BY <1>1, <1>3, <1>7 DEF Book

LEMMA BookSwitched ==
  ASSUME IInv, up, NEW requested \in SUBSET Items,
         NEW o \in AddOrders(KeptItems(requested)), NEW to \in TabOrders(KeptTabs),
         Switch(o, to)
  PROVE  Book' = J!Kept(Book, requested)
<1>1. Book' = [items |-> [i \in KeptItems(requested) |-> Book.items[i]], tabs |-> Book.tabs]
  BY GenerationReplays DEF Switch, Book
<1>2. KeptItems(requested) = DOMAIN Book.items \cap requested
  BY DEF KeptItems
<1>3. ASSUME NEW b, b = [items |-> b.items, tabs |-> b.tabs]
      PROVE  J!Kept(b, requested)
               = [items |-> [i \in DOMAIN b.items \cap requested |-> b.items[i]], tabs |-> b.tabs]
  BY <1>3 DEF J!Kept
<1>4. Book = [items |-> Book.items, tabs |-> Book.tabs]
  BY BookIs DEF IsBook
<1> QED BY <1>1, <1>2, <1>3, <1>4

(* The log of a new store is an empty book.                                *)
LEMMA BookFresh ==
  ASSUME IInv, lines = <<>>, lines' = <<AnchorLine>>
  PROVE  Book = EmptyBook /\ Book' = EmptyBook
<1>1. AnchorLine \in Line
  BY IInvParts, AnchorLineType
<1>2. <<AnchorLine>> = Append(<<>>, AnchorLine)
  OBVIOUS
<1>3. AnchorLine.event = Checkpoint
  BY DEF AnchorLine, Sealed
<1>4. Verifies(<<AnchorLine>>, <<AnchorLine>>[1].seq)
  BY AnchorVerifies
<1>5. <<>> \in Seq(Line)
  OBVIOUS
<1>6. Replay(Append(<<>>, AnchorLine)) = ApplyEvent(Replay(<<>>), AnchorLine.event)
  BY <1>1, <1>2, <1>4, <1>5, ReplayAppend
<1>7. Replay(<<AnchorLine>>) = EmptyBook
  BY <1>2, <1>3, <1>6, ReplayEmpty, EmptyBookIs, Applied DEF IsBook
<1> QED BY <1>7, ReplayEmpty DEF Book

-----------------------------------------------------------------------------
(* The journal, step by step.                                              *)
LEMMA SameWords ==
  /\ J!Checkpoint = Checkpoint /\ J!EmptyBook = EmptyBook /\ J!NoReply = NoReply
  /\ \A b, e : J!ApplyEvent(b, e) = ApplyEvent(b, e)
BY DEF J!Checkpoint, Checkpoint, J!EmptyBook, EmptyBook, J!NoReply, NoReply,
       J!ApplyEvent, ApplyEvent, J!With, With, J!Without, Without, J!Patched, Patched,
       J!Merged, Merged, J!Untagged, Untagged

LEMMA JournalEvents == Callable \cup {Checkpoint} \subseteq J!Events
<1>1. Checkpoint \in J!Events
  BY SameWords DEF J!Events
<1>2. \A i \in Items : /\ ItemAdded(i, ItemOf({})) \in J!Events
                       /\ ItemDeleted(i) \in J!Events
                       /\ \A T \in SUBSET Tabs : ItemUpdated(i, ItemOf(T)) \in J!Events
  BY DEF J!Events, J!ItemOf, ItemOf, ItemAdded, ItemUpdated, ItemDeleted
<1>3. \A t \in Tabs : TabCreated(t) \in J!Events /\ TabDeleted(t) \in J!Events
  BY DEF J!Events, TabCreated, TabDeleted
<1> QED BY <1>1, <1>2, <1>3 DEF Callable

LEMMA JournalInit == Init => J!Init
<1> SUFFICES ASSUME Init PROVE J!Init
  OBVIOUS
<1>1. Book = EmptyBook
  BY ReplayEmpty DEF Book, Init
<1> QED BY <1>1, SameWords DEF Init, J!Init

(* A crash, the call it interrupts having taken effect or not.             *)
LEMMA JournalCrash ==
  ASSUME up, Die, Book' \in J!AfterCrash(Book)
  PROVE  J!Crash
BY SameWords DEF J!Crash, Die

LEMMA CrashUnnoticed ==
  ASSUME up, Die, lines' = lines
  PROVE  J!Crash
<1>1. Book' \in J!AfterCrash(Book)
  BY BookSame DEF J!AfterCrash
<1> QED BY <1>1, JournalCrash

LEMMA JournalStep ==
  ASSUME Faults \subseteq {"clean"}, IInv, [Next]_vars
  PROVE  [J!Next]_J!journal
<1>0. "torn" \notin Faults /\ "whole" \notin Faults /\ "short" \notin Faults
      /\ "renamed" \notin Faults /\ "undurable" \notin Faults
  OBVIOUS
<1>1. CASE OpenExisting
  <2>1. ~up /\ up' = TRUE /\ reply' = reply /\ Book' = Book
    BY <1>1, BookSame DEF OpenExisting
  <2> QED BY <2>1 DEF J!Next, J!Open
<1>2. CASE OpenFresh
  <2>1. ~up /\ up' = TRUE /\ reply' = reply /\ Book' = Book
    BY <1>2, BookFresh DEF OpenFresh
  <2> QED BY <2>1 DEF J!Next, J!Open
<1>3. CASE OpenFails
  <2>1. ~up /\ up' \in BOOLEAN /\ reply' = reply
    BY <1>3, IInvParts, TypeParts DEF OpenFails
  <2>2. lines = <<>> /\ (lines' = lines \/ lines' = <<AnchorLine>>)
    BY <1>3 DEF OpenFails
  <2>3. Book' = Book
    BY <2>2, BookSame, BookFresh
  <2> QED BY <2>1, <2>3 DEF J!Next, J!Open
<1>4. ASSUME NEW e \in Callable \cup {Checkpoint}, AppendStep(e)
      PROVE  J!Next
  <2>1. e \in Event /\ e \in J!Events
    BY CallableType, JournalEvents
  <2>2. CASE AppendEvent(e)
    <3>1. up /\ up' = up /\ reply' = Yes(e) /\ Book' = ApplyEvent(Book, e)
      BY <2>1, <2>2, BookAppended DEF AppendEvent
    <3>2. reply'.ok /\ reply'.call = e
      BY <3>1 DEF Yes
    <3> QED BY <2>1, <3>1, <3>2, SameWords DEF J!Next, J!Accept
  <2>3. CASE AppendRefused(e) \/ AppendFails(e)
    <3>1. up /\ up' = up /\ reply' = No("append") /\ lines' = lines
      BY <1>0, <2>3 DEF AppendRefused, AppendFails, WriteNone, disk
    <3>2. Book' = Book
      BY <3>1, BookSame
    <3> QED BY <3>1, <3>2 DEF J!Next, J!Refuse, No, J!No
  <2>4. CASE AppendShort(e)
    BY <1>0, <2>4 DEF AppendShort
  <2>5. CASE AppendCrashes(e)
    <3>1. up /\ Die /\ (lines' = lines \/ WriteLine(e))
      BY <2>5 DEF AppendCrashes, WriteNone, WriteSome
    <3>2. CASE lines' = lines
      BY <3>1, <3>2, CrashUnnoticed DEF J!Next
    <3>3. CASE WriteLine(e)
      <4>1. Book' = ApplyEvent(Book, e)
        BY <2>1, <3>1, <3>3, BookAppended
      <4>2. Book' \in J!AfterCrash(Book)
        BY <2>1, <4>1, SameWords DEF J!AfterCrash
      <4> QED BY <3>1, <4>2, JournalCrash DEF J!Next
    <3> QED BY <3>1, <3>2, <3>3
  <2> QED BY <1>4, <2>2, <2>3, <2>4, <2>5 DEF AppendStep
<1>5. ASSUME NEW b \in Blobs, BlobStep(b)
      PROVE  J!Next \/ UNCHANGED J!journal
  <2>1. \/ UNCHANGED <<lines, up, reply>>
        \/ up /\ Die /\ lines' = lines
    BY <1>5 DEF BlobStep, PutBlob, PutBlobFails, PutBlobCrashes, DeleteBlob, DeleteBlobFails,
                DeleteBlobCrashes
  <2>2. CASE UNCHANGED <<lines, up, reply>>
    BY <2>2, BookSame DEF J!journal
  <2>3. CASE up /\ Die /\ lines' = lines
    BY <2>3, CrashUnnoticed DEF J!Next
  <2> QED BY <2>1, <2>2, <2>3
<1>6. ASSUME NEW requested \in SUBSET Items, CompactStep(requested)
      PROVE  J!Next
  <2>1. CASE Compact(requested) \/ CompactGcFails(requested)
    <3>1. /\ up /\ up' = up /\ reply' \in {Compacted, No("blob GC failed")}
          /\ \E o \in AddOrders(KeptItems(requested)), to \in TabOrders(KeptTabs) : Switch(o, to)
      BY <2>1 DEF Compact, CompactGcFails, CanCompact
    <3>2. Book' = J!Kept(Book, requested)
      BY <3>1, BookSwitched
    <3>3. J!Compact(requested)
      BY <3>1, <3>2 DEF J!Compact, Compacted, J!Compacted, Yes, J!Yes, No, J!No
    <3> QED BY <3>3 DEF J!Next
  <2>2. CASE CompactWriteFails(requested)
    <3>1. up /\ up' = up /\ reply' = No("failed before rename") /\ lines' = lines
      BY <1>0, <2>2 DEF CompactWriteFails, CanCompact, WriteNone
    <3>2. Book' = Book
      BY <3>1, BookSame
    <3> QED BY <3>1, <3>2 DEF J!Next, J!NotCompacted, No, J!No
  <2>3. CASE CompactCrashes(requested)
    <3>1. up /\ Die
      BY <2>3 DEF CompactCrashes, CanCompact
    <3>2. \/ lines' = lines
          \/ \E o \in AddOrders(KeptItems(requested)), to \in TabOrders(KeptTabs) : Switch(o, to)
      BY <2>3 DEF CompactCrashes, WriteNone
    <3>3. CASE lines' = lines
      BY <3>1, <3>3, CrashUnnoticed DEF J!Next
    <3>4. CASE \E o \in AddOrders(KeptItems(requested)), to \in TabOrders(KeptTabs) : Switch(o, to)
      <4>1. Book' = J!Kept(Book, requested)
        BY <3>1, <3>4, BookSwitched
      <4>2. Book' \in J!AfterCrash(Book)
        BY <4>1 DEF J!AfterCrash
      <4> QED BY <3>1, <4>2, JournalCrash DEF J!Next
    <3> QED BY <3>2, <3>3, <3>4
  <2> QED BY <1>6, <2>1, <2>2, <2>3 DEF CompactStep
<1>7. CASE CompactRefused
  <2>1. up /\ up' = up /\ reply' = No("corrupt") /\ lines' = lines
    BY <1>7 DEF CompactRefused, disk
  <2>2. Book' = Book
    BY <2>1, BookSame
  <2> QED BY <2>1, <2>2 DEF J!Next, J!NotCompacted, No, J!No
<1>8. CASE Crash \/ Close
  <2>1. up /\ Die /\ lines' = lines
    BY <1>8 DEF Crash, Close, disk
  <2> QED BY <2>1, CrashUnnoticed DEF J!Next
<1>9. CASE UNCHANGED vars
  <2>1. UNCHANGED <<lines, up, reply>>
    BY <1>9 DEF vars
  <2> QED BY <2>1, BookSame DEF J!journal
<1> QED BY <1>1, <1>2, <1>3, <1>4, <1>5, <1>6, <1>7, <1>8, <1>9 DEF Next

(* Where failing calls leave nothing behind, the store is the journal that *)
(* packages/history builds on, across appends, compactions, crashes in the *)
(* middle of either, and restarts: an acknowledged event is applied once   *)
(* and stays, a refused one never is, and compaction lets go of the items  *)
(* it was not asked to keep and of nothing else.  (sealAndAppend, compact, *)
(* openStore and readAll, log-store.ts.)                                   *)
THEOREM StoreImplementsJournal ==
  ASSUME Faults \subseteq {"clean"}
  PROVE  Spec => ImplementsJournal
<1>1. IInv /\ [Next]_vars => [J!Next]_J!journal
  BY JournalStep
<1> QED BY <1>1, JournalInit, InductiveInvariant, PTL DEF Spec, ImplementsJournal, J!Spec

-----------------------------------------------------------------------------
(***************************************************************************)
(* Blobs.  The directory of an open store lacks no entry of a blob that is *)
(* there, so that a crash brings deleted ones back and takes none away.    *)
(***************************************************************************)
RefsInv == NoDanglingRefs /\ blobs \subseteq entries

LEMMA RefsInvInit == Init => RefsInv
BY ReplayEmpty, EmptyBookIs DEF Init, RefsInv, NoDanglingRefs, Book


LEMMA RefsAppended ==
  ASSUME IInv, RefsInv, up, NEW e \in Event, BlobsPresent(e), WriteLine(e),
         blobs \subseteq blobs', blobs' \subseteq entries'
  PROVE  RefsInv'
<1>1. Book' = ApplyEvent(Book, e)
  BY BookAppended
<1>2. \A i \in DOMAIN Book'.items : i \in DOMAIN Book.items \/ Refs[i] \subseteq blobs
  BY <1>1, BookIs, BookApplied DEF BlobsPresent
<1> QED BY <1>2 DEF RefsInv, NoDanglingRefs

LEMMA RefsSwitched ==
  ASSUME IInv, RefsInv, up, NEW requested \in SUBSET Items,
         NEW o \in AddOrders(KeptItems(requested)), NEW to \in TabOrders(KeptTabs),
         Switch(o, to),
         blobs \cap KeptRefs(requested) \subseteq blobs', blobs' \subseteq entries'
  PROVE  RefsInv'
<1>1. Book' = [items |-> [i \in KeptItems(requested) |-> Book.items[i]], tabs |-> Book.tabs]
  BY GenerationReplays DEF Switch, Book
<1>2. DOMAIN Book'.items = KeptItems(requested)
  BY <1>1
<1>3. \A i \in KeptItems(requested) : Refs[i] \subseteq blobs /\ Refs[i] \subseteq KeptRefs(requested)
  BY DEF KeptItems, KeptRefs, RefsInv, NoDanglingRefs
<1> QED BY <1>2, <1>3 DEF RefsInv, NoDanglingRefs

(* A crash keeps what is there.                                            *)
LEMMA RefsSurvive ==
  ASSUME RefsInv, NEW now, NEW S \in Survivors(now)
  PROVE  now \cap blobs \subseteq S
BY DEF RefsInv, Survivors

LEMMA RefsInvStep ==
  ASSUME Faults \subseteq {"clean"}, IInv, RefsInv, [Next]_vars
  PROVE  RefsInv'
<1>0. "torn" \notin Faults /\ "whole" \notin Faults /\ "short" \notin Faults
      /\ "renamed" \notin Faults /\ "undurable" \notin Faults
  OBVIOUS
<1>1. ASSUME lines' = lines, blobs' \subseteq entries',
             \A i \in DOMAIN Book.items : Refs[i] \subseteq blobs'
      PROVE  RefsInv'
  BY <1>1, BookSame DEF RefsInv, NoDanglingRefs
<1>2. CASE UNCHANGED <<lines, blobs, entries>>
  BY <1>1, <1>2 DEF RefsInv, NoDanglingRefs
<1>3. CASE OpenFresh \/ OpenFails
  <2>1. lines = <<>> /\ (lines' = lines \/ lines' = <<AnchorLine>>) /\ UNCHANGED <<blobs, entries>>
    BY <1>3 DEF OpenFresh, OpenFails
  <2>2. Book' = Book
    BY <2>1, BookSame, BookFresh
  <2> QED BY <2>1, <2>2 DEF RefsInv, NoDanglingRefs
<1>4. ASSUME NEW e \in Callable \cup {Checkpoint}, AppendStep(e)
      PROVE  RefsInv'
  <2>0. e \in Event
    BY CallableType
  <2>1. CASE AppendEvent(e)
    BY <2>0, <2>1, RefsAppended DEF AppendEvent, RefsInv
  <2>2. CASE AppendRefused(e) \/ AppendFails(e)
    BY <1>0, <1>2, <2>2 DEF AppendRefused, AppendFails, WriteNone, disk
  <2>3. CASE AppendShort(e)
    BY <1>0, <2>3 DEF AppendShort
  <2>4. CASE AppendCrashes(e)
    <3>1. /\ up /\ BlobsPresent(e) /\ (lines' = lines \/ WriteLine(e))
          /\ blobs' \in Survivors(blobs) /\ entries' = blobs'
      BY <2>4 DEF AppendCrashes, WriteNone, WriteSome
    <3>2. blobs \subseteq blobs'
      BY <3>1, RefsSurvive
    <3>3. CASE lines' = lines
      BY <1>1, <3>1, <3>2, <3>3 DEF RefsInv, NoDanglingRefs
    <3> QED BY <2>0, <3>1, <3>2, <3>3, RefsAppended
  <2> QED BY <1>4, <2>1, <2>2, <2>3, <2>4 DEF AppendStep
<1>5. ASSUME NEW b \in Blobs, BlobStep(b)
      PROVE  RefsInv'
  <2>1. CASE PutBlob(b)
    BY <1>1, <2>1 DEF PutBlob, RefsInv, NoDanglingRefs
  <2>2. CASE DeleteBlob(b)
    BY <1>1, <2>2 DEF DeleteBlob, Unreferenced, RefsInv, NoDanglingRefs
  <2>3. CASE PutBlobFails(b) \/ DeleteBlobFails(b)
    BY <1>0, <2>3 DEF PutBlobFails, DeleteBlobFails
  <2>4. CASE PutBlobCrashes(b)
    <3>1. blobs \subseteq blobs'
      BY <2>4, RefsSurvive DEF PutBlobCrashes
    <3> QED BY <1>1, <2>4, <3>1 DEF PutBlobCrashes, RefsInv, NoDanglingRefs
  <2>5. CASE DeleteBlobCrashes(b)
    <3>1. (blobs \ {b}) \subseteq blobs'
      BY <2>5, RefsSurvive DEF DeleteBlobCrashes
    <3> QED BY <1>1, <2>5, <3>1 DEF DeleteBlobCrashes, Unreferenced, RefsInv, NoDanglingRefs
  <2> QED BY <1>5, <2>1, <2>2, <2>3, <2>4, <2>5 DEF BlobStep
<1>6. ASSUME NEW requested \in SUBSET Items, CompactStep(requested)
      PROVE  RefsInv'
  <2>1. CASE Compact(requested) \/ CompactGcFails(requested)
    <3>1. /\ up /\ blobs \cap KeptRefs(requested) \subseteq blobs' /\ blobs' \subseteq entries'
          /\ \E o \in AddOrders(KeptItems(requested)), to \in TabOrders(KeptTabs) : Switch(o, to)
      BY <2>1 DEF Compact, CompactGcFails, CanCompact, RefsInv
    <3> QED BY <3>1, RefsSwitched
  <2>2. CASE CompactWriteFails(requested)
    BY <1>0, <1>2, <2>2 DEF CompactWriteFails, WriteNone
  <2>3. CASE CompactCrashes(requested)
    <3>1. up /\ entries' = blobs'
      BY <2>3 DEF CompactCrashes, CanCompact
    <3>2. CASE WriteNone /\ blobs' \in Survivors(blobs)
      <4>1. blobs \subseteq blobs'
        BY <3>2, RefsSurvive
      <4> QED BY <1>1, <3>1, <3>2, <4>1 DEF WriteNone, RefsInv, NoDanglingRefs
    <3>3. CASE /\ \E o \in AddOrders(KeptItems(requested)), to \in TabOrders(KeptTabs) :
                     Switch(o, to)
               /\ \E S \in SUBSET blobs : /\ blobs \cap KeptRefs(requested) \subseteq S
                                          /\ blobs' \in Survivors(S)
      <4>1. blobs \cap KeptRefs(requested) \subseteq blobs'
        BY <3>3, RefsSurvive
      <4> QED BY <3>1, <3>3, <4>1, RefsSwitched
    <3> QED BY <2>3, <3>2, <3>3 DEF CompactCrashes
  <2> QED BY <1>6, <2>1, <2>2, <2>3 DEF CompactStep
<1>7. CASE OpenExisting \/ CompactRefused \/ Close \/ UNCHANGED vars
  BY <1>2, <1>7 DEF OpenExisting, CompactRefused, Close, disk, vars
<1>8. CASE Crash
  <2>1. blobs \subseteq blobs'
    BY <1>8, RefsSurvive DEF Crash
  <2> QED BY <1>1, <1>8, <2>1 DEF Crash, RefsInv, NoDanglingRefs
<1> QED BY <1>3, <1>4, <1>5, <1>6, <1>7, <1>8 DEF Next

(* Every blob a live item names is on the disk, however the store crashes  *)
(* and restarts: a blob is durable before the record that names it, and    *)
(* only goes when no record does.  (append, putBlob, deleteBlob and the    *)
(* blob GC of compact, log-store.ts.)                                      *)
THEOREM NoNameLacksItsBlob ==
  ASSUME Faults \subseteq {"clean"}
  PROVE  Spec => []NoDanglingRefs
<1>1. RefsInv => NoDanglingRefs
  BY DEF RefsInv
<1>2. IInv /\ RefsInv /\ [Next]_vars => RefsInv'
  BY RefsInvStep
<1> QED BY <1>1, <1>2, RefsInvInit, InductiveInvariant, PTL DEF Spec

-----------------------------------------------------------------------------
(***************************************************************************)
(* Damage, whatever a failing call leaves behind.  Memory may then no      *)
(* longer be the file's, and lines be sealed for another place; but a line *)
(* that continues the chain from the anchor was sealed from a memory whose *)
(* sequence numbers are that anchor's.  So what authenticates in a row,    *)
(* which is what a compaction asks for, is all of it sound.                *)
(***************************************************************************)
Continues(l, anchor) ==
  /\ l.index >= 1 /\ l.aadSeq = l.seq /\ l.prev # <<>>
  /\ l.prev[1] = anchor.nonce => l.seq = anchor.seq + l.index

Stems ==
  /\ lines # <<>> => lines[1].nonce <= seals
  /\ \A k \in 2 .. Len(lines) : Continues(lines[k], lines[1])
  /\ up => /\ lines # <<>> /\ mem.tip # <<>> /\ mem.tip[1] <= seals
           /\ mem.tip[1] = lines[1].nonce => mem.anchorSeq = lines[1].seq

LEMMA LineFields ==
  ASSUME NEW ls \in Seq(Line), NEW k \in 1 .. Len(ls)
  PROVE  /\ ls[k] \in Line /\ ls[k].nonce \in Nat /\ ls[k].index \in Nat /\ ls[k].aadSeq \in Nat
         /\ ls[k].seq \in Nat /\ ls[k].prev \in Seq(Nat)
<1>1. ls[k] \in Line
  OBVIOUS
<1> QED BY <1>1 DEF Line

LEMMA Appended ==
  ASSUME NEW ls \in Seq(Line), NEW l \in Line
  PROVE  /\ Append(ls, l) \in Seq(Line) /\ Append(ls, l) # <<>>
         /\ Len(Append(ls, l)) = Len(ls) + 1 /\ Len(ls) \in Nat
         /\ \A k \in 1 .. Len(ls) : Append(ls, l)[k] = ls[k]
         /\ Append(ls, l)[Len(ls) + 1] = l
OBVIOUS

(* The line an open store seals continues the chain it remembers.          *)
LEMMA NextLineContinues ==
  ASSUME TypeOK, Stems, up, NEW e \in Event
  PROVE  Continues(NextLine(e), lines[1]) /\ Continues(Glued(NextLine(e)), lines[1])
<1>1. /\ mem.lineCount \in Nat /\ mem.lineCount >= 1 /\ mem.anchorSeq \in Nat
      /\ mem.tip # <<>> /\ (mem.tip[1] = lines[1].nonce => mem.anchorSeq = lines[1].seq)
  BY MemType DEF Stems
<1>2. MaxSeq + 1 = mem.anchorSeq + mem.lineCount
  BY <1>1 DEF MaxSeq
<1>3. /\ NextLine(e).index = mem.lineCount /\ NextLine(e).seq = mem.anchorSeq + mem.lineCount
      /\ NextLine(e).aadSeq = NextLine(e).seq /\ NextLine(e).prev = mem.tip
  BY <1>1, <1>2 DEF NextLine, Sealed
<1>4. /\ Glued(NextLine(e)).index = NextLine(e).index
      /\ Glued(NextLine(e)).seq = NextLine(e).seq
      /\ Glued(NextLine(e)).aadSeq = NextLine(e).aadSeq
      /\ Glued(NextLine(e)).prev = NextLine(e).prev
  BY DEF Glued, NextLine, Sealed
<1> QED BY <1>1, <1>3, <1>4 DEF Continues

LEMMA StemsWritten ==
  ASSUME TypeOK, Stems, up, NEW e \in Event, WriteLine(e)
  PROVE  /\ \E l \in Line : lines' = Append(lines, l)
         /\ lines' # <<>> /\ lines'[1] = lines[1] /\ seals' = seals + 1 /\ seals \in Nat
         /\ lines'[1].nonce <= seals'
         /\ \A k \in 2 .. Len(lines') : Continues(lines'[k], lines'[1])
<1>1. PICK l \in Line : lines' = Append(lines, l) /\ Continues(l, lines[1])
  BY NextLineType, NextLineContinues DEF WriteLine
<1>2. lines \in Seq(Line) /\ lines # <<>> /\ lines[1].nonce <= seals
      /\ \A k \in 2 .. Len(lines) : Continues(lines[k], lines[1])
  BY TypeParts DEF Stems
<1>3. /\ lines' # <<>> /\ Len(lines') = Len(lines) + 1 /\ Len(lines) \in Nat
      /\ \A k \in 1 .. Len(lines) : lines'[k] = lines[k]
      /\ lines'[Len(lines) + 1] = l
  BY <1>1, <1>2, Appended
<1>4. lines'[1] = lines[1] /\ lines[1].nonce \in Nat
  BY <1>2, <1>3, LineFields
<1>5. seals' = seals + 1 /\ seals \in Nat
  BY TypeParts DEF WriteLine
<1>6. ASSUME NEW k \in 2 .. Len(lines')
      PROVE  Continues(lines'[k], lines'[1])
  <2>1. CASE k = Len(lines) + 1
    BY <1>1, <1>3, <1>4, <2>1
  <2>2. CASE k # Len(lines) + 1
    <3>1. k \in 1 .. Len(lines) /\ k \in 2 .. Len(lines)
      BY <1>3, <2>2
    <3> QED BY <1>2, <1>3, <1>4, <3>1
  <2> QED BY <2>1, <2>2
<1> QED BY <1>1, <1>2, <1>3, <1>4, <1>5, <1>6

(* A generation is a chain of its own, from an anchor with a fresh nonce.  *)
LEMMA StemsSwitched ==
  ASSUME TypeOK, Stems, up, NEW requested \in SUBSET Items,
         NEW o \in AddOrders(KeptItems(requested)), NEW to \in TabOrders(KeptTabs),
         Switch(o, to)
  PROVE  /\ lines' # <<>> /\ lines'[1].nonce = seals + 1 /\ lines'[1].seq = MaxSeq + 1
         /\ seals' \in Nat /\ seals \in Nat /\ seals' >= seals + 1
         /\ \A k \in 2 .. Len(lines') : Continues(lines'[k], lines'[1])
         /\ ChainTip(lines') # <<>> /\ ChainTip(lines')[1] = seals + 1
<1> DEFINE n == 1 + Len(o) + Len(to)
<1>1. /\ Len(o) \in Nat /\ Len(to) \in Nat
      /\ lines' = Generation(o, to) /\ lines' \in Seq(Line) /\ Len(lines') = n
  BY GenerationType DEF Switch
<1>2. MaxSeq + 1 \in Nat /\ seals \in Nat /\ seals' = seals + n
  BY <1>1, MemType, TypeParts DEF Switch
<1>3. ASSUME NEW k \in 1 .. n
      PROVE  /\ lines'[k].nonce = seals + k /\ lines'[k].seq = MaxSeq + 1 + k - 1
             /\ lines'[k].index = k - 1
             /\ lines'[k].aadSeq = IF k - 1 = 0 THEN 0 ELSE MaxSeq + 1 + k - 1
             /\ lines'[k].prev = [j \in 1 .. (k - 1) |-> seals + j]
  <2> DEFINE q == MaxSeq + 1 + k - 1
             p == [j \in 1 .. (k - 1) |-> seals + j]
             e == GenerationEvent(Book.items, o, to, k)
  <2>1. lines'[k] = Sealed(seals + k, k - 1, q, p, e)
    BY <1>1 DEF Generation
  <2> HIDE DEF q, p, e
  <2>2. /\ lines'[k].nonce = seals + k /\ lines'[k].seq = q /\ lines'[k].index = k - 1
        /\ lines'[k].aadSeq = (IF k - 1 = 0 THEN 0 ELSE q) /\ lines'[k].prev = p
    BY <2>1 DEF Sealed, AnchorAadSeq
  <2> QED BY <2>2 DEF q, p
<1>4. 1 \in 1 .. n
  BY <1>1
<1>5. lines'[1].nonce = seals + 1 /\ lines'[1].seq = MaxSeq + 1
  <2>1. lines'[1].nonce = seals + 1 /\ lines'[1].seq = MaxSeq + 1 + 1 - 1
    BY <1>3, <1>4
  <2> QED BY <1>2, <2>1
<1>6. ASSUME NEW k \in 2 .. n
      PROVE  Continues(lines'[k], lines'[1])
  <2>1. k \in 1 .. n /\ k - 1 >= 1 /\ k - 1 # 0 /\ 1 \in 1 .. (k - 1)
    BY <1>1
  <2>2. lines'[k].prev = [j \in 1 .. (k - 1) |-> seals + j]
    BY <1>3, <2>1
  <2>3. lines'[k].prev # <<>>
    <3>1. DOMAIN lines'[k].prev = 1 .. (k - 1) /\ DOMAIN <<>> = {}
      BY <2>2
    <3> QED BY <2>1, <3>1
  <2>4. /\ lines'[k].index = k - 1 /\ lines'[k].seq = MaxSeq + 1 + k - 1
        /\ lines'[k].aadSeq = lines'[k].seq
    BY <1>3, <2>1
  <2>5. lines'[k].seq = lines'[1].seq + lines'[k].index
    BY <1>2, <1>5, <2>4
  <2> QED BY <2>1, <2>3, <2>4, <2>5 DEF Continues
<1>7. ChainTip(lines') # <<>> /\ ChainTip(lines')[1] = seals + 1
  <2>1. Len(ChainTip(lines')) = n /\ ChainTip(lines')[1] = lines'[1].nonce
    BY <1>1, <1>4, ChainTipType
  <2>2. Len(<<>>) = 0 /\ n # 0
    BY <1>1
  <2> QED BY <1>5, <2>1, <2>2
<1>8. lines' # <<>> /\ seals' \in Nat /\ seals' >= seals + 1
  BY <1>1, <1>2
<1> QED BY <1>1, <1>2, <1>5, <1>6, <1>7, <1>8

LEMMA StemsInit == Init => Stems
BY DEF Init, Stems

(* With the log as it is, ...                                              *)
LEMMA StemsIdle ==
  ASSUME TypeOK, Stems, lines' = lines, seals' >= seals, seals' \in Nat,
         up' => up /\ mem'.anchorSeq = mem.anchorSeq /\ mem'.tip # <<>> /\ mem'.tip[1] = mem.tip[1]
  PROVE  Stems'
<1>1. seals \in Nat /\ (lines # <<>> => lines[1].nonce \in Nat) /\ (up => mem.tip \in Seq(Nat))
  BY TypeParts, MemType, LineFields
<1>2. up => mem.tip[1] \in Nat
  BY <1>1 DEF Stems
<1> QED BY <1>1, <1>2 DEF Stems

(* ... with a line more, ...                                               *)
LEMMA StemsExtended ==
  ASSUME TypeOK, Stems, up, NEW e \in Event, WriteLine(e),
         up' => mem'.anchorSeq = mem.anchorSeq /\ mem'.tip # <<>> /\ mem'.tip[1] = mem.tip[1]
  PROVE  Stems'
<1>1. /\ lines' # <<>> /\ lines'[1] = lines[1] /\ seals' = seals + 1 /\ seals \in Nat
      /\ lines'[1].nonce <= seals'
      /\ \A k \in 2 .. Len(lines') : Continues(lines'[k], lines'[1])
  BY StemsWritten
<1>2. mem.tip[1] \in Nat
  BY MemType DEF Stems
<1> QED BY <1>1, <1>2 DEF Stems

(* ... and with another generation in its place.                           *)
LEMMA StemsReplaced ==
  ASSUME TypeOK, Stems, up, NEW requested \in SUBSET Items,
         NEW o \in AddOrders(KeptItems(requested)), NEW to \in TabOrders(KeptTabs),
         Switch(o, to), up' => Adopt(o, to) \/ mem' = mem
  PROVE  Stems'
<1>1. /\ lines' # <<>> /\ lines'[1].nonce = seals + 1 /\ lines'[1].seq = MaxSeq + 1
      /\ seals' \in Nat /\ seals \in Nat /\ seals' >= seals + 1
      /\ \A k \in 2 .. Len(lines') : Continues(lines'[k], lines'[1])
      /\ ChainTip(lines') # <<>> /\ ChainTip(lines')[1] = seals + 1
  BY StemsSwitched
<1>2. ASSUME up', Adopt(o, to)
      PROVE  mem'.tip = ChainTip(lines') /\ mem'.anchorSeq = MaxSeq + 1
  BY <1>2 DEF Adopt, Switch
<1>3. mem.tip # <<>> /\ mem.tip[1] <= seals /\ mem.tip[1] \in Nat
  BY MemType DEF Stems
<1> QED BY <1>1, <1>2, <1>3 DEF Stems

LEMMA Advanced ==
  ASSUME TypeOK, Stems, up, NEW e \in Event, Advance(e)
  PROVE  mem'.anchorSeq = mem.anchorSeq /\ mem'.tip # <<>> /\ mem'.tip[1] = mem.tip[1]
<1>1. mem.tip \in Seq(Nat) /\ mem.tip # <<>> /\ NextLine(e).nonce \in Nat
  BY MemType, NextLineType DEF Stems, Line
<1>2. mem'.anchorSeq = mem.anchorSeq /\ mem'.tip = Append(mem.tip, NextLine(e).nonce)
  BY MemType DEF Advance, ChainNext
<1>3. \A s \in Seq(Nat), n \in Nat : s # <<>> => Append(s, n) # <<>> /\ Append(s, n)[1] = s[1]
  OBVIOUS
<1> QED BY <1>1, <1>2, <1>3

LEMMA AnchorStems ==
  ASSUME TypeOK, lines' = <<AnchorLine>>, seals' = seals + 1,
         up' => mem'.anchorSeq = 1 /\ mem'.tip = ChainNext(ChainGenesis, AnchorLine)
  PROVE  Stems'
<1>1. seals \in Nat /\ AnchorLine.nonce = seals + 1 /\ AnchorLine.seq = 1
  BY TypeParts DEF AnchorLine, Sealed
<1>2. lines' # <<>> /\ lines'[1] = AnchorLine /\ Len(lines') = 1
  OBVIOUS
<1>3. ChainNext(ChainGenesis, AnchorLine) = <<seals + 1>>
  BY <1>1 DEF ChainNext, ChainGenesis
<1> QED BY <1>1, <1>2, <1>3 DEF Stems

LEMMA StemsStep ==
  ASSUME TypeOK, Stems, [Next]_vars
  PROVE  Stems'
<1>0. seals \in Nat /\ (up => mem.tip # <<>>)
  BY TypeParts DEF Stems
<1>1. CASE UNCHANGED <<lines, seals, mem>> /\ (up' = up \/ ~up')
  BY <1>0, <1>1, StemsIdle
<1>2. CASE UNCHANGED <<lines, seals>> /\ Die
  BY <1>0, <1>2, StemsIdle DEF Die
<1>3. CASE OpenExisting
  <2>1. /\ lines \in Seq(Line) /\ lines # <<>> /\ lines' = lines /\ seals' = seals
        /\ mem'.anchorSeq = lines[1].seq /\ mem'.tip = ChainTip(lines)
    BY <1>3, TypeParts DEF OpenExisting
  <2>2. ChainTip(lines) # <<>> /\ ChainTip(lines)[1] = lines[1].nonce
    <3>1. Len(ChainTip(lines)) = Len(lines) /\ Len(lines) # 0 /\ 1 \in 1 .. Len(lines)
      BY <2>1, ChainTipType
    <3> QED BY <2>1, <3>1, ChainTipType
  <2> QED BY <2>1, <2>2 DEF Stems
<1>4. CASE OpenFresh
  BY <1>4, AnchorStems DEF OpenFresh
<1>5. CASE OpenFails
  <2>1. /\ ~up'
        /\ \/ UNCHANGED <<lines, seals, mem>>
           \/ lines' = <<AnchorLine>> /\ seals' = seals + 1
    BY <1>5 DEF OpenFails
  <2> QED BY <1>1, <2>1, AnchorStems
<1>6. ASSUME NEW e \in Callable \cup {Checkpoint}, AppendStep(e)
      PROVE  Stems'
  <2>0. e \in Event
    BY CallableType
  <2>1. CASE AppendEvent(e)
    BY <2>0, <2>1, Advanced, StemsExtended DEF AppendEvent
  <2>2. CASE AppendRefused(e)
    BY <1>1, <2>2 DEF AppendRefused, disk
  <2>3. CASE AppendFails(e)
    <3>1. UNCHANGED <<up, mem>> /\ up /\ (UNCHANGED <<lines, seals>> \/ WriteLine(e))
      BY <2>3 DEF AppendFails, WriteNone, WriteSome
    <3> QED BY <1>0, <1>1, <2>0, <3>1, StemsExtended
  <2>4. CASE AppendShort(e)
    <3>1. lines' = lines /\ seals' = seals + 1 /\ up /\ up' = up /\ Advance(e)
      BY <2>4 DEF AppendShort
    <3> QED BY <1>0, <2>0, <3>1, Advanced, StemsIdle
  <2>5. CASE AppendCrashes(e)
    <3>1. Die /\ up /\ ~up' /\ (UNCHANGED <<lines, seals>> \/ WriteLine(e))
      BY <2>5 DEF AppendCrashes, WriteNone, WriteSome, Die
    <3> QED BY <1>2, <2>0, <3>1, StemsExtended
  <2> QED BY <1>6, <2>1, <2>2, <2>3, <2>4, <2>5 DEF AppendStep
<1>7. ASSUME NEW b \in Blobs, BlobStep(b)
      PROVE  Stems'
  <2>1. UNCHANGED <<lines, seals>> /\ (UNCHANGED <<mem, up>> \/ Die)
    BY <1>7 DEF BlobStep, PutBlob, PutBlobFails, PutBlobCrashes, DeleteBlob, DeleteBlobFails,
                DeleteBlobCrashes
  <2> QED BY <1>1, <1>2, <2>1
<1>8. ASSUME NEW requested \in SUBSET Items, CompactStep(requested)
      PROVE  Stems'
  <2>1. CASE Compact(requested) \/ CompactGcFails(requested)
    <3>1. up /\ \E o \in AddOrders(KeptItems(requested)), to \in TabOrders(KeptTabs) :
                  Switch(o, to) /\ Adopt(o, to)
      BY <2>1 DEF Compact, CompactGcFails, CanCompact
    <3> QED BY <3>1, StemsReplaced
  <2>2. CASE CompactWriteFails(requested)
    <3>1. /\ up /\ UNCHANGED <<up, mem>>
          /\ \/ UNCHANGED <<lines, seals>>
             \/ \E o \in AddOrders(KeptItems(requested)), to \in TabOrders(KeptTabs) : Switch(o, to)
      BY <2>2 DEF CompactWriteFails, CanCompact, WriteNone
    <3> QED BY <1>1, <3>1, StemsReplaced
  <2>3. CASE CompactCrashes(requested)
    <3>1. /\ up /\ Die /\ ~up'
          /\ \/ UNCHANGED <<lines, seals>>
             \/ \E o \in AddOrders(KeptItems(requested)), to \in TabOrders(KeptTabs) : Switch(o, to)
      BY <2>3 DEF CompactCrashes, CanCompact, WriteNone, Die
    <3> QED BY <1>2, <3>1, StemsReplaced
  <2> QED BY <1>8, <2>1, <2>2, <2>3 DEF CompactStep
<1>9. CASE CompactRefused \/ Crash \/ Close \/ UNCHANGED vars
  <2>1. UNCHANGED <<lines, seals>> /\ (UNCHANGED <<mem, up>> \/ Die)
    BY <1>9 DEF CompactRefused, Crash, Close, disk, vars
  <2> QED BY <1>1, <1>2, <2>1
<1> QED BY <1>3, <1>4, <1>5, <1>6, <1>7, <1>8, <1>9 DEF Next

(* What authenticates in a row is sound.                                   *)
LEMMA CompactsSoundLogs ==
  ASSUME TypeOK, Stems, CanCompact
  PROVE  Verifies(lines, lines[1].seq)
<1>1. /\ up /\ lines # <<>> /\ lines \in Seq(Line) /\ mem.anchorSeq \in Nat
      /\ Len(lines) \in Nat /\ DOMAIN lines = 1 .. Len(lines)
  BY TypeParts, MemType DEF CanCompact, Stems
<1>2. ASSUME NEW k \in 1 .. Len(lines)
      PROVE  Accepted(lines, lines[1].seq, k)
  <2> DEFINE l == lines[k]
  <2>1. Authentic(lines, mem.anchorSeq, k)
    BY <1>1 DEF CanCompact
  <2>2. /\ l.whole /\ l.index = k - 1 /\ l.prev = ChainTip(SubSeq(lines, 1, k - 1))
        /\ l.aadSeq = IF k = 1 THEN 0 ELSE mem.anchorSeq + k - 1
    BY <2>1 DEF Authentic, Opens, AnchorAadSeq
  <2>3. CASE k = 1
    <3>1. lines[1].seq = lines[1].seq + k - 1
      BY <1>1, <2>3, LineFields
    <3> QED BY <2>2, <2>3, <3>1 DEF Accepted, Authentic, Opens, AnchorAadSeq
  <2>4. CASE k # 1
    <3>1. k \in 2 .. Len(lines) /\ k - 1 \in 0 .. Len(lines) /\ 1 \in 1 .. (k - 1)
      BY <1>1, <2>4
    <3>2. l.prev[1] = lines[1].nonce
      <4>1. l.prev = [j \in 1 .. (k - 1) |-> lines[j].nonce]
        BY <1>1, <2>2, <3>1, ChainUpTo
      <4> QED BY <3>1, <4>1
    <3>3. l.aadSeq = l.seq /\ l.seq = lines[1].seq + l.index
      BY <3>1, <3>2 DEF Stems, Continues
    <3>4. lines[1].seq \in Nat
      BY <1>1, LineFields
    <3>5. l.seq = lines[1].seq + k - 1
      BY <2>2, <3>1, <3>3, <3>4
    <3> QED BY <2>2, <2>4, <3>3, <3>5 DEF Accepted, Authentic, Opens, AnchorAadSeq
  <2> QED BY <2>3, <2>4
<1> QED BY <1>1, <1>2 DEF Verifies

(* A set of numbers has a smallest one.                                    *)
LEMMA Smallest ==
  ASSUME NEW n \in Nat, NEW P \in SUBSET (1 .. n), P # {}
  PROVE  Min(P) \in P /\ \A j \in P : Min(P) <= j
<1> DEFINE Q == {n + 1 - j : j \in P}
<1>1. Q \in SUBSET (1 .. n) /\ Q # {}
  <2>1. \A j \in P : n + 1 - j \in 1 .. n
    OBVIOUS
  <2>2. PICK j \in P : TRUE
    OBVIOUS
  <2>3. n + 1 - j \in Q
    OBVIOUS
  <2> QED BY <2>1, <2>3
<1>2. PICK m \in Q : \A j \in Q : j <= m
  <2> HIDE DEF Q
  <2> QED BY <1>1, Greatest
<1>3. PICK x \in P : m = n + 1 - x
  BY <1>2
<1>4. \A j \in P : x <= j
  BY <1>2, <1>3
<1> QED BY <1>3, <1>4 DEF Min

(* The first records that are accepted, and no more.                       *)
LEMMA ReadLenIs ==
  ASSUME NEW ls \in Seq(Line)
  PROVE  /\ ReadLen(ls) \in 0 .. Len(ls)
         /\ \A k \in 1 .. ReadLen(ls) : Accepted(ls, ls[1].seq, k)
         /\ ReadLen(ls) < Len(ls) => ~Accepted(ls, ls[1].seq, ReadLen(ls) + 1)
<1> DEFINE bad == {k \in DOMAIN ls : ~Accepted(ls, ls[1].seq, k)}
<1>1. Len(ls) \in Nat /\ DOMAIN ls = 1 .. Len(ls)
  OBVIOUS
<1>2. CASE bad = {}
  <2>1. ReadLen(ls) = Len(ls)
    BY <1>2 DEF ReadLen
  <2> QED BY <1>1, <1>2, <2>1
<1>3. CASE bad # {}
  <2>1. ReadLen(ls) = Min(bad) - 1
    BY <1>3 DEF ReadLen
  <2>2. bad \in SUBSET (1 .. Len(ls))
    BY <1>1
  <2> HIDE DEF bad
  <2>3. Min(bad) \in bad /\ \A j \in bad : Min(bad) <= j
    BY <1>1, <1>3, <2>2, Smallest
  <2>4. Min(bad) \in 1 .. Len(ls)
    BY <2>2, <2>3
  <2>5. ReadLen(ls) \in 0 .. Len(ls) /\ ReadLen(ls) + 1 = Min(bad)
    BY <1>1, <2>1, <2>4
  <2>6. \A k \in 1 .. ReadLen(ls) : k \notin bad /\ k \in 1 .. Len(ls)
    BY <1>1, <2>3, <2>4, <2>5
  <2> QED BY <1>1, <2>3, <2>5, <2>6 DEF bad
<1> QED BY <1>2, <1>3

(* What is accepted does not depend on what follows.                       *)
LEMMA AcceptedBefore ==
  ASSUME NEW ls \in Seq(Line), NEW l \in Line, NEW a \in Nat, NEW k \in 1 .. Len(ls)
  PROVE  Accepted(Append(ls, l), a, k) <=> Accepted(ls, a, k)
<1> DEFINE new == Append(ls, l)
<1>1. /\ new \in Seq(Line) /\ k \in 1 .. Len(new) /\ new[k] = ls[k]
      /\ \A j \in 1 .. Len(ls) : new[j] = ls[j]
  BY Appended
<1>2. [j \in 1 .. (k - 1) |-> ls[j].nonce] = [j \in 1 .. (k - 1) |-> new[j].nonce]
  BY <1>1
<1> HIDE DEF new
<1>3. InPlace(ls, a, k) <=> InPlace(new, a, k)
  BY <1>1, <1>2 DEF InPlace
<1>4. Accepted(new, a, k) <=> Accepted(ls, a, k)
  BY <1>1, <1>3, AcceptedByField
<1> QED BY <1>4 DEF new

LEMMA DamageAppended ==
  ASSUME NEW ls \in Seq(Line), NEW l \in Line
  PROVE  /\ IsPrefix(ls, Append(ls, l)) /\ ReadLen(Append(ls, l)) >= ReadLen(ls)
         /\ Broken(ls) => Broken(Append(ls, l))
<1> DEFINE new == Append(ls, l)
<1>1. /\ new \in Seq(Line) /\ new # <<>> /\ Len(new) = Len(ls) + 1 /\ Len(ls) \in Nat
      /\ \A k \in 1 .. Len(ls) : new[k] = ls[k]
  BY Appended
<1>2. IsPrefix(ls, new)
  <2>1. SubSeq(ls, 1, Len(ls)) = SubSeq(new, 1, Len(ls))
    BY <1>1
  <2> QED BY <1>1, <2>1 DEF IsPrefix
<1>3. ls # <<>> => new[1] = ls[1] /\ ls[1].seq \in Nat
  BY <1>1, LineFields
<1>4. ASSUME NEW k \in 1 .. Len(ls)
      PROVE  Accepted(new, new[1].seq, k) <=> Accepted(ls, ls[1].seq, k)
  BY <1>1, <1>3, AcceptedBefore
<1> HIDE DEF new
<1>5. ReadLen(new) >= ReadLen(ls)
  <2>1. ReadLen(new) \in 0 .. Len(new) /\ ReadLen(ls) \in 0 .. Len(ls)
    BY <1>1, ReadLenIs
  <2>2. ASSUME ReadLen(new) < ReadLen(ls)
        PROVE  FALSE
    <3> DEFINE k == ReadLen(new) + 1
    <3>1. k \in 1 .. ReadLen(ls) /\ k \in 1 .. Len(ls) /\ ReadLen(new) < Len(new)
      BY <1>1, <2>1, <2>2
    <3>2. ~Accepted(new, new[1].seq, k)
      BY <1>1, <3>1, ReadLenIs
    <3>3. Accepted(ls, ls[1].seq, k)
      BY <3>1, ReadLenIs
    <3> HIDE DEF k
    <3> QED BY <1>4, <3>1, <3>2, <3>3
  <2> QED BY <2>1, <2>2
<1>6. Broken(ls) => Broken(new)
  <2>1. DOMAIN ls = 1 .. Len(ls) /\ \A k \in 1 .. Len(ls) : k \in DOMAIN new
    BY <1>1
  <2> QED BY <1>1, <1>4, <2>1 DEF Broken, Verifies
<1> QED BY <1>2, <1>5, <1>6 DEF new

LEMMA DamageStep ==
  ASSUME TypeOK, Stems, [Next]_vars, lines' # lines
  PROVE  /\ \/ IsPrefix(lines, lines') /\ ReadLen(lines') >= ReadLen(lines)
            \/ lines' # <<>> /\ lines'[1].nonce > lines[1].nonce
         /\ Broken(lines) => Broken(lines')
<1>1. ASSUME up, NEW e \in Event, WriteLine(e)
      PROVE  \E l \in Line : lines' = Append(lines, l)
  BY <1>1, StemsWritten
<1>2. ASSUME NEW l \in Line, lines' = Append(lines, l)
      PROVE  /\ IsPrefix(lines, lines') /\ ReadLen(lines') >= ReadLen(lines)
             /\ Broken(lines) => Broken(lines')
  BY <1>2, DamageAppended, TypeParts
<1>3. ASSUME CanCompact, NEW requested \in SUBSET Items,
             NEW o \in AddOrders(KeptItems(requested)), NEW to \in TabOrders(KeptTabs),
             Switch(o, to)
      PROVE  /\ lines' # <<>> /\ lines'[1].nonce > lines[1].nonce
             /\ ~Broken(lines)
  <2>1. up /\ lines # <<>> /\ lines[1].nonce \in Nat /\ lines[1].nonce <= seals
    BY <1>3, TypeParts, LineFields DEF CanCompact, Stems
  <2>2. lines' # <<>> /\ lines'[1].nonce = seals + 1 /\ seals \in Nat
    BY <1>3, <2>1, StemsSwitched
  <2>3. ~Broken(lines)
    BY <1>3, CompactsSoundLogs DEF Broken
  <2> QED BY <2>1, <2>2, <2>3
<1>4. CASE OpenFresh \/ OpenFails
  <2>1. lines = <<>> /\ lines' = <<AnchorLine>>
    BY <1>4 DEF OpenFresh, OpenFails
  <2>2. AnchorLine \in Line
    BY TypeParts, AnchorLineType
  <2>3. lines' = Append(lines, AnchorLine)
    BY <2>1
  <2> QED BY <1>2, <2>2, <2>3
<1>5. ASSUME NEW e \in Callable \cup {Checkpoint}, AppendStep(e)
      PROVE  up /\ WriteLine(e) /\ e \in Event
  <2>1. e \in Event
    BY CallableType
  <2> QED BY <1>5, <2>1
          DEF AppendStep, AppendEvent, AppendRefused, AppendFails, AppendShort, AppendCrashes,
              WriteNone, WriteSome, disk
<1>6. ASSUME NEW requested \in SUBSET Items, CompactStep(requested)
      PROVE  /\ CanCompact
             /\ \E o \in AddOrders(KeptItems(requested)), to \in TabOrders(KeptTabs) : Switch(o, to)
  BY <1>6 DEF CompactStep, Compact, CompactGcFails, CompactWriteFails, CompactCrashes, WriteNone
<1>7. ASSUME NEW b \in Blobs
      PROVE  ~BlobStep(b)
  BY DEF BlobStep, PutBlob, PutBlobFails, PutBlobCrashes, DeleteBlob, DeleteBlobFails,
         DeleteBlobCrashes
<1>8. ~OpenExisting /\ ~CompactRefused /\ ~Crash /\ ~Close /\ ~UNCHANGED vars
  BY DEF OpenExisting, CompactRefused, Crash, Close, disk, vars
<1>9. CASE \E e \in Callable \cup {Checkpoint} : AppendStep(e)
  BY <1>1, <1>2, <1>5, <1>9
<1>10. CASE \E requested \in SUBSET Items : CompactStep(requested)
  BY <1>3, <1>6, <1>10
<1> QED BY <1>4, <1>7, <1>8, <1>9, <1>10 DEF Next

(* Whatever a failing call leaves behind -- torn tails, short writes, a    *)
(* line that was written and reported as failed, a compaction renamed and  *)
(* reported as failed -- what could be read stays readable until a later   *)
(* generation replaces the whole file, and a log that no longer verifies   *)
(* is never made to look sound.  (sealAndAppend, openStore and compact,    *)
(* log-store.ts.)                                                          *)
THEOREM DamageIsContained == Spec => DamageStays
<1> DEFINE Kept == /\ \/ IsPrefix(lines, lines') /\ ReadLen(lines') >= ReadLen(lines)
                      \/ lines' # <<>> /\ lines'[1].nonce > lines[1].nonce
                   /\ Broken(lines) => Broken(lines')
<1>1. TypeOK /\ Stems /\ [Next]_vars => [Kept]_lines
  BY DamageStep
<1>2. TypeOK /\ Stems /\ [Next]_vars => Stems'
  BY StemsStep
<1> QED BY <1>1, <1>2, StemsInit, TypeInit, TypeStep, PTL DEF Spec, DamageStays
=============================================================================
