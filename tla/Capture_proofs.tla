--------------------------- MODULE Capture_proofs ---------------------------
(* What holds of capture and its shutdown for any number of copies and      *)
(* recalls, whatever of the mishaps may happen.                             *)
EXTENDS Capture, SequenceTheorems, TLAPS

(* The order of stop(): the debounce window is emptied first, then the     *)
(* chain of candidates, then the queue of ingests; nothing refills a queue  *)
(* once the one before it is empty and shut.                                *)
DrainInv ==
  /\ phase # "running" => pending = None
  /\ phase \in {"draining", "closed"} => flushing = <<>>
  /\ phase = "closed" => ingesting = <<>>

LEMMA DrainInit == Init => DrainInv
  BY DEF Init, DrainInv

(* A change that arrives when capture has stopped is not kept.              *)
LEMMA OnChangedStopped ==
  ASSUME NEW c, DrainInv, OnChanged(c), UNCHANGED <<queues, phase>>
  PROVE  DrainInv'
<1>1. phase # "running" => pending' = pending
  BY DEF OnChanged, Listening
<1> QED BY <1>1 DEF DrainInv, queues

(* Reading a line touches the debounce window at most.                      *)
LEMMA ReadsDrain ==
  ASSUME DrainInv,
         ReadsAnswer \/ ReadsInline \/ ReadsDeclared \/ ReadsFinal \/ StreamTimesOut
  PROVE  DrainInv'
<1>1. CASE ReadsAnswer
  BY <1>1 DEF ReadsAnswer, DrainInv, queues
<1>2. CASE ReadsInline
  BY <1>2, OnChangedStopped DEF ReadsInline
<1>3. CASE ReadsDeclared
  BY <1>3 DEF ReadsDeclared, DrainInv, queues
<1>4. CASE ReadsFinal
  BY <1>4, OnChangedStopped DEF ReadsFinal, DrainInv, queues
<1>5. CASE StreamTimesOut
  BY <1>5, OnChangedStopped DEF StreamTimesOut
<1> QED BY <1>1, <1>2, <1>3, <1>4, <1>5

LEMMA DrainStep == DrainInv /\ [Next]_vars => DrainInv'
<1> SUFFICES ASSUME DrainInv, [Next]_vars
             PROVE  DrainInv'
  OBVIOUS
<1>1. CASE UserCopies \/ Tick \/ TickReads \/ Writes \/ Rewatch \/ Recall
  BY <1>1 DEF UserCopies, Tick, TickReads, Writes, Rewatch, Recall, DrainInv, queues
<1>2. CASE ReadsAnswer \/ ReadsInline \/ ReadsDeclared \/ ReadsFinal \/ StreamTimesOut
  BY <1>2, ReadsDrain
<1>3. CASE AgentReplaced
  <2>1. CASE assembling = <<>>
    BY <1>3, <2>1 DEF AgentReplaced, DrainInv, queues
  <2>2. CASE assembling # <<>>
    BY <1>3, <2>2, OnChangedStopped DEF AgentReplaced
  <2> QED BY <2>1, <2>2
<1>4. CASE \E r \in Ids : RecallGoesOn(r) \/ RecallTimesOut(r)
  BY <1>4 DEF RecallGoesOn, RecallTimesOut, DrainInv, queues
<1>5. CASE DebounceFires
  BY <1>5 DEF DebounceFires, DrainInv
<1>6. CASE Emit
  BY <1>6 DEF Emit, Emits, DrainInv
<1>7. CASE Ingest
  BY <1>7 DEF Ingest, DrainInv
<1>8. CASE StopCapture
  BY <1>8 DEF StopCapture, DrainInv, queues
<1>9. CASE Unsubscribe
  BY <1>9 DEF Unsubscribe, DrainInv, queues
<1>10. CASE CloseStore
  BY <1>10 DEF CloseStore, DrainInv, queues
<1>11. CASE UNCHANGED vars
  BY <1>11 DEF vars, queues, DrainInv
<1> QED
  BY <1>1, <1>2, <1>3, <1>4, <1>5, <1>6, <1>7, <1>8, <1>9, <1>10, <1>11 DEF Next

(* The store is closed only when no candidate and no ingest is left, and    *)
(* none comes after it (stop of the app, for any number of copies).         *)
THEOREM StopDrains == Spec => []DrainedWhenClosed
<1>1. Spec => []DrainInv
  BY DrainInit, DrainStep, PTL DEF Spec
<1>2. DrainInv => DrainedWhenClosed
  BY DEF DrainInv, DrainedWhenClosed
<1> QED BY <1>1, <1>2, PTL

-----------------------------------------------------------------------------
(* Sequences.                                                               *)
LEMMA TailOf ==
  ASSUME NEW S, NEW s \in Seq(S), s # <<>>
  PROVE  /\ Tail(s) \in Seq(S) /\ Head(s) = s[1] /\ 1 \in DOMAIN s /\ Head(s) \in S
         /\ \A i \in DOMAIN Tail(s) : i \in Nat /\ i >= 1 /\ i + 1 \in DOMAIN s /\ Tail(s)[i] = s[i + 1]
         /\ ToSet(Tail(s)) \subseteq ToSet(s)
<1>1. /\ Tail(s) \in Seq(S) /\ Head(s) = s[1] /\ 1 \in DOMAIN s /\ Head(s) \in S
      /\ \A i \in DOMAIN Tail(s) : i \in Nat /\ i >= 1 /\ i + 1 \in DOMAIN s /\ Tail(s)[i] = s[i + 1]
  OBVIOUS
<1> QED BY <1>1 DEF ToSet

LEMMA Appended ==
  ASSUME NEW S, NEW s \in Seq(S), NEW x \in S
  PROVE  /\ Append(s, x) \in Seq(S) /\ DOMAIN Append(s, x) = 1..(Len(s) + 1)
         /\ DOMAIN s = 1..Len(s) /\ Len(s) \in Nat /\ Append(s, x)[Len(s) + 1] = x
         /\ \A i \in DOMAIN s : Append(s, x)[i] = s[i] /\ i <= Len(s) /\ i \in DOMAIN Append(s, x)
         /\ \A i \in DOMAIN Append(s, x) : i \in DOMAIN s \/ i = Len(s) + 1
         /\ ToSet(Append(s, x)) = ToSet(s) \cup {x}
<1>1. /\ Append(s, x) \in Seq(S) /\ DOMAIN Append(s, x) = 1..(Len(s) + 1)
      /\ DOMAIN s = 1..Len(s) /\ Len(s) \in Nat /\ Append(s, x)[Len(s) + 1] = x
      /\ \A i \in 1..Len(s) : Append(s, x)[i] = s[i]
  OBVIOUS
<1>2. ToSet(Append(s, x)) = ToSet(s) \cup {x}
  <2>1. \A i \in DOMAIN Append(s, x) : Append(s, x)[i] \in ToSet(s) \cup {x}
    BY <1>1 DEF ToSet
  <2>2. \A i \in DOMAIN s : s[i] \in {Append(s, x)[j] : j \in DOMAIN Append(s, x)}
    BY <1>1
  <2>3. x \in {Append(s, x)[j] : j \in DOMAIN Append(s, x)}
    BY <1>1
  <2> QED BY <2>1, <2>2, <2>3 DEF ToSet
<1> QED BY <1>1, <1>2

(* A sequence without its i-th element: the places of the others.           *)
LEMMA Removed ==
  ASSUME NEW S, NEW s \in Seq(S), NEW i \in DOMAIN s
  PROVE  /\ RemoveAt(s, i) \in Seq(S)
         /\ \A n \in DOMAIN RemoveAt(s, i) :
              RemoveAt(s, i)[n] = IF n < i THEN s[n] ELSE s[n + 1]
         /\ DOMAIN s = 1..Len(s) /\ DOMAIN RemoveAt(s, i) = 1..(Len(s) - 1) /\ Len(s) \in Nat
         /\ Len(RemoveAt(s, i)) = Len(s) - 1
         /\ ToSet(RemoveAt(s, i)) \subseteq ToSet(s)
<1> DEFINE a == SubSeq(s, 1, i - 1)
           b == SubSeq(s, i + 1, Len(s))
<1>1. a \in Seq(S) /\ Len(a) = i - 1 /\ \A n \in 1..(i - 1) : a[n] = s[n]
  OBVIOUS
<1>2. b \in Seq(S) /\ Len(b) = Len(s) - i /\ \A n \in 1..(Len(s) - i) : b[n] = s[n + i]
  OBVIOUS
<1>0. Len(s) \in Nat /\ i \in Nat /\ i >= 1 /\ i <= Len(s) /\ DOMAIN s = 1..Len(s)
  OBVIOUS
<1>a. RemoveAt(s, i) = a \o b
  BY DEF RemoveAt
<1> HIDE DEF a, b
<1>3. a \o b \in Seq(S) /\ Len(a \o b) = Len(s) - 1 /\ DOMAIN (a \o b) = 1..(Len(s) - 1)
  <2>1. a \o b \in Seq(S) /\ Len(a \o b) = Len(a) + Len(b)
    BY <1>1, <1>2, ConcatProperties
  <2>2. Len(a \o b) = Len(s) - 1
    BY <1>0, <1>1, <1>2, <2>1
  <2> QED BY <2>1, <2>2
<1>4. ASSUME NEW n \in DOMAIN (a \o b)
      PROVE  (a \o b)[n] = IF n < i THEN s[n] ELSE s[n + 1]
  <2>1. n \in 1..(Len(s) - 1)
    BY <1>3
  <2>2. CASE n < i
    <3>1. (a \o b)[n] = a[n]
      BY <1>0, <1>1, <1>2, <2>1, <2>2
    <3> QED BY <1>0, <1>1, <2>1, <2>2, <3>1
  <2>3. CASE n >= i
    <3>1. (a \o b)[n] = b[n - (i - 1)]
      BY <1>0, <1>1, <1>2, <2>1, <2>3
    <3>2. n - (i - 1) \in 1..(Len(s) - i) /\ (n - (i - 1)) + i = n + 1
      BY <1>0, <2>1, <2>3
    <3>3. b[n - (i - 1)] = s[n + 1]
      BY <1>2, <3>2
    <3> QED BY <1>0, <2>1, <2>3, <3>1, <3>3
  <2> QED BY <1>0, <2>1, <2>2, <2>3
<1>5. \A n \in DOMAIN (a \o b) : \E m \in DOMAIN s : (a \o b)[n] = s[m]
  <2> SUFFICES ASSUME NEW n \in DOMAIN (a \o b)
               PROVE  \E m \in DOMAIN s : (a \o b)[n] = s[m]
    OBVIOUS
  <2>1. n \in 1..(Len(s) - 1)
    BY <1>3
  <2> QED BY <1>0, <1>4, <2>1
<1>6. ToSet(a \o b) \subseteq ToSet(s)
  BY <1>5 DEF ToSet
<1> QED BY <1>0, <1>a, <1>3, <1>4, <1>6

LEMMA RemovedFirst ==
  ASSUME NEW S, NEW s \in Seq(S), s # <<>>
  PROVE  RemoveAt(s, 1) = Tail(s)
<1> QED BY DEF RemoveAt

LEMMA Wider ==
  ASSUME NEW S, NEW T, S \subseteq T
  PROVE  \A s \in Seq(S) : s \in Seq(T)
  OBVIOUS

-----------------------------------------------------------------------------
(* Types: every count under way is one the pasteboard has had.              *)
Counts == 1..Len(copies)
Steps == [st : {"sent", "answered", "done", "failed"}, wrote : Nat]
Own == {n \in Counts : copies[n] = "cairn"}

(* Between the count and the data only other programs can have come.        *)
Flights == {c \in [count : Counts, data : Counts] : c.data \in Own => c.data = c.count}
Changes == {None} \cup [data : Counts, usable : BOOLEAN]
Lines == [kind : {"inline", "declared", "final"}, change : Flights] \cup [kind : {"res"}, n : Ids]

CaptureTypes ==
  /\ copies \in Seq({"user", "cairn"})
  /\ lastCount \in Nat /\ lastCount <= Len(copies)
  /\ reading \in BOOLEAN /\ (reading => lastCount # 0 /\ \A n \in Own : n <= lastCount)
  /\ recalls \in Seq(Steps) /\ inbox \in Seq(Ids) /\ pipe \in Seq(Lines)
  /\ assembling \in Seq(Flights) /\ pending \in Changes
  /\ flushing \in Seq(Changes) /\ ingesting \in Seq(Counts) /\ history \in Seq(Counts)

(* What recalls have written is what the pasteboard has of them.            *)
WritesAreOwn ==
  /\ \A r \in Ids : recalls[r].wrote \in Own \cup {0}
  /\ suppressed \subseteq Own \cup {0}

LEMMA TypesInit == Init => CaptureTypes /\ WritesAreOwn
<1> SUFFICES ASSUME Init
             PROVE  CaptureTypes /\ WritesAreOwn
  OBVIOUS
<1>1. CaptureTypes
  <2>1. pending \in Changes
    BY DEF Init, Changes
  <2>2. copies \in Seq({"user", "cairn"}) /\ lastCount = 0 /\ Len(copies) = 0
    BY DEF Init
  <2>5. reading = FALSE
    BY DEF Init
  <2>6. reading \in BOOLEAN /\ (reading => lastCount # 0 /\ \A n \in Own : n <= lastCount)
    BY <2>5
  <2>3. /\ recalls \in Seq(Steps) /\ inbox \in Seq(Ids) /\ pipe \in Seq(Lines)
        /\ assembling \in Seq(Flights) /\ flushing \in Seq(Changes)
        /\ ingesting \in Seq(Counts) /\ history \in Seq(Counts)
    BY DEF Init
  <2>4. lastCount \in Nat /\ lastCount <= Len(copies)
    BY <2>2
  <2> QED BY <2>1, <2>2, <2>3, <2>4, <2>6 DEF CaptureTypes
<1>2. WritesAreOwn
  BY DEF Init, WritesAreOwn, Ids
<1> QED BY <1>1, <1>2

LEMMA CountsStay ==
  ASSUME CaptureTypes, \/ UNCHANGED copies
                       \/ \E who \in {"user", "cairn"} : copies' = Append(copies, who)
  PROVE  /\ copies' \in Seq({"user", "cairn"}) /\ Counts \subseteq Counts'
         /\ Len(copies) \in Nat /\ Len(copies') \in Nat /\ Len(copies) <= Len(copies')
         /\ \A n \in Counts : copies'[n] = copies[n]
         /\ Changes \subseteq Changes' /\ Own \subseteq Own' /\ Flights \subseteq Flights'
<1>1. /\ copies' \in Seq({"user", "cairn"}) /\ Counts \subseteq Counts'
      /\ Len(copies) \in Nat /\ Len(copies') \in Nat /\ Len(copies) <= Len(copies')
      /\ \A n \in Counts : copies'[n] = copies[n]
  <2>1. CASE UNCHANGED copies
    BY <2>1 DEF CaptureTypes, Counts
  <2>2. ASSUME NEW who \in {"user", "cairn"}, copies' = Append(copies, who)
        PROVE  /\ copies' \in Seq({"user", "cairn"}) /\ Len(copies') = Len(copies) + 1
               /\ Len(copies) \in Nat /\ \A n \in Counts : copies'[n] = copies[n]
    BY <2>2 DEF CaptureTypes, Counts
  <2>3. CASE ~UNCHANGED copies
    BY <2>2, <2>3 DEF Counts
  <2> QED BY <2>1, <2>3
<1>2. Changes \subseteq Changes' /\ Own \subseteq Own' /\ Own' \cap Counts = Own
  BY <1>1 DEF Changes, Own, None
<1>3. Flights \subseteq Flights'
  BY <1>1, <1>2 DEF Flights
<1> QED BY <1>1, <1>2, <1>3

LEMMA LineTypes ==
  ASSUME CaptureTypes, pipe # <<>>
  PROVE  /\ Line \in Lines /\ Tail(pipe) \in Seq(Lines)
         /\ Line.kind = "res" => Line.n \in Ids
         /\ Line.kind # "res" => Line.change \in Flights
<1>1. Line \in Lines /\ Tail(pipe) \in Seq(Lines)
  BY TailOf DEF CaptureTypes, Line
<1> QED BY <1>1 DEF Lines

LEMMA OnChangedTypes ==
  ASSUME CaptureTypes, WritesAreOwn, NEW c \in Flights, OnChanged(c)
  PROVE  pending' \in Changes /\ suppressed' \subseteq suppressed
<1>1. c.data \in Counts
  BY DEF Flights
<1>2. \A usable \in BOOLEAN : [data |-> c.data, usable |-> usable] \in Changes
  BY <1>1 DEF Changes
<1> QED BY <1>2 DEF OnChanged, CaptureTypes

(* A step of the host: it changes neither the pasteboard nor what recalls   *)
(* have written.                                                            *)
LEMMA HostTypes ==
  ASSUME CaptureTypes, WritesAreOwn, UNCHANGED copies, lastCount' \in {lastCount, Len(copies)},
         reading' = FALSE \/ UNCHANGED <<reading, lastCount>>, inbox' \in Seq(Ids),
         recalls' \in Seq(Steps), Ids' = Ids,
         \A r \in Ids : recalls'[r].wrote = recalls[r].wrote,
         pipe' \in Seq(Lines), assembling' \in Seq(Flights), pending' \in Changes,
         flushing' \in Seq(Changes), ingesting' \in Seq(Counts), history' \in Seq(Counts),
         suppressed' \subseteq suppressed \cup {recalls[r].wrote : r \in Ids}
  PROVE  CaptureTypes' /\ WritesAreOwn'
<1>1. /\ Counts' = Counts /\ Own' = Own /\ Changes' = Changes /\ Flights' = Flights /\ Lines' = Lines
  BY DEF Counts, Own, Changes, Flights, Lines
<1>2. CaptureTypes'
  <2>1. lastCount' \in Nat /\ lastCount' <= Len(copies')
    <3>1. lastCount \in Nat /\ lastCount <= Len(copies) /\ Len(copies) \in Nat
      BY DEF CaptureTypes
    <3> QED BY <3>1
  <2>2. reading' \in BOOLEAN /\ (reading' => lastCount' # 0 /\ \A n \in Own : n <= lastCount')
    <3>1. reading \in BOOLEAN /\ (reading => lastCount # 0 /\ \A n \in Own : n <= lastCount)
      BY DEF CaptureTypes
    <3>2. CASE UNCHANGED <<reading, lastCount>>
      BY <3>1, <3>2
    <3>3. CASE reading' = FALSE
      BY <3>3
    <3> QED BY <3>2, <3>3
  <2> QED BY <1>1, <2>1, <2>2 DEF CaptureTypes
<1>3. WritesAreOwn'
  <2>1. \A r \in Ids : recalls'[r].wrote \in Own \cup {0}
    BY DEF WritesAreOwn
  <2>2. suppressed' \subseteq Own \cup {0}
    <3>1. {recalls[r].wrote : r \in Ids} \subseteq Own \cup {0}
      BY DEF WritesAreOwn
    <3> QED BY <3>1 DEF WritesAreOwn
  <2> QED BY <1>1, <2>1, <2>2 DEF WritesAreOwn
<1> QED BY <1>2, <1>3

(* A step of the agent, of other programs or of recallCopy() that leaves    *)
(* what the host has read alone.                                            *)
LEMMA AgentTypes ==
  ASSUME CaptureTypes, WritesAreOwn,
         \/ UNCHANGED copies
         \/ \E who \in {"user", "cairn"} : copies' = Append(copies, who),
         lastCount' \in {lastCount, Len(copies)}, reading' \in BOOLEAN,
         reading' => lastCount' # 0 /\ \A n \in Own' : n <= lastCount',
         recalls' \in Seq(Steps), Ids \subseteq Ids',
         inbox' \in Seq(Ids'), pipe' \in Seq(Lines'),
         \A r \in Ids' : recalls'[r].wrote \in Own' \cup {0},
         UNCHANGED <<suppressed, assembling, pending, queues>>
  PROVE  CaptureTypes' /\ WritesAreOwn'
<1>1. /\ copies' \in Seq({"user", "cairn"}) /\ Counts \subseteq Counts'
      /\ Len(copies) \in Nat /\ Len(copies') \in Nat /\ Len(copies) <= Len(copies')
      /\ Changes \subseteq Changes' /\ Own \subseteq Own' /\ Flights \subseteq Flights'
  BY CountsStay
<1>2. /\ assembling' \in Seq(Flights') /\ pending' \in Changes'
      /\ flushing' \in Seq(Changes') /\ ingesting' \in Seq(Counts') /\ history' \in Seq(Counts')
  BY <1>1, Wider DEF CaptureTypes, queues
<1>3. lastCount' \in Nat /\ lastCount' <= Len(copies')
  <2>1. lastCount \in Nat /\ lastCount <= Len(copies)
    BY DEF CaptureTypes
  <2>2. CASE lastCount' = lastCount
    BY <1>1, <2>1, <2>2
  <2>3. CASE lastCount' = Len(copies)
    BY <1>1, <2>3
  <2> QED BY <2>2, <2>3
<1>4. CaptureTypes'
  BY <1>1, <1>2, <1>3 DEF CaptureTypes
<1>5. WritesAreOwn'
  BY <1>1 DEF WritesAreOwn
<1> QED BY <1>4, <1>5

(* What a tick makes of the count and the data it has read.                 *)
LEMMA ReadsFlight ==
  ASSUME CaptureTypes, reading, NEW n \in lastCount..Len(copies)
  PROVE  /\ Change(n, Len(copies)) \in Flights
         /\ Change(n, Len(copies)).count = n /\ Change(n, Len(copies)).data = Len(copies)
         /\ n \in Own => n = lastCount
<1>1. /\ Len(copies) \in Nat /\ lastCount \in Nat /\ lastCount # 0 /\ lastCount <= Len(copies)
      /\ \A m \in Own : m <= lastCount
  BY DEF CaptureTypes
<1>2. n \in Counts /\ Len(copies) \in Counts
  BY <1>1 DEF Counts
<1>3. Len(copies) \in Own => n = Len(copies)
  BY <1>1
<1> QED BY <1>1, <1>2, <1>3 DEF Change, Flights

LEMMA AgentTypesStep ==
  ASSUME CaptureTypes, WritesAreOwn,
         UserCopies \/ Tick \/ TickReads \/ Writes \/ Rewatch \/ Recall
  PROVE  CaptureTypes' /\ WritesAreOwn'
<1>1. /\ recalls \in Seq(Steps) /\ inbox \in Seq(Ids) /\ pipe \in Seq(Lines) /\ reading \in BOOLEAN
      /\ Len(copies) \in Nat /\ lastCount \in Nat /\ lastCount <= Len(copies)
      /\ reading => lastCount # 0 /\ \A n \in Own : n <= lastCount
      /\ \A n \in Own : n \in Nat /\ n <= Len(copies)
      /\ \A r \in Ids : recalls[r].wrote \in Own \cup {0}
  BY DEF CaptureTypes, WritesAreOwn, Own, Counts
<1>2. CASE UserCopies
  <2>1. copies' = Append(copies, "user") /\ UNCHANGED <<lastCount, reading, inbox, pipe, recalls>>
        /\ UNCHANGED <<suppressed, assembling, pending, queues>>
    BY <1>2 DEF UserCopies
  <2>2. Ids' = Ids /\ Lines \subseteq Lines' /\ Own \subseteq Own'
    BY <2>1, CountsStay DEF Ids, Lines
  <2>3. inbox' \in Seq(Ids') /\ pipe' \in Seq(Lines')
    BY <1>1, <2>1, <2>2, Wider
  <2>4. Own' = Own
    <3>1. /\ Len(copies') = Len(copies) + 1 /\ copies'[Len(copies) + 1] = "user"
          /\ \A n \in 1..Len(copies) : copies'[n] = copies[n]
      BY <1>1, <2>1 DEF CaptureTypes
    <3> QED BY <1>1, <3>1 DEF Own, Counts
  <2> QED BY <1>1, <2>1, <2>2, <2>3, <2>4, AgentTypes
<1>3. CASE Tick \/ Rewatch
  <2>1. /\ UNCHANGED <<copies, recalls, inbox, pipe, suppressed, assembling, pending, queues>>
        /\ lastCount' = Len(copies) /\ reading' \in BOOLEAN /\ (reading' => Len(copies) # 0)
    <3>1. CASE Tick
      BY <1>1, <3>1 DEF Tick
    <3>2. CASE Rewatch
      BY <1>1, <3>2 DEF Rewatch
    <3> QED BY <1>3, <3>1, <3>2
  <2>2. Ids' = Ids /\ Lines' = Lines /\ Own' = Own
    BY <2>1 DEF Ids, Lines, Flights, Own, Counts
  <2>3. reading' => lastCount' # 0 /\ \A n \in Own' : n <= lastCount'
    BY <1>1, <2>1, <2>2
  <2> QED BY <1>1, <2>1, <2>2, <2>3, AgentTypes
<1>4. CASE TickReads
  <2>1. /\ UNCHANGED <<copies, lastCount, recalls, inbox, suppressed, assembling, pending, queues>>
        /\ reading /\ reading' = FALSE
    BY <1>4 DEF TickReads
  <2>2. Ids' = Ids /\ Lines' = Lines /\ Own' = Own
    BY <2>1 DEF Ids, Lines, Flights, Own, Counts
  <2>3. PICK n \in lastCount..Len(copies) :
          LET line(kind) == [kind |-> kind, change |-> Change(n, Len(copies))]
          IN  \/ pipe' = Append(pipe, line("inline"))
              \/ pipe' = pipe \o <<line("declared"), line("final")>>
    BY <1>4 DEF TickReads
  <2>4. Change(n, Len(copies)) \in Flights
    BY ReadsFlight, <2>1
  <2>5. pipe' \in Seq(Lines)
    <3> DEFINE line(kind) == [kind |-> kind, change |-> Change(n, Len(copies))]
    <3>1. line("inline") \in Lines /\ line("declared") \in Lines /\ line("final") \in Lines
      BY <2>4 DEF Lines
    <3>2. \/ pipe' = Append(pipe, line("inline"))
          \/ pipe' = pipe \o <<line("declared"), line("final")>>
      BY <2>3
    <3> HIDE DEF line
    <3>3. <<line("declared"), line("final")>> \in Seq(Lines)
      BY <3>1
    <3>4. Append(pipe, line("inline")) \in Seq(Lines)
      BY <1>1, <3>1, Appended
    <3>5. pipe \o <<line("declared"), line("final")>> \in Seq(Lines)
      BY <1>1, <3>3, ConcatProperties
    <3> QED BY <3>2, <3>4, <3>5
  <2> QED BY <1>1, <2>1, <2>2, <2>5, AgentTypes
<1>5. CASE Writes
  <2> DEFINE r == Head(inbox)
             n == Len(copies) + 1
  <2>1. /\ copies' = Append(copies, "cairn") /\ recalls' = [recalls EXCEPT ![r].wrote = n]
        /\ pipe' = Append(pipe, [kind |-> "res", n |-> r]) /\ inbox' = Tail(inbox)
        /\ inbox # <<>> /\ ~reading /\ UNCHANGED <<lastCount, reading, suppressed, assembling, pending, queues>>
    BY <1>5 DEF Writes
  <2>2. r \in Ids /\ inbox' \in Seq(Ids)
    BY <1>1, <2>1, TailOf
  <2>3. recalls' \in Seq(Steps) /\ Ids' = Ids
        /\ \A q \in Ids : recalls'[q].wrote = IF q = r THEN n ELSE recalls[q].wrote
    <3> DEFINE s == [recalls[r] EXCEPT !.wrote = n]
    <3>1. recalls[r] \in Steps /\ n \in Nat
      BY <1>1, <2>2 DEF Ids
    <3>2. s \in Steps /\ s.wrote = n
      BY <3>1 DEF Steps
    <3>3. recalls' = [recalls EXCEPT ![r] = s]
      BY <2>1
    <3> HIDE DEF s, r
    <3> QED BY <1>1, <2>2, <3>2, <3>3 DEF Ids
  <2>4. n \in Own' /\ Own \subseteq Own'
    <3>1. n \in Counts' /\ copies'[n] = "cairn"
      BY <1>1, <2>1 DEF Counts, CaptureTypes
    <3> QED BY <2>1, <3>1, CountsStay DEF Own
  <2>5. Lines \subseteq Lines' /\ [kind |-> "res", n |-> r] \in Lines
    BY <2>1, <2>2, <2>3, CountsStay DEF Lines
  <2>6. pipe' \in Seq(Lines')
    BY <1>1, <2>1, <2>5, Wider, Appended
  <2> HIDE DEF r, n
  <2> QED BY <1>1, <2>1, <2>2, <2>3, <2>4, <2>6, AgentTypes
<1>6. CASE Recall
  <2>1. /\ recalls' = Append(recalls, [st |-> "sent", wrote |-> 0])
        /\ inbox' = Append(inbox, Len(recalls'))
        /\ UNCHANGED <<copies, lastCount, reading, pipe, suppressed, assembling, pending, queues>>
    BY <1>6 DEF Recall
  <2>2. [st |-> "sent", wrote |-> 0] \in Steps
    BY DEF Steps
  <2>3. /\ recalls' \in Seq(Steps) /\ Len(recalls') = Len(recalls) + 1 /\ Len(recalls) \in Nat
        /\ Ids \subseteq Ids' /\ Ids' = 1..Len(recalls')
        /\ \A q \in Ids' : recalls'[q].wrote = IF q \in Ids THEN recalls[q].wrote ELSE 0
    BY <1>1, <2>1, <2>2 DEF Ids
  <2>4. inbox' \in Seq(Ids')
    <3>1. Len(recalls') \in Ids' /\ inbox \in Seq(Ids')
      <4>1. Len(recalls') \in Ids'
        BY <2>3
      <4> QED BY <1>1, <2>3, <4>1, Wider
    <3> QED BY <2>1, <3>1, Appended
  <2>5. Lines \subseteq Lines' /\ Own' = Own /\ pipe' \in Seq(Lines')
    <3>1. Lines \subseteq Lines' /\ Own' = Own
      BY <2>1, <2>3 DEF Lines, Flights, Own, Counts
    <3> QED BY <1>1, <2>1, <3>1, Wider
  <2> QED BY <1>1, <2>1, <2>3, <2>4, <2>5, AgentTypes
<1> QED BY <1>2, <1>3, <1>4, <1>5, <1>6

LEMMA HostTypesStep ==
  ASSUME CaptureTypes, WritesAreOwn,
         \/ ReadsAnswer \/ ReadsInline \/ ReadsDeclared \/ ReadsFinal \/ StreamTimesOut
         \/ AgentReplaced \/ DebounceFires \/ Emit \/ Ingest
         \/ StopCapture \/ Unsubscribe \/ CloseStore
         \/ \E r \in Ids : RecallGoesOn(r) \/ RecallTimesOut(r)
  PROVE  CaptureTypes' /\ WritesAreOwn'
<1>1. /\ recalls \in Seq(Steps) /\ inbox \in Seq(Ids) /\ pipe \in Seq(Lines)
      /\ assembling \in Seq(Flights) /\ pending \in Changes /\ flushing \in Seq(Changes)
      /\ ingesting \in Seq(Counts) /\ history \in Seq(Counts) /\ None \in Changes
  BY DEF CaptureTypes, Changes
<1>2. pipe # <<>> => Tail(pipe) \in Seq(Lines) /\ (Line.kind # "res" => Line.change \in Flights)
                     /\ (Line.kind = "res" => Line.n \in Ids)
  BY LineTypes
<1>3. ASSUME NEW r \in Ids, NEW st \in {"sent", "answered", "done", "failed"},
             recalls' = [recalls EXCEPT ![r].st = st]
      PROVE  recalls' \in Seq(Steps) /\ Ids' = Ids /\ \A q \in Ids : recalls'[q].wrote = recalls[q].wrote
  <2> DEFINE s == [recalls[r] EXCEPT !.st = st]
  <2>1. recalls[r] \in Steps
    BY <1>1, <1>3 DEF Ids
  <2>2. s \in Steps /\ s.wrote = recalls[r].wrote
    BY <1>3, <2>1 DEF Steps
  <2>3. recalls' = [recalls EXCEPT ![r] = s]
    BY <1>3
  <2> HIDE DEF s
  <2> QED BY <1>1, <2>2, <2>3 DEF Ids
<1>4. CASE ReadsAnswer
  <2>1. /\ UNCHANGED <<agent, suppressed, assembling, pending, queues>> /\ pipe' \in Seq(Lines)
        /\ Line.n \in Ids
    BY <1>2, <1>4 DEF ReadsAnswer, HostReads
  <2>2. recalls' = recalls \/ recalls' = [recalls EXCEPT ![Line.n].st = "answered"]
    BY <1>4 DEF ReadsAnswer
  <2>3. recalls' \in Seq(Steps) /\ Ids' = Ids /\ \A q \in Ids : recalls'[q].wrote = recalls[q].wrote
    BY <1>1, <1>3, <2>1, <2>2 DEF Ids
  <2> QED BY <1>1, <2>1, <2>3, HostTypes DEF agent, queues
<1>5. CASE ReadsInline
  <2>1. /\ UNCHANGED <<agent, recalls, assembling, queues>> /\ pipe' \in Seq(Lines)
        /\ Line.change \in Flights /\ OnChanged(Line.change)
    BY <1>2, <1>5 DEF ReadsInline, HostReads
  <2>2. pending' \in Changes /\ suppressed' \subseteq suppressed
    BY <2>1, OnChangedTypes
  <2> QED BY <1>1, <2>1, <2>2, HostTypes DEF agent, queues, Ids
<1>6. CASE ReadsDeclared
  <2>1. /\ UNCHANGED <<agent, recalls, suppressed, pending, queues>> /\ pipe' \in Seq(Lines)
        /\ Line.change \in Flights /\ assembling' = Append(assembling, Line.change)
    BY <1>2, <1>6 DEF ReadsDeclared, HostReads
  <2>2. assembling' \in Seq(Flights)
    BY <1>1, <2>1, Appended
  <2> QED BY <1>1, <2>1, <2>2, HostTypes DEF agent, queues, Ids
<1>7. CASE ReadsFinal
  <2>1. /\ UNCHANGED <<agent, recalls, queues>> /\ pipe' \in Seq(Lines) /\ Line.change \in Flights
    BY <1>2, <1>7 DEF ReadsFinal, HostReads
  <2>2. \/ UNCHANGED <<assembling, suppressed, pending>>
        \/ \E i \in DOMAIN assembling : /\ OnChanged(Line.change)
                                        /\ assembling' = RemoveAt(assembling, i)
    BY <1>7 DEF ReadsFinal
  <2>3. assembling' \in Seq(Flights)
    <3>1. \A i \in DOMAIN assembling : RemoveAt(assembling, i) \in Seq(Flights)
      BY <1>1, Removed
    <3> QED BY <1>1, <2>2, <3>1
  <2>4. pending' \in Changes /\ suppressed' \subseteq suppressed
    BY <1>1, <2>1, <2>2, OnChangedTypes
  <2> QED BY <1>1, <2>1, <2>3, <2>4, HostTypes DEF agent, queues, Ids
<1>8. CASE StreamTimesOut
  <2>1. /\ UNCHANGED <<agent, pipe, recalls, queues>> /\ assembling # <<>>
        /\ OnChanged(Head(assembling)) /\ assembling' = Tail(assembling)
    BY <1>8 DEF StreamTimesOut
  <2>2. Head(assembling) \in Flights /\ assembling' \in Seq(Flights)
    BY <1>1, <2>1, TailOf
  <2>3. pending' \in Changes /\ suppressed' \subseteq suppressed
    BY <2>1, <2>2, OnChangedTypes
  <2> QED BY <1>1, <2>1, <2>2, <2>3, HostTypes DEF agent, queues, Ids
<1>9. CASE AgentReplaced
  <2>1. /\ UNCHANGED <<copies, queues>> /\ lastCount' = Len(copies) /\ reading' = FALSE
        /\ inbox' = <<>> /\ assembling' = <<>>
    BY <1>9 DEF AgentReplaced
  <2>2. pipe' \in Seq(Lines)
    <3>1. \A n \in 0..Len(pipe) : SubSeq(pipe, 1, n) \in Seq(Lines)
      BY <1>1
    <3> QED BY <1>9, <3>1 DEF AgentReplaced
  <2>3. recalls' \in Seq(Steps) /\ Ids' = Ids /\ \A q \in Ids : recalls'[q].wrote = recalls[q].wrote
    <3>1. recalls' = [r \in Ids |-> IF recalls[r].st = "sent" THEN [recalls[r] EXCEPT !.st = "failed"]
                                    ELSE recalls[r]]
      BY <1>9 DEF AgentReplaced
    <3>2. \A r \in Ids : recalls[r] \in Steps
      BY <1>1 DEF Ids
    <3>3. \A r \in Ids : recalls'[r] \in Steps /\ recalls'[r].wrote = recalls[r].wrote
      BY <3>1, <3>2 DEF Steps
    <3>4. DOMAIN recalls' = 1..Len(recalls) /\ Ids = 1..Len(recalls) /\ Len(recalls) \in Nat
          /\ recalls' = [r \in 1..Len(recalls) |-> recalls'[r]]
      BY <1>1, <3>1 DEF Ids
    <3> QED BY <3>3, <3>4 DEF Ids
  <2>4. pending' \in Changes /\ suppressed' \subseteq suppressed
    <3>1. CASE assembling = <<>>
      BY <1>1, <1>9, <3>1 DEF AgentReplaced
    <3>2. CASE assembling # <<>>
      <4>1. OnChanged(Head(assembling)) /\ Head(assembling) \in Flights
        BY <1>1, <1>9, <3>2, TailOf DEF AgentReplaced
      <4> QED BY <4>1, OnChangedTypes
    <3> QED BY <3>1, <3>2
  <2>5. inbox' \in Seq(Ids) /\ assembling' \in Seq(Flights)
    BY <2>1
  <2> QED BY <1>1, <2>1, <2>2, <2>3, <2>4, <2>5, HostTypes DEF queues
<1>10. CASE DebounceFires
  <2>1. /\ UNCHANGED <<agent, pipe, recalls, suppressed, assembling, ingesting, history>>
        /\ flushing' = Append(flushing, pending) /\ pending' = None
    BY <1>10 DEF DebounceFires
  <2>2. flushing' \in Seq(Changes)
    BY <1>1, <2>1, Appended
  <2> QED BY <1>1, <2>1, <2>2, HostTypes DEF agent, Ids
<1>11. CASE Emit
  <2>1. PICK i \in DOMAIN flushing :
          /\ flushing' = RemoveAt(flushing, i)
          /\ ingesting' = IF flushing[i].usable THEN Append(ingesting, flushing[i].data)
                          ELSE ingesting
    BY <1>11 DEF Emit, Emits
  <2>2. UNCHANGED <<agent, pipe, recalls, suppressed, assembling, pending, history>>
    BY <1>11 DEF Emit
  <2>3. flushing' \in Seq(Changes)
    BY <1>1, <2>1, Removed
  <2>4. flushing[i].usable => flushing[i].data \in Counts
    <3>1. flushing[i] \in Changes
      BY <1>1
    <3> QED BY <3>1 DEF Changes, None
  <2>5. ingesting' \in Seq(Counts)
    BY <1>1, <2>1, <2>4, Appended
  <2> QED BY <1>1, <2>2, <2>3, <2>5, HostTypes DEF agent, Ids
<1>12. CASE Ingest
  <2>1. /\ UNCHANGED <<agent, pipe, recalls, suppressed, assembling, pending, flushing>>
        /\ ingesting # <<>> /\ history' \in {history, Append(history, Head(ingesting))}
        /\ ingesting' = Tail(ingesting)
    BY <1>12 DEF Ingest
  <2>2. Head(ingesting) \in Counts /\ ingesting' \in Seq(Counts)
    BY <1>1, <2>1, TailOf
  <2>3. history' \in Seq(Counts)
    <3>1. Append(history, Head(ingesting)) \in Seq(Counts)
      BY <1>1, <2>2, Appended
    <3> QED BY <1>1, <2>1, <3>1
  <2> QED BY <1>1, <2>1, <2>2, <2>3, HostTypes DEF agent, Ids
<1>13. CASE StopCapture \/ Unsubscribe \/ CloseStore
  <2>1. UNCHANGED <<agent, pipe, recalls, suppressed, assembling, queues>> /\ pending' \in {pending, None}
    BY <1>13 DEF StopCapture, Unsubscribe, CloseStore
  <2> QED BY <1>1, <2>1, HostTypes DEF agent, queues, Ids
<1>14. ASSUME NEW r \in Ids, RecallGoesOn(r) \/ RecallTimesOut(r)
       PROVE  CaptureTypes' /\ WritesAreOwn'
  <2>1. /\ UNCHANGED <<agent, pipe, assembling, pending, queues>>
        /\ \E st \in {"done", "failed"} : recalls' = [recalls EXCEPT ![r].st = st]
        /\ suppressed' \subseteq suppressed \cup {recalls[r].wrote}
    BY <1>14 DEF RecallGoesOn, RecallTimesOut
  <2>2. recalls' \in Seq(Steps) /\ Ids' = Ids /\ \A q \in Ids : recalls'[q].wrote = recalls[q].wrote
    BY <1>3, <2>1
  <2> QED BY <1>1, <2>1, <2>2, HostTypes DEF agent, queues
<1> QED BY <1>4, <1>5, <1>6, <1>7, <1>8, <1>9, <1>10, <1>11, <1>12, <1>13, <1>14

LEMMA TypesStep == CaptureTypes /\ WritesAreOwn /\ [Next]_vars => CaptureTypes' /\ WritesAreOwn'
<1> SUFFICES ASSUME CaptureTypes, WritesAreOwn, [Next]_vars
             PROVE  CaptureTypes' /\ WritesAreOwn'
  OBVIOUS
<1>1. CASE Next
  BY <1>1, AgentTypesStep, HostTypesStep DEF Next
<1>2. CASE UNCHANGED vars
  BY <1>2 DEF vars, agent, queues, CaptureTypes, WritesAreOwn, Counts, Changes, Flights, Lines, Own, Ids
<1> QED BY <1>1, <1>2

(* The queues between agent, host and history hold what they are meant to,  *)
(* and what is recorded as an own write was written by a recall.            *)
THEOREM CaptureTyped == Spec => [](CaptureTypes /\ WritesAreOwn)
<1> QED BY TypesInit, TypesStep, PTL DEF Spec

-----------------------------------------------------------------------------
(* The last change that was heard is somewhere on its way.                  *)
UnderWay(n) ==
  \/ pending = [data |-> n, usable |-> TRUE]
  \/ \E i \in DOMAIN flushing : flushing[i] = [data |-> n, usable |-> TRUE]
  \/ n \in ToSet(ingesting) \/ n \in ToSet(history)

KeptInv ==
  /\ heard \in Counts \cup {0}
  /\ heard # 0 /\ phase = "running" => UnderWay(heard)

LEMMA OnChangedKept ==
  ASSUME CaptureTypes, WritesAreOwn, KeptInv, NEW c \in Flights,
         OnChanged(c), UNCHANGED <<copies, queues, phase>>
  PROVE  KeptInv'
<1>1. CASE phase # "running"
  BY <1>1 DEF OnChanged, Listening, KeptInv, Counts
<1>2. CASE phase = "running"
  <2>1. PICK usable \in BOOLEAN :
          /\ IF Suppresses(c.count) THEN TRUE ELSE pending' = [data |-> c.data, usable |-> usable]
          /\ heard' = IF usable /\ copies[c.count] = "user" THEN c.data ELSE 0
    BY <1>2 DEF OnChanged, Listening
  <2>2. c.data \in Counts /\ c.count \in Counts
    BY DEF Flights
  <2>3. ASSUME heard' # 0
        PROVE  pending' = [data |-> heard', usable |-> TRUE]
    <3>1. heard' = c.data /\ usable = TRUE /\ copies[c.count] = "user"
      BY <2>1, <2>3
    <3>2. c.count \notin suppressed
      BY <2>2, <3>1 DEF WritesAreOwn, Own, Counts
    <3> QED BY <2>1, <3>1, <3>2 DEF Suppresses
  <2>4. heard' \in Counts' \cup {0}
    BY <2>1, <2>2 DEF Counts
  <2> QED BY <2>3, <2>4 DEF KeptInv, UnderWay
<1> QED BY <1>1, <1>2

(* emit() takes the first in line.                                          *)
LEMMA EmitsFirst ==
  ASSUME CaptureTypes, Emit
  PROVE  /\ flushing # <<>> /\ flushing \in Seq(Changes) /\ flushing' = Tail(flushing)
         /\ flushing[1].usable => ingesting' = Append(ingesting, flushing[1].data)
         /\ ~flushing[1].usable => ingesting' = ingesting
         /\ UNCHANGED <<agent, pipe, recalls, suppressed, assembling, pending, history, phase, ghosts>>
<1>1. flushing \in Seq(Changes)
  BY DEF CaptureTypes
<1>2. \E i \in Emits :
        /\ flushing' = RemoveAt(flushing, i)
        /\ flushing[i].usable => ingesting' = Append(ingesting, flushing[i].data)
        /\ ~flushing[i].usable => ingesting' = ingesting
  BY DEF Emit
<1>3. \A i \in Emits : i = 1 /\ 1 \in DOMAIN flushing
  BY DEF Emits
<1>4. flushing # <<>>
  BY <1>2, <1>3
<1>5. RemoveAt(flushing, 1) = Tail(flushing)
  BY <1>1, <1>4, RemovedFirst
<1>6. UNCHANGED <<agent, pipe, recalls, suppressed, assembling, pending, history, phase, ghosts>>
  BY DEF Emit
<1> QED BY <1>1, <1>2, <1>3, <1>4, <1>5, <1>6

(* A copy the store has taken or given up leaves its queue.                 *)
LEMMA IngestsFirst ==
  ASSUME CaptureTypes, Ingest
  PROVE  /\ ingesting # <<>> /\ ingesting' = Tail(ingesting)
         /\ ingesting \in Seq(Counts) /\ history \in Seq(Counts) /\ Head(ingesting) \in Counts
         /\ \/ history' = Append(history, Head(ingesting)) /\ heard' = heard
            \/ history' = history /\ heard' \in {heard, 0} /\ heard' # Head(ingesting)
         /\ UNCHANGED <<copies, pipe, assembling, pending, flushing, phase, overtaken, orphans>>
<1>1. /\ ingesting # <<>> /\ ingesting' = Tail(ingesting)
      /\ \/ history' = Append(history, Head(ingesting)) /\ heard' = heard
         \/ history' = history /\ heard' = IF heard = Head(ingesting) THEN 0 ELSE heard
      /\ UNCHANGED <<copies, pipe, assembling, pending, flushing, phase, overtaken, orphans>>
  BY DEF Ingest, agent
<1>2. ingesting \in Seq(Counts) /\ history \in Seq(Counts) /\ Head(ingesting) \in Counts
  BY <1>1, TailOf DEF CaptureTypes
<1>3. Head(ingesting) # 0
  BY <1>2 DEF Counts
<1> QED BY <1>1, <1>2, <1>3

LEMMA KeptStep == CaptureTypes /\ WritesAreOwn /\ KeptInv /\ [Next]_vars => KeptInv'
<1> SUFFICES ASSUME CaptureTypes, WritesAreOwn, KeptInv, [Next]_vars
             PROVE  KeptInv'
  OBVIOUS
<1>1. ASSUME UNCHANGED <<pending, queues, phase, heard>>,
             UNCHANGED copies \/ \E who \in {"user", "cairn"} : copies' = Append(copies, who)
      PROVE  KeptInv'
  <2>1. Counts \subseteq Counts'
    BY <1>1, CountsStay
  <2> QED BY <1>1, <2>1 DEF KeptInv, UnderWay, queues
<1>2. ASSUME NEW c \in Flights, OnChanged(c), UNCHANGED <<copies, queues, phase>>
      PROVE  KeptInv'
  BY <1>2, OnChangedKept
<1>3. CASE UserCopies \/ Tick \/ TickReads \/ Writes \/ Rewatch \/ Recall
  BY <1>1, <1>3 DEF UserCopies, Tick, TickReads, Writes, Rewatch, Recall, ghosts
<1>4. CASE ReadsAnswer \/ ReadsDeclared \/ Unsubscribe \/ CloseStore \/ UNCHANGED vars
  <2>1. UNCHANGED <<pending, queues, heard, copies>> /\ (phase' = phase \/ phase' # "running")
    BY <1>4 DEF ReadsAnswer, ReadsDeclared, Unsubscribe, CloseStore, vars, agent, ghosts
  <2> QED BY <2>1 DEF KeptInv, UnderWay, queues, Counts
<1>5. CASE ReadsInline
  <2>1. Line.change \in Flights
    BY <1>5, LineTypes DEF ReadsInline, HostReads
  <2> QED BY <1>2, <1>5, <2>1 DEF ReadsInline, agent
<1>6. CASE ReadsFinal
  <2>1. Line.change \in Flights
    BY <1>6, LineTypes DEF ReadsFinal, HostReads
  <2> QED BY <1>1, <1>2, <1>6, <2>1 DEF ReadsFinal, agent
<1>7. CASE StreamTimesOut
  <2>1. Head(assembling) \in Flights
    BY <1>7, TailOf DEF StreamTimesOut, CaptureTypes
  <2> QED BY <1>2, <1>7, <2>1 DEF StreamTimesOut, agent
<1>8. CASE AgentReplaced
  <2>1. CASE assembling = <<>>
    BY <1>1, <1>8, <2>1 DEF AgentReplaced
  <2>2. CASE assembling # <<>>
    <3>1. Head(assembling) \in Flights
      BY <2>2, TailOf DEF CaptureTypes
    <3> QED BY <1>2, <1>8, <2>2, <3>1 DEF AgentReplaced
  <2> QED BY <2>1, <2>2
<1>9. CASE \E r \in Ids : RecallGoesOn(r) \/ RecallTimesOut(r)
  BY <1>1, <1>9 DEF RecallGoesOn, RecallTimesOut, agent, ghosts
<1>10. CASE StopCapture
  BY <1>10 DEF StopCapture, KeptInv, agent, ghosts, Counts
<1>11. CASE DebounceFires
  <2>1. /\ UNCHANGED <<copies, ingesting, history, phase, heard>> /\ flushing' = Append(flushing, pending)
    BY <1>11 DEF DebounceFires, agent, ghosts
  <2>2. /\ flushing'[Len(flushing) + 1] = pending /\ Len(flushing) + 1 \in DOMAIN flushing'
        /\ \A i \in DOMAIN flushing : i \in DOMAIN flushing' /\ flushing'[i] = flushing[i]
    BY <2>1, Appended DEF CaptureTypes
  <2>3. \A n : UnderWay(n) => UnderWay(n)'
    BY <2>1, <2>2 DEF UnderWay
  <2> QED BY <2>1, <2>3 DEF KeptInv, Counts
<1>12. CASE Emit
  <2>1. /\ flushing # <<>> /\ flushing \in Seq(Changes) /\ flushing' = Tail(flushing)
        /\ flushing[1].usable => ingesting' = Append(ingesting, flushing[1].data)
        /\ ~flushing[1].usable => ingesting' = ingesting
        /\ UNCHANGED <<copies, pending, history, phase, heard>>
    BY <1>12, EmitsFirst DEF agent, ghosts
  <2>2. \A i \in DOMAIN flushing : i = 1 \/ (i - 1 \in DOMAIN flushing' /\ flushing'[i - 1] = flushing[i])
    BY <2>1
  <2>3. flushing[1].usable => flushing[1].data \in Counts
    <3>1. flushing[1] \in Changes
      BY <2>1
    <3> QED BY <3>1 DEF Changes, None
  <2>4. ToSet(ingesting) \subseteq ToSet(ingesting') /\ (flushing[1].usable => flushing[1].data \in ToSet(ingesting'))
    <3>1. ingesting \in Seq(Counts)
      BY DEF CaptureTypes
    <3>2. CASE flushing[1].usable
      <4>1. flushing[1].data \in Counts /\ ingesting' = Append(ingesting, flushing[1].data)
        BY <2>1, <2>3, <3>2
      <4>2. ToSet(ingesting') = ToSet(ingesting) \cup {flushing[1].data}
        BY <3>1, <4>1, Appended
      <4> QED BY <4>2
    <3>3. CASE ~flushing[1].usable
      BY <2>1, <3>3
    <3> QED BY <3>2, <3>3
  <2>5. \A n : UnderWay(n) => UnderWay(n)'
    <3> SUFFICES ASSUME NEW n, UnderWay(n)
                 PROVE  UnderWay(n)'
      OBVIOUS
    <3>1. ASSUME NEW i \in DOMAIN flushing, flushing[i] = [data |-> n, usable |-> TRUE]
          PROVE  UnderWay(n)'
      <4>1. CASE i = 1
        BY <2>4, <3>1, <4>1 DEF UnderWay
      <4>2. CASE i # 1
        BY <2>2, <3>1, <4>2 DEF UnderWay
      <4> QED BY <4>1, <4>2
    <3> QED BY <2>1, <2>4, <3>1 DEF UnderWay
  <2> QED BY <2>1, <2>5 DEF KeptInv, Counts
<1>13. CASE Ingest
  <2>1. /\ ingesting # <<>> /\ ingesting' = Tail(ingesting)
        /\ ingesting \in Seq(Counts) /\ history \in Seq(Counts) /\ Head(ingesting) \in Counts
        /\ \/ history' = Append(history, Head(ingesting)) /\ heard' = heard
           \/ history' = history /\ heard' \in {heard, 0} /\ heard' # Head(ingesting)
        /\ UNCHANGED <<copies, pending, flushing, phase>>
    BY <1>13, IngestsFirst
  <2>2. ToSet(ingesting) \subseteq {Head(ingesting)} \cup ToSet(ingesting')
    <3>1. \A i \in DOMAIN ingesting : i = 1 \/ (i - 1 \in DOMAIN ingesting' /\ ingesting'[i - 1] = ingesting[i])
      BY <2>1
    <3>2. Head(ingesting) = ingesting[1]
      BY <2>1
    <3> QED BY <3>1, <3>2 DEF ToSet
  <2>3. CASE history' = Append(history, Head(ingesting)) /\ heard' = heard
    <3>1. ToSet(history') = ToSet(history) \cup {Head(ingesting)}
      BY <2>1, <2>3, Appended
    <3>2. \A n : UnderWay(n) => UnderWay(n)'
      BY <2>1, <2>2, <3>1 DEF UnderWay
    <3> QED BY <2>1, <2>3, <3>2 DEF KeptInv, Counts
  <2>4. CASE history' = history /\ heard' \in {heard, 0} /\ heard' # Head(ingesting)
    <3>1. \A n : n # Head(ingesting) /\ UnderWay(n) => UnderWay(n)'
      BY <2>1, <2>2, <2>4 DEF UnderWay
    <3> QED BY <2>1, <2>4, <3>1 DEF KeptInv, Counts
  <2> QED BY <2>1, <2>3, <2>4
<1> QED
  BY <1>3, <1>4, <1>5, <1>6, <1>7, <1>8, <1>9, <1>10, <1>11, <1>12, <1>13 DEF Next

(* With nothing under way, the copy that reached capture last, if it is the *)
(* user's, the rules let it pass and the store takes it, is in the history: *)
(* debounce and suppression drop nothing else, for any number of copies,    *)
(* recalls and mishaps (createCapture).                                     *)
THEOREM NoCopyIsDropped == Spec => []LastCopyIsKept
<1>1. Init => KeptInv
  BY DEF Init, KeptInv
<1>2. Spec => []KeptInv
  BY <1>1, KeptStep, CaptureTyped, PTL DEF Spec
<1>3. KeptInv => LastCopyIsKept
  <2>1. [data |-> heard, usable |-> TRUE] # None
    BY DEF None
  <2>2. DOMAIN <<>> = {} /\ ToSet(<<>>) = {}
    BY DEF ToSet
  <2>3. \A n : n \in ToSet(history) => \E i \in DOMAIN history : history[i] = n
    BY DEF ToSet
  <2> QED BY <2>1, <2>2, <2>3 DEF KeptInv, LastCopyIsKept, UnderWay
<1> QED BY <1>2, <1>3, PTL

-----------------------------------------------------------------------------
(* What is on its way, from the queue furthest on: what the rules let pass, *)
(* what is being assembled, and what is in the pipe.                        *)
Flushes == {i \in DOMAIN flushing : flushing[i].usable}
Flushed == {flushing[i].data : i \in Flushes}
Window == IF pending.usable THEN {pending.data} ELSE {}
Assembled == {assembling[i].data : i \in DOMAIN assembling}
Reports == {i \in DOMAIN pipe : pipe[i].kind # "res"}
Reported == {pipe[i].change.data : i \in Reports}

(* Nothing of T was made before anything of S, but for the copies that an   *)
(* agent's death has made late.                                             *)
Before(S, T) == \A m \in S, n \in T : m <= n \/ n \in orphans
InOrder(s) == \A i, j \in DOMAIN s : i < j => s[i] <= s[j] \/ s[j] \in orphans

FlushesInOrder ==
  \A i, j \in Flushes : i < j => flushing[i].data <= flushing[j].data \/ flushing[j].data \in orphans

(* A change that is declared is followed by its last chunk, and it is in    *)
(* the assembler only as long as that is the next line, unless the agent    *)
(* died in between.                                                         *)
Ending(c) == [kind |-> "final", change |-> c]
PipeInv ==
  /\ \A i, j \in Reports : i < j => pipe[i].change.data <= pipe[j].change.data
  /\ \A k \in DOMAIN pipe :
       pipe[k].kind = "declared" /\ pipe[k].change.data \notin orphans
         => k + 1 \in DOMAIN pipe /\ pipe[k + 1] = Ending(pipe[k].change)

StreamInv ==
  \A i \in DOMAIN assembling :
    \/ assembling[i].data \in orphans
    \/ i = Len(assembling) /\ pipe # <<>> /\ Line = Ending(assembling[i])

OrderInv ==
  /\ PipeInv /\ StreamInv
  /\ InOrder(history) /\ InOrder(ingesting) /\ FlushesInOrder
  /\ Before(ToSet(history), ToSet(ingesting) \cup Flushed \cup Window \cup Assembled \cup Reported)
  /\ Before(ToSet(ingesting), Flushed \cup Window \cup Assembled \cup Reported)
  /\ Before(Flushed, Window \cup Assembled \cup Reported)
  /\ Before(Window, Assembled \cup Reported)
  /\ Before(Assembled, Reported)

LEMMA OnTheWay ==
  ASSUME CaptureTypes
  PROVE  /\ ToSet(history) \subseteq Counts /\ ToSet(ingesting) \subseteq Counts
         /\ Flushed \subseteq Counts /\ Window \subseteq Counts
         /\ Assembled \subseteq Counts /\ Reported \subseteq Counts
<1>1. ToSet(history) \subseteq Counts /\ ToSet(ingesting) \subseteq Counts
  BY DEF CaptureTypes, ToSet
<1>2. \A c \in Changes : c.usable => c.data \in Counts
  BY DEF Changes, None
<1>3. Flushed \subseteq Counts /\ Window \subseteq Counts
  <2>1. \A i \in DOMAIN flushing : flushing[i] \in Changes
    BY DEF CaptureTypes
  <2> QED BY <1>2, <2>1 DEF CaptureTypes, Flushed, Flushes, Window
<1>4. \A c \in Flights : c.data \in Counts
  BY DEF Flights
<1>5. Assembled \subseteq Counts
  <2>1. \A i \in DOMAIN assembling : assembling[i] \in Flights
    BY DEF CaptureTypes
  <2> QED BY <1>4, <2>1 DEF Assembled
<1>6. Reported \subseteq Counts
  <2>1. \A i \in DOMAIN pipe : pipe[i] \in Lines
    BY DEF CaptureTypes
  <2>2. \A i \in Reports : pipe[i].change \in Flights
    BY <2>1 DEF Reports, Lines
  <2> QED BY <1>4, <2>2 DEF Reported
<1> QED BY <1>1, <1>3, <1>5, <1>6

(* What a tick adds comes last, and whole.                                  *)
LEMMA AddsReports ==
  ASSUME CaptureTypes, OrderInv, TickReads
  PROVE  PipeInv' /\ Reported' \subseteq Reported \cup {Len(copies)} /\ (pipe # <<>> => pipe' # <<>> /\ Line' = Line)
<1>1. reading /\ UNCHANGED orphans
  BY DEF TickReads, ghosts
<1>2. PICK n \in lastCount..Len(copies) :
        LET line(kind) == [kind |-> kind, change |-> Change(n, Len(copies))]
        IN  \/ pipe' = Append(pipe, line("inline"))
            \/ pipe' = pipe \o <<line("declared"), line("final")>>
  BY DEF TickReads
<1> DEFINE c == Change(n, Len(copies))
           line(kind) == [kind |-> kind, change |-> c]
<1>3. c.data = Len(copies)
  BY <1>1, ReadsFlight
<1>4. \A kind : line(kind).kind = kind /\ line(kind).change = c
  OBVIOUS
<1>5. line("final") = Ending(c)
  BY DEF Ending
<1>6. \/ pipe' = Append(pipe, line("inline"))
      \/ pipe' = pipe \o <<line("declared"), line("final")>>
  BY <1>2
<1> HIDE DEF line, c
<1>7. pipe \in Seq(Lines) /\ Len(pipe) \in Nat /\ DOMAIN pipe = 1..Len(pipe)
  BY DEF CaptureTypes
<1>8. /\ \A i \in DOMAIN pipe : i \in DOMAIN pipe' /\ pipe'[i] = pipe[i]
      /\ \A i \in DOMAIN pipe' :
           \/ i \in DOMAIN pipe
           \/ i \in Nat /\ i > Len(pipe) /\ pipe'[i].kind # "declared" /\ pipe'[i].change = c
           \/ /\ i = Len(pipe) + 1 /\ pipe'[i].change = c
              /\ i + 1 \in DOMAIN pipe' /\ pipe'[i + 1] = Ending(c)
      /\ Len(pipe') > 0 /\ (pipe # <<>> => Head(pipe') = Head(pipe))
  <2>1. CASE pipe' = Append(pipe, line("inline"))
    BY <1>4, <1>7, <2>1
  <2>2. CASE pipe' = pipe \o <<line("declared"), line("final")>>
    <3>1. /\ DOMAIN pipe' = 1..(Len(pipe) + 2) /\ Len(pipe') = Len(pipe) + 2
          /\ \A i \in DOMAIN pipe : pipe'[i] = pipe[i]
          /\ pipe'[Len(pipe) + 1] = line("declared") /\ pipe'[Len(pipe) + 2] = line("final")
          /\ pipe # <<>> => Head(pipe') = Head(pipe)
      BY <1>7, <2>2
    <3> QED BY <1>4, <1>5, <1>7, <3>1
  <2> QED BY <1>6, <2>1, <2>2
<1>9. \A i \in Reports' : i \in Reports \/ (i > Len(pipe) /\ pipe'[i].change.data = Len(copies))
  BY <1>3, <1>7, <1>8 DEF Reports
<1>10. \A i \in Reports : /\ i \in 1..Len(pipe) /\ pipe'[i] = pipe[i]
                          /\ pipe[i].change.data \in Nat /\ pipe[i].change.data <= Len(copies)
  <2>1. \A i \in Reports : pipe[i].change.data \in Counts
    BY OnTheWay DEF Reported
  <2> QED BY <1>7, <1>8, <2>1 DEF Reports, Counts
<1>11. \A i, j \in Reports' : i < j => pipe'[i].change.data <= pipe'[j].change.data
  <2> SUFFICES ASSUME NEW i \in Reports', NEW j \in Reports', i < j
               PROVE  pipe'[i].change.data <= pipe'[j].change.data
    OBVIOUS
  <2>1. Len(copies) \in Nat
    BY DEF CaptureTypes
  <2>2. CASE i \in Reports /\ j \in Reports
    BY <1>10, <2>2 DEF OrderInv, PipeInv
  <2>3. CASE j \notin Reports
    <3>1. pipe'[j].change.data = Len(copies)
      BY <1>9, <2>3
    <3>2. i \in Reports \/ pipe'[i].change.data = Len(copies)
      BY <1>9
    <3> QED BY <1>10, <2>1, <3>1, <3>2
  <2>4. CASE i \notin Reports /\ j \in Reports
    <3>1. i > Len(pipe) /\ j \in 1..Len(pipe) /\ i \in Nat
      BY <1>7, <1>8, <1>9, <1>10, <2>4 DEF Reports
    <3> QED BY <1>7, <3>1
  <2> QED BY <2>2, <2>3, <2>4
<1>12. ASSUME NEW k \in DOMAIN pipe', pipe'[k].kind = "declared", pipe'[k].change.data \notin orphans'
       PROVE  k + 1 \in DOMAIN pipe' /\ pipe'[k + 1] = Ending(pipe'[k].change)
  <2>1. CASE k \in DOMAIN pipe
    <3>1. k + 1 \in DOMAIN pipe /\ pipe[k + 1] = Ending(pipe[k].change)
      BY <1>1, <1>8, <1>12, <2>1 DEF OrderInv, PipeInv
    <3> QED BY <1>8, <2>1, <3>1
  <2>2. CASE k \notin DOMAIN pipe
    BY <1>8, <1>12, <2>2
  <2> QED BY <2>1, <2>2
<1>13. PipeInv'
  BY <1>11, <1>12 DEF PipeInv
<1>14. Reported' \subseteq Reported \cup {Len(copies)}
  BY <1>9, <1>10 DEF Reported
<1> QED BY <1>8, <1>13, <1>14 DEF Line

LEMMA AddsAnswer ==
  ASSUME CaptureTypes, PipeInv, NEW r \in Ids, pipe' = Append(pipe, [kind |-> "res", n |-> r]), UNCHANGED orphans
  PROVE  PipeInv' /\ Reported' = Reported /\ (pipe # <<>> => pipe' # <<>> /\ Line' = Line)
<1> DEFINE line == [kind |-> "res", n |-> r]
<1>1. line.kind = "res" /\ pipe' = Append(pipe, line)
  OBVIOUS
<1> HIDE DEF line
<1>2. /\ pipe \in Seq(Lines) /\ Len(pipe) \in Nat /\ DOMAIN pipe = 1..Len(pipe)
      /\ DOMAIN pipe' = 1..(Len(pipe) + 1) /\ pipe'[Len(pipe) + 1] = line
      /\ \A i \in DOMAIN pipe : pipe'[i] = pipe[i]
      /\ pipe # <<>> => pipe' # <<>> /\ Head(pipe') = Head(pipe)
  <2>1. pipe \in Seq(Lines)
    BY DEF CaptureTypes
  <2> QED BY <1>1, <2>1
<1>3. Reports' = Reports /\ \A i \in Reports : pipe'[i] = pipe[i]
  BY <1>1, <1>2 DEF Reports
<1>4. Reported' = Reported
  BY <1>3 DEF Reported
<1>5. ASSUME NEW k \in DOMAIN pipe', pipe'[k].kind = "declared", pipe'[k].change.data \notin orphans'
      PROVE  k + 1 \in DOMAIN pipe' /\ pipe'[k + 1] = Ending(pipe'[k].change)
  <2>1. k \in DOMAIN pipe
    BY <1>1, <1>2, <1>5
  <2>2. k + 1 \in DOMAIN pipe /\ pipe[k + 1] = Ending(pipe[k].change)
    BY <1>2, <1>5, <2>1 DEF PipeInv
  <2> QED BY <1>2, <2>1, <2>2
<1>6. PipeInv'
  BY <1>3, <1>5 DEF PipeInv
<1> QED BY <1>2, <1>4, <1>6 DEF Line

(* What is read comes first, and after a declaration its last chunk.        *)
LEMMA ReadsReport ==
  ASSUME CaptureTypes, PipeInv, pipe # <<>>, pipe' = Tail(pipe), UNCHANGED orphans
  PROVE  /\ PipeInv' /\ Reported' \subseteq Reported
         /\ Line.kind # "res" =>
              Line.change.data \in Reported /\ \A n \in Reported' : Line.change.data <= n
         /\ Line.kind = "declared" =>
              Line.change.data \in orphans \/ (pipe' # <<>> /\ Line' = Ending(Line.change))
<1>1. /\ Line = pipe[1] /\ 1 \in DOMAIN pipe
      /\ \A i \in DOMAIN pipe' : i \in Nat /\ i >= 1 /\ i + 1 \in DOMAIN pipe /\ pipe'[i] = pipe[i + 1]
  BY TailOf DEF CaptureTypes, Line
<1>2. \A i \in Reports' : i \in Nat /\ i >= 1 /\ i + 1 \in Reports /\ pipe'[i] = pipe[i + 1]
  BY <1>1 DEF Reports
<1>3. /\ pipe \in Seq(Lines) /\ DOMAIN pipe = 1..Len(pipe) /\ Len(pipe) \in Nat
      /\ DOMAIN pipe' = 1..(Len(pipe) - 1)
  BY DEF CaptureTypes
<1>4. ASSUME NEW i \in Reports', NEW j \in Reports', i < j
      PROVE  pipe'[i].change.data <= pipe'[j].change.data
  <2>1. i + 1 \in Reports /\ j + 1 \in Reports /\ i + 1 < j + 1
    BY <1>2, <1>4
  <2>2. pipe[i + 1].change.data <= pipe[j + 1].change.data
    BY <2>1 DEF PipeInv
  <2> QED BY <1>2, <2>2
<1>5. ASSUME NEW k \in DOMAIN pipe', pipe'[k].kind = "declared", pipe'[k].change.data \notin orphans'
      PROVE  k + 1 \in DOMAIN pipe' /\ pipe'[k + 1] = Ending(pipe'[k].change)
  <2>1. k \in Nat /\ k >= 1 /\ k + 1 \in DOMAIN pipe /\ pipe'[k] = pipe[k + 1]
    BY <1>1
  <2>2. (k + 1) + 1 \in DOMAIN pipe /\ pipe[(k + 1) + 1] = Ending(pipe[k + 1].change)
    BY <1>5, <2>1 DEF PipeInv
  <2>3. k + 1 \in DOMAIN pipe'
    BY <1>3, <2>1, <2>2
  <2> QED BY <1>1, <2>1, <2>2, <2>3
<1>6. PipeInv'
  BY <1>4, <1>5 DEF PipeInv
<1>7. Reported' \subseteq Reported
  BY <1>2 DEF Reported
<1>8. ASSUME Line.kind # "res"
      PROVE  Line.change.data \in Reported /\ \A n \in Reported' : Line.change.data <= n
  <2>1. 1 \in Reports
    BY <1>1, <1>8 DEF Reports
  <2>2. ASSUME NEW i \in Reports'
        PROVE  Line.change.data <= pipe'[i].change.data
    <3>1. i \in Nat /\ i >= 1 /\ i + 1 \in Reports /\ pipe'[i] = pipe[i + 1]
      BY <1>2
    <3>2. 1 < i + 1
      BY <3>1
    <3>3. pipe[1].change.data <= pipe[i + 1].change.data
      BY <2>1, <3>1, <3>2 DEF PipeInv
    <3> QED BY <1>1, <3>1, <3>3
  <2> QED BY <1>1, <2>1, <2>2 DEF Reported
<1>9. ASSUME Line.kind = "declared", Line.change.data \notin orphans
      PROVE  pipe' # <<>> /\ Line' = Ending(Line.change)
  <2>1. 1 + 1 \in DOMAIN pipe /\ pipe[1 + 1] = Ending(Line.change)
    BY <1>1, <1>9 DEF PipeInv
  <2>2. 1 \in DOMAIN pipe' /\ pipe'[1] = Ending(Line.change)
    <3>1. 1 \in DOMAIN pipe'
      BY <1>3, <2>1
    <3> QED BY <1>1, <2>1, <3>1
  <2>3. pipe' # <<>>
    <3>1. DOMAIN <<>> = {}
      OBVIOUS
    <3> QED BY <2>2, <3>1
  <2>4. pipe' \in Seq(Lines)
    BY <1>3
  <2>5. Head(pipe') = pipe'[1]
    BY <2>3, <2>4, TailOf
  <2> QED BY <2>2, <2>3, <2>5 DEF Line
<1> QED BY <1>6, <1>7, <1>8, <1>9

(* What the order asks of a step that moves nothing between the queues      *)
(* behind the window: a change that opens the window, or a stream, has been *)
(* the next to come.                                                        *)
LEMMA Arrives ==
  ASSUME CaptureTypes, OrderInv, UNCHANGED queues, orphans \subseteq orphans',
         PipeInv', StreamInv',
         Reported' \subseteq Reported \cup {Len(copies)},
         Assembled' \subseteq Assembled \cup Reported,
         Window' \subseteq Window \cup Assembled \cup Reported,
         \A m \in Assembled' \ Assembled, n \in Reported' : m <= n \/ n \in orphans',
         \A m \in Window' \ Window, n \in Assembled' \cup Reported' : m <= n \/ n \in orphans'
  PROVE  OrderInv'
<1>1. /\ ToSet(history)' = ToSet(history) /\ ToSet(ingesting)' = ToSet(ingesting)
      /\ Flushes' = Flushes /\ Flushed' = Flushed
  BY DEF queues, Flushes, Flushed
<1>2. \A n \in ToSet(history) \cup ToSet(ingesting) \cup Flushed \cup Window \cup Assembled :
        n <= Len(copies)
  BY OnTheWay DEF Counts
<1>3. /\ Before(ToSet(history), ToSet(ingesting) \cup Flushed \cup Window \cup Assembled \cup Reported)
      /\ Before(ToSet(ingesting), Flushed \cup Window \cup Assembled \cup Reported)
      /\ Before(Flushed, Window \cup Assembled \cup Reported)
      /\ Before(Window, Assembled \cup Reported)
      /\ Before(Assembled, Reported)
  BY DEF OrderInv
<1>4. ASSUME NEW S, NEW T, Before(S, T), \A m \in S : m <= Len(copies)
      PROVE  \A m \in S, n \in T \cup {Len(copies)} : m <= n \/ n \in orphans'
  BY <1>4 DEF Before
<1>5. /\ \A m \in ToSet(history), n \in ToSet(ingesting) \cup Flushed \cup Window' \cup Assembled' \cup Reported' :
             m <= n \/ n \in orphans'
      /\ \A m \in ToSet(ingesting), n \in Flushed \cup Window' \cup Assembled' \cup Reported' :
             m <= n \/ n \in orphans'
      /\ \A m \in Flushed, n \in Window' \cup Assembled' \cup Reported' : m <= n \/ n \in orphans'
  BY <1>2, <1>3 DEF Before
<1>6. \A m \in Window', n \in Assembled' \cup Reported' : m <= n \/ n \in orphans'
  BY <1>2, <1>3 DEF Before
<1>7. \A m \in Assembled', n \in Reported' : m <= n \/ n \in orphans'
  BY <1>2, <1>3 DEF Before
<1>8. InOrder(history)' /\ InOrder(ingesting)' /\ FlushesInOrder'
  BY <1>1 DEF queues, OrderInv, InOrder, FlushesInOrder
<1> QED BY <1>1, <1>5, <1>6, <1>7, <1>8 DEF OrderInv, Before

LEMMA OnChangedWindow ==
  ASSUME NEW c, OnChanged(c)
  PROVE  Window' \subseteq Window \/ Window' = {c.data}
<1>1. pending' = pending \/ \E usable \in BOOLEAN : pending' = [data |-> c.data, usable |-> usable]
  BY DEF OnChanged
<1> QED BY <1>1 DEF Window

(* A change that comes from the assembler comes before all that is left.    *)
LEMMA StreamsFirst ==
  ASSUME CaptureTypes, OrderInv, NEW a \in Assembled, NEW n \in Assembled \cup Reported
  PROVE  a <= n \/ n \in orphans
<1>1. CASE n \in Reported
  BY <1>1 DEF OrderInv, Before
<1>2. CASE n \in Assembled /\ n \notin orphans
  <2>1. PICK i \in DOMAIN assembling : assembling[i].data = n
    BY <1>2 DEF Assembled
  <2>2. pipe # <<>> /\ Line = Ending(assembling[i])
    BY <1>2, <2>1 DEF OrderInv, StreamInv
  <2>3. 1 \in DOMAIN pipe /\ pipe[1] = Line
    BY <2>2, TailOf DEF CaptureTypes, Line
  <2>4. Line.kind = "final" /\ Line.change.data = n
    BY <2>1, <2>2 DEF Ending
  <2>5. n \in Reported
    BY <2>3, <2>4 DEF Reported, Reports
  <2> QED BY <1>1, <2>5
<1> QED BY <1>1, <1>2

(* The streams that are left when the last chunk of one has been read.      *)
LEMMA StreamsLeft ==
  ASSUME CaptureTypes, OrderInv, NEW i \in DOMAIN assembling, assembling' = RemoveAt(assembling, i)
  PROVE  /\ Assembled' \subseteq Assembled /\ assembling[i].data \in Assembled
         /\ UNCHANGED <<pipe, orphans>> => StreamInv'
         /\ Line = Ending(assembling[i]) => Assembled' \subseteq orphans
<1>1. /\ assembling \in Seq(Flights) /\ DOMAIN assembling = 1..Len(assembling) /\ Len(assembling) \in Nat
      /\ assembling' \in Seq(Flights) /\ DOMAIN assembling' = 1..(Len(assembling) - 1)
      /\ Len(assembling') = Len(assembling) - 1
      /\ \A m \in DOMAIN assembling' : assembling'[m] = IF m < i THEN assembling[m] ELSE assembling[m + 1]
  <2>1. assembling \in Seq(Flights)
    BY DEF CaptureTypes
  <2>2. /\ assembling' \in Seq(Flights) /\ DOMAIN assembling' = 1..(Len(assembling) - 1)
        /\ DOMAIN assembling = 1..Len(assembling) /\ Len(assembling) \in Nat
        /\ Len(assembling') = Len(assembling) - 1
        /\ \A m \in DOMAIN assembling' : assembling'[m] = IF m < i THEN assembling[m] ELSE assembling[m + 1]
    BY <2>1, Removed
  <2> QED BY <2>1, <2>2
<1> DEFINE was(m) == IF m < i THEN m ELSE m + 1
<1>2. \A m \in DOMAIN assembling' :
        /\ m \in Nat /\ was(m) \in DOMAIN assembling /\ was(m) # i /\ assembling'[m] = assembling[was(m)]
        /\ was(m) = Len(assembling) => m = Len(assembling')
  BY <1>1
<1>3. Assembled' \subseteq Assembled
  BY <1>2 DEF Assembled
<1>4. ASSUME UNCHANGED <<pipe, orphans>>
      PROVE  StreamInv'
  BY <1>2, <1>4 DEF OrderInv, StreamInv, Line
<1>5. ASSUME Line = Ending(assembling[i]), NEW m \in DOMAIN assembling'
      PROVE  assembling'[m].data \in orphans
  <2>1. CASE was(m) = Len(assembling)
    <3>1. assembling[i].data \in orphans
      BY <1>2, <2>1 DEF OrderInv, StreamInv
    <3>2. ASSUME assembling[was(m)].data \notin orphans
          PROVE  FALSE
      <4>1. Line = Ending(assembling[was(m)])
        BY <1>2, <3>2 DEF OrderInv, StreamInv
      <4>2. assembling[was(m)] = assembling[i]
        BY <1>5, <4>1 DEF Ending
      <4> QED BY <3>1, <3>2, <4>2
    <3> QED BY <1>2, <3>2
  <2>2. CASE was(m) # Len(assembling)
    BY <1>2, <2>2 DEF OrderInv, StreamInv
  <2> QED BY <2>1, <2>2
<1>6. Line = Ending(assembling[i]) => Assembled' \subseteq orphans
  BY <1>5 DEF Assembled
<1>7. assembling[i].data \in Assembled
  BY DEF Assembled
<1> QED BY <1>3, <1>4, <1>6, <1>7

(* When the next line is no last chunk, no stream is open that a living     *)
(* agent will end.                                                          *)
LEMMA OnlyOrphans ==
  ASSUME OrderInv, pipe = <<>> \/ Line.kind # "final"
  PROVE  Assembled \subseteq orphans
<1>1. \A c : Ending(c).kind = "final"
  BY DEF Ending
<1> QED BY <1>1 DEF OrderInv, StreamInv, Assembled

(* The steps that leave the streams alone.                                  *)
LEMMA ArrivesElsewhere ==
  ASSUME CaptureTypes, OrderInv,
         \/ UserCopies \/ Tick \/ TickReads \/ Writes \/ Rewatch \/ Recall
         \/ StopCapture \/ Unsubscribe \/ CloseStore \/ UNCHANGED vars
         \/ \E r \in Ids : RecallGoesOn(r) \/ RecallTimesOut(r)
  PROVE  OrderInv'
<1>1. UNCHANGED <<queues, assembling, orphans>> /\ pending' \in {pending, None}
  BY DEF UserCopies, Tick, TickReads, Writes, Rewatch, Recall, StopCapture, Unsubscribe, CloseStore,
         vars, RecallGoesOn, RecallTimesOut, ghosts
<1>2. Window' \subseteq Window /\ Assembled' = Assembled
  BY <1>1 DEF Window, None, Assembled
<1>3. PipeInv' /\ Reported' \subseteq Reported \cup {Len(copies)}
      /\ (pipe # <<>> => pipe' # <<>> /\ Line' = Line)
  <2>1. CASE UNCHANGED pipe
    BY <1>1, <2>1 DEF OrderInv, PipeInv, Reported, Reports, Line
  <2>2. CASE TickReads
    BY <2>2, AddsReports
  <2>3. CASE Writes
    <3>1. inbox # <<>> /\ pipe' = Append(pipe, [kind |-> "res", n |-> Head(inbox)])
      BY <2>3 DEF Writes
    <3>2. Head(inbox) \in Ids
      BY <3>1, TailOf DEF CaptureTypes
    <3> QED BY <1>1, <3>1, <3>2, AddsAnswer DEF OrderInv
  <2>4. TickReads \/ Writes \/ UNCHANGED pipe
    BY DEF UserCopies, Tick, Rewatch, Recall, StopCapture, Unsubscribe, CloseStore, vars,
           RecallGoesOn, RecallTimesOut
  <2> QED BY <2>1, <2>2, <2>3, <2>4
<1>4. StreamInv'
  BY <1>1, <1>3 DEF OrderInv, StreamInv
<1> QED BY <1>1, <1>2, <1>3, <1>4, Arrives

LEMMA ArrivesRead ==
  ASSUME CaptureTypes, OrderInv, ReadsAnswer \/ ReadsInline \/ ReadsDeclared
  PROVE  OrderInv'
<1>1. /\ pipe # <<>> /\ pipe' = Tail(pipe) /\ Line.kind # "final" /\ UNCHANGED <<queues, orphans>>
  BY DEF ReadsAnswer, ReadsInline, ReadsDeclared, HostReads, ghosts
<1>2. /\ PipeInv' /\ Reported' \subseteq Reported
      /\ Line.kind # "res" =>
           Line.change.data \in Reported /\ \A n \in Reported' : Line.change.data <= n
      /\ Line.kind = "declared" =>
           Line.change.data \in orphans \/ (pipe' # <<>> /\ Line' = Ending(Line.change))
  BY <1>1, ReadsReport DEF OrderInv
<1>3. Assembled \subseteq orphans
  BY <1>1, OnlyOrphans
<1>4. CASE ReadsAnswer \/ ReadsInline
  <2>1. UNCHANGED assembling /\ Assembled' = Assembled
    BY <1>4 DEF ReadsAnswer, ReadsInline, Assembled
  <2>2. StreamInv'
    BY <1>1, <1>3, <2>1 DEF StreamInv, Assembled
  <2>3. Window' \subseteq Window \/ (Line.kind # "res" /\ Window' = {Line.change.data})
    <3>1. CASE ReadsAnswer
      BY <3>1 DEF ReadsAnswer, Window
    <3>2. CASE ReadsInline
      BY <3>2, OnChangedWindow DEF ReadsInline, HostReads
    <3> QED BY <1>4, <3>1, <3>2
  <2> QED BY <1>1, <1>2, <1>3, <2>1, <2>2, <2>3, Arrives
<1>5. CASE ReadsDeclared
  <2>1. /\ assembling' = Append(assembling, Line.change) /\ UNCHANGED pending
        /\ Line.kind = "declared" /\ Line.change \in Flights
    BY <1>5, LineTypes DEF ReadsDeclared, HostReads
  <2>2. /\ assembling' \in Seq(Flights) /\ Len(assembling') = Len(assembling) + 1
        /\ assembling'[Len(assembling) + 1] = Line.change
        /\ \A i \in DOMAIN assembling : assembling'[i] = assembling[i]
        /\ \A i \in DOMAIN assembling' : i \in DOMAIN assembling \/ i = Len(assembling) + 1
    <3>1. assembling \in Seq(Flights)
      BY DEF CaptureTypes
    <3> QED BY <2>1, <3>1, Appended
  <2>3. Assembled' \subseteq Assembled \cup {Line.change.data}
    BY <2>2 DEF Assembled
  <2>4. Window' = Window
    BY <2>1 DEF Window
  <2>5. StreamInv'
    <3>1. \A i \in DOMAIN assembling : assembling'[i].data \in orphans
      BY <1>3, <2>2 DEF Assembled
    <3> QED BY <1>1, <1>2, <2>1, <2>2, <3>1 DEF StreamInv
  <2> QED BY <1>1, <1>2, <2>1, <2>3, <2>4, <2>5, Arrives
<1> QED BY <1>4, <1>5

LEMMA ArrivesFinal ==
  ASSUME CaptureTypes, OrderInv, ReadsFinal
  PROVE  OrderInv'
<1>1. pipe # <<>> /\ pipe' = Tail(pipe) /\ Line.kind = "final" /\ UNCHANGED <<queues, orphans>>
  BY DEF ReadsFinal, HostReads
<1>2. /\ PipeInv' /\ Reported' \subseteq Reported
      /\ Line.change.data \in Reported /\ \A n \in Reported' : Line.change.data <= n
  BY <1>1, ReadsReport DEF OrderInv
<1>3. Line = Ending(Line.change)
  <2>1. Line \in Lines
    BY <1>1, LineTypes
  <2> QED BY <1>1, <2>1 DEF Lines, Ending
<1>4. CASE \E i \in DOMAIN assembling :
             /\ assembling[i] = Line.change /\ OnChanged(Line.change)
             /\ assembling' = RemoveAt(assembling, i)
  <2>1. PICK i \in DOMAIN assembling :
             /\ assembling[i] = Line.change /\ OnChanged(Line.change)
             /\ assembling' = RemoveAt(assembling, i)
    BY <1>4
  <2>2. Assembled' \subseteq Assembled /\ Assembled' \subseteq orphans
    BY <1>3, <2>1, StreamsLeft
  <2>3. StreamInv'
    BY <1>1, <2>2 DEF StreamInv, Assembled
  <2>4. Window' \subseteq Window \/ Window' = {Line.change.data}
    BY <2>1, OnChangedWindow
  <2> QED BY <1>1, <1>2, <2>2, <2>3, <2>4, Arrives
<1>5. CASE ~Contains(assembling, Line.change) /\ UNCHANGED <<assembling, pending>>
  <2>1. \A i \in DOMAIN assembling : assembling[i] # Line.change
    BY <1>5 DEF Contains
  <2>2. \A i \in DOMAIN assembling : assembling[i].data \in orphans
    <3>1. \A c : Ending(c).change = c
      BY DEF Ending
    <3> QED BY <2>1, <3>1 DEF OrderInv, StreamInv
  <2>3. StreamInv' /\ Assembled' = Assembled /\ Window' = Window
    BY <1>1, <1>5, <2>2 DEF StreamInv, Assembled, Window
  <2> QED BY <1>1, <1>2, <2>3, Arrives
<1> QED BY <1>4, <1>5 DEF ReadsFinal

LEMMA ArrivesLate ==
  ASSUME CaptureTypes, OrderInv, StreamTimesOut
  PROVE  OrderInv'
<1>1. /\ assembling # <<>> /\ OnChanged(Head(assembling)) /\ assembling' = Tail(assembling)
      /\ UNCHANGED <<pipe, queues, orphans>>
  BY DEF StreamTimesOut
<1>2. 1 \in DOMAIN assembling /\ assembling[1] = Head(assembling) /\ assembling' = RemoveAt(assembling, 1)
  BY <1>1, TailOf, RemovedFirst DEF CaptureTypes
<1>3. Assembled' \subseteq Assembled /\ Head(assembling).data \in Assembled /\ StreamInv'
  BY <1>1, <1>2, StreamsLeft
<1>4. PipeInv' /\ Reported' = Reported
  BY <1>1 DEF OrderInv, PipeInv, Reported, Reports
<1>5. Window' \subseteq Window \/ Window' = {Head(assembling).data}
  BY <1>1, OnChangedWindow
<1>6. \A n \in Assembled' \cup Reported' : Head(assembling).data <= n \/ n \in orphans
  BY <1>3, <1>4, StreamsFirst
<1> QED BY <1>1, <1>3, <1>4, <1>5, <1>6, Arrives

(* The lines that a death leaves in the pipe: the last may be a declaration *)
(* that nothing follows.                                                    *)
LEMMA ArrivesReplaced ==
  ASSUME CaptureTypes, OrderInv, AgentReplaced
  PROVE  OrderInv'
<1>1. PICK n \in 0..Len(pipe) :
        /\ pipe' = SubSeq(pipe, 1, n)
        /\ orphans' = orphans \cup {pipe[k].change.data : k \in {m \in {n} \cap DOMAIN pipe :
                                                               pipe[m].kind = "declared"}}
  BY DEF AgentReplaced
<1>2. /\ UNCHANGED queues /\ assembling' = <<>>
      /\ IF assembling = <<>> THEN UNCHANGED pending ELSE OnChanged(Head(assembling))
  BY DEF AgentReplaced
<1>3. /\ pipe \in Seq(Lines) /\ Len(pipe) \in Nat /\ DOMAIN pipe = 1..Len(pipe) /\ DOMAIN pipe' = 1..n
      /\ \A i \in DOMAIN pipe' : i \in DOMAIN pipe /\ pipe'[i] = pipe[i]
  <2>1. pipe \in Seq(Lines)
    BY DEF CaptureTypes
  <2> QED BY <1>1, <2>1
<1>4. orphans \subseteq orphans'
  BY <1>1
<1>5. n \in DOMAIN pipe /\ pipe[n].kind = "declared" => pipe[n].change.data \in orphans'
  BY <1>1
<1>6. Reports' \subseteq Reports /\ \A i \in Reports' : pipe'[i] = pipe[i]
  BY <1>3 DEF Reports
<1>7. Reported' \subseteq Reported
  BY <1>6 DEF Reported
<1>8. PipeInv'
  <2>1. \A i, j \in Reports' : i < j => pipe'[i].change.data <= pipe'[j].change.data
    BY <1>6 DEF OrderInv, PipeInv
  <2>2. ASSUME NEW k \in DOMAIN pipe', pipe'[k].kind = "declared", pipe'[k].change.data \notin orphans'
        PROVE  k + 1 \in DOMAIN pipe' /\ pipe'[k + 1] = Ending(pipe'[k].change)
    <3>1. k \in DOMAIN pipe /\ pipe'[k] = pipe[k] /\ k # n
      BY <1>3, <1>5, <2>2
    <3>2. k + 1 \in DOMAIN pipe /\ pipe[k + 1] = Ending(pipe[k].change)
      BY <1>4, <2>2, <3>1 DEF OrderInv, PipeInv
    <3>3. k + 1 \in DOMAIN pipe'
      BY <1>3, <3>1
    <3> QED BY <1>3, <3>1, <3>2, <3>3
  <2> QED BY <2>1, <2>2 DEF PipeInv
<1>9. StreamInv' /\ Assembled' = {}
  BY <1>2 DEF StreamInv, Assembled
<1>10. \/ Window' \subseteq Window
       \/ /\ assembling # <<>> /\ Window' = {Head(assembling).data}
          /\ Head(assembling).data \in Assembled
  <2>1. CASE assembling = <<>>
    BY <1>2, <2>1 DEF Window
  <2>2. CASE assembling # <<>>
    <3>1. 1 \in DOMAIN assembling /\ assembling[1] = Head(assembling)
      BY <2>2, TailOf DEF CaptureTypes
    <3> QED BY <1>2, <2>2, <3>1, OnChangedWindow DEF Assembled
  <2> QED BY <2>1, <2>2
<1>11. \A m \in Window' \ Window, k \in Reported' : m <= k \/ k \in orphans'
  BY <1>4, <1>7, <1>10, StreamsFirst
<1> QED BY <1>2, <1>4, <1>7, <1>8, <1>9, <1>10, <1>11, Arrives

LEMMA OrderEnd ==
  ASSUME NEW s \in Seq(Counts), InOrder(s), NEW n \in Counts, Before(ToSet(s), {n})
  PROVE  InOrder(Append(s, n))
<1>1. /\ DOMAIN Append(s, n) = 1..(Len(s) + 1) /\ Append(s, n)[Len(s) + 1] = n
      /\ DOMAIN s = 1..Len(s) /\ Len(s) \in Nat /\ \A i \in DOMAIN s : Append(s, n)[i] = s[i]
  BY Appended
<1>2. \A i \in DOMAIN s : s[i] <= n \/ n \in orphans
  BY DEF Before, ToSet
<1> SUFFICES ASSUME NEW i \in DOMAIN Append(s, n), NEW j \in DOMAIN Append(s, n), i < j
             PROVE  Append(s, n)[i] <= Append(s, n)[j] \/ Append(s, n)[j] \in orphans
  BY DEF InOrder
<1>3. i \in DOMAIN s
  BY <1>1
<1>4. CASE j \in DOMAIN s
  BY <1>1, <1>3, <1>4 DEF InOrder
<1>5. CASE j = Len(s) + 1
  BY <1>1, <1>2, <1>3, <1>5
<1> QED BY <1>1, <1>4, <1>5

LEMMA OrderRest ==
  ASSUME NEW s \in Seq(Counts), s # <<>>, InOrder(s)
  PROVE  InOrder(Tail(s)) /\ Before({Head(s)}, ToSet(Tail(s)))
<1>1. /\ Head(s) = s[1] /\ 1 \in DOMAIN s
      /\ \A i \in DOMAIN Tail(s) : i \in Nat /\ i >= 1 /\ i + 1 \in DOMAIN s /\ Tail(s)[i] = s[i + 1]
  BY TailOf
<1>2. InOrder(Tail(s))
  <2> SUFFICES ASSUME NEW i \in DOMAIN Tail(s), NEW j \in DOMAIN Tail(s), i < j
               PROVE  Tail(s)[i] <= Tail(s)[j] \/ Tail(s)[j] \in orphans
    BY DEF InOrder
  <2>1. i + 1 \in DOMAIN s /\ j + 1 \in DOMAIN s /\ i + 1 < j + 1
    BY <1>1
  <2>2. s[i + 1] <= s[j + 1] \/ s[j + 1] \in orphans
    BY <2>1 DEF InOrder
  <2> QED BY <1>1, <2>2
<1>3. \A i \in DOMAIN Tail(s) : s[1] <= Tail(s)[i] \/ Tail(s)[i] \in orphans
  <2> SUFFICES ASSUME NEW i \in DOMAIN Tail(s)
               PROVE  s[1] <= Tail(s)[i] \/ Tail(s)[i] \in orphans
    OBVIOUS
  <2>1. 1 < i + 1 /\ i + 1 \in DOMAIN s
    BY <1>1
  <2>2. s[1] <= s[i + 1] \/ s[i + 1] \in orphans
    BY <1>1, <2>1 DEF InOrder
  <2> QED BY <1>1, <2>2
<1> QED BY <1>1, <1>2, <1>3 DEF Before, ToSet

(* The first element of a queue comes before all that is behind the queue.  *)
LEMMA MovesStep ==
  ASSUME CaptureTypes, OrderInv, DebounceFires \/ Emit \/ Ingest
  PROVE  OrderInv'
<1>1. /\ UNCHANGED <<copies, pipe, assembling, orphans>>
      /\ Reported' = Reported /\ Assembled' = Assembled /\ PipeInv' /\ StreamInv'
  <2>1. UNCHANGED <<copies, pipe, assembling, orphans>>
    BY DEF DebounceFires, Emit, Ingest, agent, ghosts
  <2> QED BY <2>1 DEF Reported, Reports, Assembled, OrderInv, PipeInv, StreamInv, Line
<1> DEFINE Rest == Assembled \cup Reported
<1>2. /\ Before(ToSet(history), ToSet(ingesting) \cup Flushed \cup Window \cup Rest)
      /\ Before(ToSet(ingesting), Flushed \cup Window \cup Rest)
      /\ Before(Flushed, Window \cup Rest) /\ Before(Window, Rest)
  BY DEF OrderInv, Before
<1>3. ASSUME InOrder(history'), InOrder(ingesting'), FlushesInOrder',
             Before(ToSet(history'), ToSet(ingesting') \cup Flushed' \cup Window' \cup Rest),
             Before(ToSet(ingesting'), Flushed' \cup Window' \cup Rest),
             Before(Flushed', Window' \cup Rest), Before(Window', Rest)
      PROVE  OrderInv'
  BY <1>1, <1>3 DEF OrderInv, Before, InOrder
<1>4. CASE DebounceFires
  <2>1. /\ flushing' = Append(flushing, pending) /\ pending' = None /\ UNCHANGED <<ingesting, history>>
    BY <1>4 DEF DebounceFires
  <2>2. /\ flushing'[Len(flushing) + 1] = pending /\ DOMAIN flushing = 1..Len(flushing)
        /\ Len(flushing) \in Nat /\ \A i \in DOMAIN flushing : flushing'[i] = flushing[i]
        /\ \A i \in DOMAIN flushing' : i \in DOMAIN flushing \/ i = Len(flushing) + 1
    BY <2>1, Appended DEF CaptureTypes
  <2>3. \A i \in Flushes' : i \in Flushes \/ (i = Len(flushing) + 1 /\ pending.usable)
    BY <2>2 DEF Flushes
  <2>4. \A i \in Flushes : i \in 1..Len(flushing) /\ flushing'[i] = flushing[i] /\ flushing[i].data \in Flushed
    BY <2>2 DEF Flushes, Flushed
  <2>5. Flushed' \subseteq Flushed \cup Window /\ Window' = {}
    <3>1. \A i \in Flushes' : flushing'[i].data \in Flushed \cup Window
      BY <2>2, <2>3, <2>4 DEF Window
    <3> QED BY <2>1, <3>1 DEF Flushed, Window, None
  <2>6. FlushesInOrder'
    <3> SUFFICES ASSUME NEW i \in Flushes', NEW j \in Flushes', i < j
                 PROVE  flushing'[i].data <= flushing'[j].data \/ flushing'[j].data \in orphans
      BY <1>1 DEF FlushesInOrder
    <3>1. i \in Flushes
      BY <2>2, <2>3, <2>4
    <3>2. CASE j \in Flushes
      BY <2>4, <3>1, <3>2 DEF OrderInv, FlushesInOrder
    <3>3. CASE j = Len(flushing) + 1 /\ pending.usable
      BY <1>2, <2>2, <2>4, <3>1, <3>3 DEF Before, Window
    <3> QED BY <2>3, <3>2, <3>3
  <2> HIDE DEF Rest
  <2>7. InOrder(history') /\ InOrder(ingesting')
    BY <2>1 DEF OrderInv
  <2>8. /\ Before(ToSet(history'), ToSet(ingesting') \cup Flushed' \cup Window' \cup Rest)
        /\ Before(ToSet(ingesting'), Flushed' \cup Window' \cup Rest)
        /\ Before(Flushed', Window' \cup Rest) /\ Before(Window', Rest)
    BY <1>2, <2>1, <2>5 DEF Before
  <2> QED BY <1>3, <2>6, <2>7, <2>8
<1>5. CASE Emit
  <2>1. /\ flushing # <<>> /\ flushing \in Seq(Changes) /\ flushing' = Tail(flushing)
        /\ flushing[1].usable => ingesting' = Append(ingesting, flushing[1].data)
        /\ ~flushing[1].usable => ingesting' = ingesting
        /\ UNCHANGED <<pending, history>>
    BY <1>5, EmitsFirst
  <2>2. /\ 1 \in DOMAIN flushing
        /\ \A i \in DOMAIN flushing' : /\ i \in Nat /\ i >= 1 /\ i + 1 \in DOMAIN flushing
                                       /\ flushing'[i] = flushing[i + 1]
    BY <2>1, TailOf
  <2>3. \A i \in Flushes' : i \in Nat /\ i >= 1 /\ i + 1 \in Flushes /\ flushing'[i] = flushing[i + 1]
    BY <2>2 DEF Flushes
  <2>4. Flushed' \subseteq Flushed /\ Window' = Window
    BY <2>1, <2>3 DEF Flushed, Window
  <2>5. FlushesInOrder'
    <3> SUFFICES ASSUME NEW i \in Flushes', NEW j \in Flushes', i < j
                 PROVE  flushing'[i].data <= flushing'[j].data \/ flushing'[j].data \in orphans
      BY <1>1 DEF FlushesInOrder
    <3>1. /\ i + 1 \in Flushes /\ j + 1 \in Flushes
          /\ flushing'[i] = flushing[i + 1] /\ flushing'[j] = flushing[j + 1]
      BY <2>3
    <3>2. i \in Nat /\ j \in Nat
      BY <2>3
    <3>3. i + 1 < j + 1
      BY <3>2
    <3> QED BY <3>1, <3>3 DEF OrderInv, FlushesInOrder
  <2>6. CASE ~flushing[1].usable
    <3> HIDE DEF Rest
    <3>1. InOrder(history') /\ InOrder(ingesting')
      BY <2>1, <2>6 DEF OrderInv
    <3>2. /\ Before(ToSet(history'), ToSet(ingesting') \cup Flushed' \cup Window' \cup Rest)
          /\ Before(ToSet(ingesting'), Flushed' \cup Window' \cup Rest)
          /\ Before(Flushed', Window' \cup Rest) /\ Before(Window', Rest)
      BY <1>2, <2>1, <2>4, <2>6 DEF Before
    <3> QED BY <1>3, <2>5, <3>1, <3>2
  <2>7. CASE flushing[1].usable
    <3> DEFINE n == flushing[1].data
    <3>1. 1 \in Flushes /\ n \in Flushed
      BY <2>2, <2>7 DEF Flushes, Flushed
    <3>2. n \in Counts /\ ingesting \in Seq(Counts)
      BY <3>1, OnTheWay DEF CaptureTypes
    <3>3. \A i \in Flushes' : n <= flushing'[i].data \/ flushing'[i].data \in orphans
      <4> SUFFICES ASSUME NEW i \in Flushes'
                   PROVE  n <= flushing'[i].data \/ flushing'[i].data \in orphans
        OBVIOUS
      <4>1. i \in Nat /\ i >= 1 /\ i + 1 \in Flushes /\ flushing'[i] = flushing[i + 1]
        BY <2>3
      <4>2. 1 < i + 1
        BY <4>1
      <4> QED BY <3>1, <4>1, <4>2 DEF OrderInv, FlushesInOrder
    <3> HIDE DEF Rest
    <3>4. Before({n}, Flushed' \cup Window \cup Rest)
      <4>1. Before({n}, Flushed')
        BY <3>3 DEF Before, Flushed
      <4> QED BY <1>2, <3>1, <4>1 DEF Before
    <3>5. ToSet(ingesting') = ToSet(ingesting) \cup {n} /\ InOrder(ingesting')
      <4>1. Before(ToSet(ingesting), {n}) /\ InOrder(ingesting)
        BY <1>2, <3>1 DEF OrderInv, Before
      <4>2. ingesting' = Append(ingesting, n)
        BY <2>1, <2>7
      <4> HIDE DEF n
      <4>3. InOrder(ingesting')
        BY <3>2, <4>1, <4>2, OrderEnd
      <4>4. ToSet(ingesting') = ToSet(ingesting) \cup {n}
        BY <3>2, <4>2, Appended
      <4> QED BY <4>3, <4>4
    <3> HIDE DEF n
    <3>6. /\ Before(ToSet(history'), ToSet(ingesting') \cup Flushed' \cup Window' \cup Rest)
          /\ Before(ToSet(ingesting'), Flushed' \cup Window' \cup Rest)
      BY <1>2, <2>1, <2>4, <3>1, <3>4, <3>5 DEF Before
    <3>7. Before(Flushed', Window' \cup Rest) /\ Before(Window', Rest)
      BY <1>2, <2>4 DEF Before
    <3>8. InOrder(history')
      BY <2>1 DEF OrderInv
    <3> QED BY <1>3, <2>5, <3>5, <3>6, <3>7, <3>8
  <2> QED BY <2>6, <2>7
<1>6. CASE Ingest
  <2> DEFINE n == Head(ingesting)
  <2>1. /\ ingesting # <<>> /\ ingesting' = Tail(ingesting)
        /\ ingesting \in Seq(Counts) /\ history \in Seq(Counts) /\ n \in Counts
        /\ history' = Append(history, n) \/ history' = history
        /\ UNCHANGED <<pending, flushing>>
    BY <1>6, IngestsFirst
  <2>2. Flushes' = Flushes /\ Flushed' = Flushed /\ Window' = Window /\ FlushesInOrder'
    BY <1>1, <2>1 DEF Flushes, Flushed, Window, FlushesInOrder, OrderInv
  <2>3. /\ n \in ToSet(ingesting) /\ ToSet(ingesting') \subseteq ToSet(ingesting)
        /\ InOrder(ingesting') /\ Before({n}, ToSet(ingesting'))
    <3>1. n \in ToSet(ingesting)
      <4>1. n = ingesting[1] /\ 1 \in DOMAIN ingesting
        BY <2>1, TailOf
      <4> QED BY <4>1 DEF ToSet
    <3> QED BY <2>1, <3>1, TailOf, OrderRest DEF OrderInv
  <2>4. ToSet(history') \subseteq ToSet(history) \cup {n} /\ InOrder(history')
    <3>1. Before(ToSet(history), {n}) /\ InOrder(history)
      BY <2>3 DEF OrderInv, Before
    <3>2. CASE history' = history
      BY <3>1, <3>2
    <3>3. CASE history' = Append(history, n)
      BY <2>1, <3>1, <3>3, OrderEnd, Appended
    <3> QED BY <2>1, <3>2, <3>3
  <2> HIDE DEF n, Rest
  <2>5. /\ Before(ToSet(history'), ToSet(ingesting') \cup Flushed' \cup Window' \cup Rest)
        /\ Before(ToSet(ingesting'), Flushed' \cup Window' \cup Rest)
        /\ Before(Flushed', Window' \cup Rest) /\ Before(Window', Rest)
    BY <1>2, <2>2, <2>3, <2>4 DEF Before
  <2> QED BY <1>3, <2>2, <2>3, <2>4, <2>5
<1> QED BY <1>4, <1>5, <1>6

LEMMA OrderStep == CaptureTypes /\ OrderInv /\ [Next]_vars => OrderInv'
  BY ArrivesElsewhere, ArrivesRead, ArrivesFinal, ArrivesLate, ArrivesReplaced, MovesStep DEF Next

(* Copies enter the history in the order in which they were made, for any   *)
(* number of copies and recalls, whatever times out or crashes: "a 5 MB PNG *)
(* that thumbnails slowly can never emit its candidate after the 12-byte    *)
(* text copied a moment later" (capture.ts:54).  A copy is late only when   *)
(* its agent died after declaring it and before sending it whole.           *)
THEOREM HistoryIsInOrder == Spec => []CopiesInOrder
<1>1. Init => OrderInv
  BY DEF Init, OrderInv, PipeInv, StreamInv, None, InOrder, FlushesInOrder, Before, Flushes, Flushed,
         Window, Assembled, Reports, Reported, ToSet
<1>2. Spec => []OrderInv
  BY <1>1, OrderStep, CaptureTyped, PTL DEF Spec
<1>3. CaptureTypes /\ OrderInv => CopiesInOrder
  <2> SUFFICES ASSUME CaptureTypes, OrderInv, NEW i \in DOMAIN history, NEW j \in DOMAIN history,
                      i < j, history[j] < history[i]
               PROVE  history[j] \in orphans
    BY DEF CopiesInOrder
  <2>1. history[i] \in Nat /\ history[j] \in Nat
    BY DEF CaptureTypes, Counts
  <2>2. history[i] <= history[j] \/ history[j] \in orphans
    BY DEF OrderInv, InOrder
  <2> QED BY <2>1, <2>2
<1> QED BY <1>2, <1>3, CaptureTyped, PTL

-----------------------------------------------------------------------------
(* An own write is heard at most once: either the poll has still to see it, *)
(* or one line reports it, or its stream is open.                           *)
Unseen(n) == lastCount < n \/ (reading /\ lastCount = n)
Starts(n) == {i \in DOMAIN pipe : pipe[i].kind \in {"inline", "declared"} /\ pipe[i].change.count = n}
Open(n) == {i \in DOMAIN assembling : assembling[i].count = n}
ToCome(n) == Unseen(n) \/ Starts(n) # {} \/ Open(n) # {}

OnceInv ==
  \A n \in Own :
    /\ Unseen(n) => Starts(n) = {} /\ Open(n) = {}
    /\ Starts(n) # {} => Open(n) = {}
    /\ \A i, j \in Starts(n) : i = j
    /\ \A i, j \in Open(n) : i = j
    /\ reading => n <= lastCount

(* A request writes once, and before its answer.                            *)
RequestInv ==
  /\ \A n \in Own : \E r \in Ids : recalls[r].wrote = n
  /\ \A i, j \in DOMAIN inbox : inbox[i] = inbox[j] => i = j
  /\ \A r \in ToSet(inbox) :
       /\ recalls[r].st \in {"sent", "failed"} /\ recalls[r].wrote = 0
       /\ \A i \in DOMAIN pipe : pipe[i].kind = "res" => pipe[i].n # r

(* Once recallCopy() is through, the token lies ready until the write is    *)
(* heard.                                                                   *)
TokenInv ==
  \A r \in Ids, n \in Own :
    recalls[r].st = "done" /\ recalls[r].wrote = n /\ ToCome(n) => n \in suppressed

(* What got past suppression was heard too early.                           *)
Passed == {pending.data} \cup {flushing[i].data : i \in DOMAIN flushing}
          \cup ToSet(ingesting) \cup ToSet(history)
PassedInv == Own \cap Passed \subseteq overtaken

OwnInv == OnceInv /\ RequestInv /\ TokenInv /\ PassedInv

LEMMA OwnInit == Init => OwnInv
<1> SUFFICES ASSUME Init
             PROVE  OwnInv
  OBVIOUS
<1>1. Own = {} /\ Ids = {} /\ ToSet(inbox) = {} /\ DOMAIN inbox = {}
  BY DEF Init, Own, Counts, Ids, ToSet
<1> QED BY <1>1 DEF OwnInv, OnceInv, RequestInv, TokenInv, PassedInv

(* What a step that neither reports nor writes nor asks must leave be.      *)
LEMMA OwnFrom ==
  ASSUME CaptureTypes, WritesAreOwn, OwnInv, Own' = Own, Ids' = Ids,
         \A n \in Own : /\ Unseen(n)' => Unseen(n)
                        /\ reading' => n <= lastCount'
                        /\ Starts(n)' # {} => Starts(n) # {}
                        /\ Open(n)' # {} => Open(n) # {}
                        /\ \A i, j \in Starts(n)' : i = j
                        /\ \A i, j \in Open(n)' : i = j
                        /\ n \in suppressed /\ ToCome(n)' => n \in suppressed',
         \A r \in Ids :
           /\ recalls'[r].wrote = recalls[r].wrote
           /\ recalls'[r].st = "done" => recalls[r].st = "done" \/ recalls[r].wrote \in suppressed'
           /\ r \in ToSet(inbox) => recalls'[r].st \in {"sent", "failed"},
         inbox' = inbox \/ inbox' = <<>>,
         \A i \in DOMAIN pipe' : pipe'[i].kind = "res" => \E j \in DOMAIN pipe : pipe[j] = pipe'[i],
         overtaken \subseteq overtaken',
         \A n \in Own : n \in Passed' => n \in Passed \/ n \in overtaken'
  PROVE  OwnInv'
<1>1. OnceInv'
  BY DEF OwnInv, OnceInv
<1>2. RequestInv'
  <2>1. \A n \in Own' : \E r \in Ids' : recalls'[r].wrote = n
    BY DEF OwnInv, RequestInv
  <2>2. \A i, j \in DOMAIN inbox' : inbox'[i] = inbox'[j] => i = j
    BY DEF OwnInv, RequestInv
  <2>3. ToSet(inbox') \subseteq ToSet(inbox) /\ ToSet(inbox) \subseteq Ids
    BY DEF ToSet, CaptureTypes
  <2>4. ASSUME NEW r \in ToSet(inbox')
        PROVE  /\ recalls'[r].st \in {"sent", "failed"} /\ recalls'[r].wrote = 0
               /\ \A i \in DOMAIN pipe' : pipe'[i].kind = "res" => pipe'[i].n # r
    BY <2>3 DEF OwnInv, RequestInv
  <2> QED BY <2>1, <2>2, <2>4 DEF RequestInv
<1>3. TokenInv'
  <2> SUFFICES ASSUME NEW r \in Ids, NEW n \in Own, recalls'[r].st = "done",
                      recalls'[r].wrote = n, ToCome(n)'
               PROVE  n \in suppressed'
    BY DEF TokenInv
  <2>1. ToCome(n)
    BY DEF ToCome
  <2> QED BY <2>1 DEF OwnInv, TokenInv
<1>4. PassedInv'
  BY DEF OwnInv, PassedInv
<1> QED BY <1>1, <1>2, <1>3, <1>4 DEF OwnInv

-----------------------------------------------------------------------------
(* What hearing of a change does.                                           *)
LEMMA OnChangedOwn ==
  ASSUME CaptureTypes, OwnInv, NEW c \in Flights, OnChanged(c), c.count \in Own => ToCome(c.count)
  PROVE  /\ overtaken \subseteq overtaken' /\ suppressed \ {c.count} \subseteq suppressed'
         /\ pending' = pending \/ (pending'.data = c.data /\ (c.data \in Own => c.data \in overtaken'))
<1>1. c.data \in Own => c.data = c.count
  BY DEF Flights
<1>2. overtaken \subseteq overtaken' /\ suppressed \ {c.count} \subseteq suppressed'
  BY DEF OnChanged
<1>3. CASE Listening /\ c.data \in Own /\ c.count \notin suppressed
  <2>1. PICK r \in Ids : recalls[r].wrote = c.count
    BY <1>1, <1>3 DEF OwnInv, RequestInv
  <2>2. recalls[r].st # "done"
    BY <1>1, <1>3, <2>1 DEF OwnInv, TokenInv
  <2>3. Unknown(c.count)
    BY <2>1, <2>2 DEF Unknown
  <2>4. pending'.data = c.data /\ overtaken' = overtaken \cup {c.count}
    BY <1>3, <2>3 DEF OnChanged, Suppresses
  <2> QED BY <1>1, <1>2, <1>3, <2>4
<1>4. CASE Listening /\ c.count \in suppressed
  BY <1>2, <1>4 DEF OnChanged, Suppresses
<1>5. CASE Listening /\ c.count \notin suppressed /\ c.data \notin Own
  <2>1. pending'.data = c.data
    BY <1>5 DEF OnChanged, Suppresses
  <2> QED BY <1>2, <1>5, <2>1
<1>6. CASE ~Listening
  BY <1>2, <1>6 DEF OnChanged
<1> QED BY <1>3, <1>4, <1>5, <1>6

(* The lines still to come, after the first has been read.                  *)
LEMMA ReadsStart ==
  ASSUME CaptureTypes, pipe # <<>>, pipe' = Tail(pipe), NEW n \in Own, OwnInv
  PROVE  /\ Starts(n)' # {} => Starts(n) # {}
         /\ \A i, j \in Starts(n)' : i = j
         /\ Line.kind \in {"inline", "declared"} /\ Line.change.count = n =>
              Starts(n) # {} /\ Starts(n)' = {}
<1>1. /\ Line = pipe[1] /\ 1 \in DOMAIN pipe
      /\ \A i \in DOMAIN pipe' : i \in Nat /\ i >= 1 /\ i + 1 \in DOMAIN pipe /\ pipe'[i] = pipe[i + 1]
  BY TailOf DEF CaptureTypes, Line
<1>2. \A i \in Starts(n)' : i \in Nat /\ i >= 1 /\ i + 1 \in Starts(n)
  BY <1>1 DEF Starts
<1>3. \A i, j \in Starts(n) : i = j
  BY DEF OwnInv, OnceInv
<1>4. \A i, j \in Starts(n)' : i = j
  <2> SUFFICES ASSUME NEW i \in Starts(n)', NEW j \in Starts(n)'
               PROVE  i = j
    OBVIOUS
  <2>1. i + 1 = j + 1 /\ i \in Nat /\ j \in Nat
    BY <1>2, <1>3
  <2> QED BY <2>1
<1>5. ASSUME Line.kind \in {"inline", "declared"}, Line.change.count = n
      PROVE  Starts(n) # {} /\ Starts(n)' = {}
  <2>1. 1 \in Starts(n)
    BY <1>1, <1>5 DEF Starts
  <2>2. ASSUME NEW i \in Starts(n)'
        PROVE  FALSE
    <3>1. i \in Nat /\ i >= 1 /\ i + 1 = 1
      BY <1>2, <1>3, <2>1
    <3> QED BY <3>1
  <2> QED BY <2>1, <2>2
<1> QED BY <1>2, <1>4, <1>5

LEMMA ReadsRes ==
  ASSUME CaptureTypes, pipe # <<>>, pipe' = Tail(pipe)
  PROVE  \A i \in DOMAIN pipe' : pipe'[i].kind = "res" => \E j \in DOMAIN pipe : pipe[j] = pipe'[i]
  BY TailOf DEF CaptureTypes

(* The streams still open, after the i-th has ended.                        *)
LEMMA StreamEnds ==
  ASSUME CaptureTypes, NEW i \in DOMAIN assembling, assembling' = RemoveAt(assembling, i),
         NEW n \in Own, OwnInv
  PROVE  /\ Open(n)' # {} => Open(n) # {}
         /\ \A j, k \in Open(n)' : j = k
         /\ assembling[i].count = n => Open(n) # {} /\ Open(n)' = {}
<1>1. /\ DOMAIN assembling = 1..Len(assembling) /\ Len(assembling) \in Nat
      /\ DOMAIN assembling' = 1..(Len(assembling) - 1)
      /\ \A m \in DOMAIN assembling' : assembling'[m] = IF m < i THEN assembling[m] ELSE assembling[m + 1]
  <2>1. assembling \in Seq(Flights)
    BY DEF CaptureTypes
  <2> QED BY <2>1, Removed
<1> DEFINE was(m) == IF m < i THEN m ELSE m + 1
<1>2. \A m \in Open(n)' : m \in Nat /\ was(m) \in Open(n) /\ was(m) # i
  BY <1>1 DEF Open
<1>3. \A j, k \in Open(n) : j = k
  BY DEF OwnInv, OnceInv
<1>4. \A j, k \in Open(n)' : j = k
  <2> SUFFICES ASSUME NEW j \in Open(n)', NEW k \in Open(n)'
               PROVE  j = k
    OBVIOUS
  <2>1. was(j) = was(k) /\ j \in Nat /\ k \in Nat /\ i \in Nat
    BY <1>1, <1>2, <1>3
  <2> QED BY <2>1
<1>5. ASSUME assembling[i].count = n
      PROVE  Open(n) # {} /\ Open(n)' = {}
  <2>1. i \in Open(n)
    BY <1>5 DEF Open
  <2>2. Open(n)' = {}
    BY <1>2, <1>3, <2>1
  <2> QED BY <2>1, <2>2
<1> QED BY <1>2, <1>4, <1>5

(* What a step leaves be when it changes only some of the variables.        *)
LEMMA LeftBe ==
  ASSUME CaptureTypes, OwnInv, UNCHANGED copies
  PROVE  /\ Own' = Own /\ Counts' = Counts
         /\ UNCHANGED <<lastCount, reading>> =>
              \A n \in Own : (Unseen(n)' => Unseen(n)) /\ (reading' => n <= lastCount')
         /\ UNCHANGED pipe =>
              /\ \A n \in Own : (Starts(n)' # {} => Starts(n) # {}) /\ \A i, j \in Starts(n)' : i = j
              /\ \A i \in DOMAIN pipe' : pipe'[i].kind = "res" => \E j \in DOMAIN pipe : pipe[j] = pipe'[i]
         /\ UNCHANGED assembling =>
              \A n \in Own : (Open(n)' # {} => Open(n) # {}) /\ \A i, j \in Open(n)' : i = j
         /\ UNCHANGED recalls =>
              /\ Ids' = Ids
              /\ \A r \in Ids :
                   /\ recalls'[r].wrote = recalls[r].wrote
                   /\ recalls'[r].st = "done" => recalls[r].st = "done" \/ recalls[r].wrote \in suppressed'
                   /\ r \in ToSet(inbox) => recalls'[r].st \in {"sent", "failed"}
         /\ UNCHANGED <<pending, queues>> => Passed' = Passed
<1>1. Own' = Own /\ Counts' = Counts
  BY DEF Own, Counts
<1>2. UNCHANGED <<lastCount, reading>> =>
        \A n \in Own : (Unseen(n)' => Unseen(n)) /\ (reading' => n <= lastCount')
  BY DEF Unseen, OwnInv, OnceInv
<1>3. UNCHANGED pipe => \A n \in Own : Starts(n)' = Starts(n)
  BY DEF Starts
<1>4. UNCHANGED assembling => \A n \in Own : Open(n)' = Open(n)
  BY DEF Open
<1>5. \A n \in Own : (\A i, j \in Starts(n) : i = j) /\ (\A i, j \in Open(n) : i = j)
  BY DEF OwnInv, OnceInv
<1>6. UNCHANGED recalls =>
        /\ Ids' = Ids
        /\ \A r \in Ids :
             /\ recalls'[r].wrote = recalls[r].wrote
             /\ recalls'[r].st = "done" => recalls[r].st = "done" \/ recalls[r].wrote \in suppressed'
             /\ r \in ToSet(inbox) => recalls'[r].st \in {"sent", "failed"}
  BY DEF Ids, OwnInv, RequestInv
<1>7. UNCHANGED <<pending, queues>> => Passed' = Passed
  BY DEF Passed, queues
<1> QED BY <1>1, <1>2, <1>3, <1>4, <1>5, <1>6, <1>7

(* The steps that report nothing and read nothing.                          *)
LEMMA QuietOwn ==
  ASSUME CaptureTypes, WritesAreOwn, OwnInv,
         \/ Tick \/ Rewatch \/ DebounceFires \/ Emit \/ Ingest
         \/ StopCapture \/ Unsubscribe \/ CloseStore \/ UNCHANGED vars
         \/ \E r \in Ids : RecallGoesOn(r) \/ RecallTimesOut(r)
  PROVE  OwnInv'
<1>1. /\ UNCHANGED <<copies, inbox, pipe, assembling, overtaken>> /\ suppressed \subseteq suppressed'
  BY DEF Tick, Rewatch, DebounceFires, Emit, Ingest, StopCapture, Unsubscribe, CloseStore, vars,
         RecallGoesOn, RecallTimesOut, agent, ghosts
<1>2. \A n \in Own : (Unseen(n)' => Unseen(n)) /\ (reading' => n <= lastCount')
  <2>1. CASE UNCHANGED <<lastCount, reading>>
    BY <1>1, <2>1, LeftBe
  <2>2. CASE Tick \/ Rewatch
    <3>1. /\ lastCount' = Len(copies) /\ (lastCount # Len(copies) \/ ~reading') /\ copies' = copies
      BY <2>2 DEF Tick, Rewatch
    <3>2. \A n \in Own : n \in Nat /\ n <= Len(copies)
      BY DEF Own, Counts
    <3> QED BY <3>1, <3>2 DEF Unseen, CaptureTypes
  <2>3. Tick \/ Rewatch \/ UNCHANGED <<lastCount, reading>>
    BY DEF DebounceFires, Emit, Ingest, StopCapture, Unsubscribe, CloseStore, vars,
           RecallGoesOn, RecallTimesOut, agent
  <2> QED BY <2>1, <2>2, <2>3
<1>3. /\ Ids' = Ids
      /\ \A r \in Ids :
           /\ recalls'[r].wrote = recalls[r].wrote
           /\ recalls'[r].st = "done" => recalls[r].st = "done" \/ recalls[r].wrote \in suppressed'
           /\ r \in ToSet(inbox) => recalls'[r].st \in {"sent", "failed"}
  <2>1. CASE UNCHANGED recalls
    BY <1>1, <2>1, LeftBe
  <2>2. ASSUME NEW r \in Ids, RecallGoesOn(r) \/ RecallTimesOut(r)
        PROVE  /\ Ids' = Ids
               /\ \A q \in Ids :
                    /\ recalls'[q].wrote = recalls[q].wrote
                    /\ recalls'[q].st = "done" => recalls[q].st = "done" \/ recalls[q].wrote \in suppressed'
                    /\ q \in ToSet(inbox) => recalls'[q].st \in {"sent", "failed"}
    <3>1. \A q \in ToSet(inbox) : recalls[q].st \in {"sent", "failed"}
      BY DEF OwnInv, RequestInv
    <3>2. \A q \in Ids : recalls[q] \in Steps
      BY DEF CaptureTypes, Ids
    <3>3. CASE RecallGoesOn(r)
      <4>1. /\ recalls[r].st = "answered" /\ recalls' = [recalls EXCEPT ![r].st = "done"]
            /\ recalls[r].wrote \in suppressed'
        BY <3>3 DEF RecallGoesOn
      <4> QED BY <2>2, <3>1, <3>2, <4>1 DEF Ids, Steps
    <3>4. CASE RecallTimesOut(r)
      <4>1. recalls' = [recalls EXCEPT ![r].st = "failed"]
        BY <3>4 DEF RecallTimesOut
      <4> QED BY <2>2, <3>1, <3>2, <4>1 DEF Ids, Steps
    <3> QED BY <2>2, <3>3, <3>4
  <2>3. UNCHANGED recalls \/ \E r \in Ids : RecallGoesOn(r) \/ RecallTimesOut(r)
    BY DEF Tick, Rewatch, DebounceFires, Emit, Ingest, StopCapture, Unsubscribe, CloseStore, vars
  <2> QED BY <2>1, <2>2, <2>3
<1>4. \A n \in Own : n \in Passed' => n \in Passed
  <2>0. \A n \in Own : n # 0
    BY DEF Own, Counts
  <2>1. CASE UNCHANGED queues /\ pending' \in {pending, None}
    BY <2>0, <2>1 DEF Passed, queues, None
  <2>2. CASE DebounceFires
    <3>1. /\ flushing' = Append(flushing, pending) /\ pending' = None /\ UNCHANGED <<ingesting, history>>
      BY <2>2 DEF DebounceFires
    <3>2. \A i \in DOMAIN flushing' : flushing'[i] = pending \/ (i \in DOMAIN flushing /\ flushing'[i] = flushing[i])
      BY <3>1, Appended DEF CaptureTypes
    <3> QED BY <2>0, <3>1, <3>2 DEF Passed, None
  <2>3. CASE Emit
    <3>1. /\ flushing # <<>> /\ flushing \in Seq(Changes) /\ flushing' = Tail(flushing)
          /\ flushing[1].usable => ingesting' = Append(ingesting, flushing[1].data)
          /\ ~flushing[1].usable => ingesting' = ingesting
          /\ UNCHANGED <<pending, history>>
      BY <2>3, EmitsFirst
    <3>2. \A i \in DOMAIN flushing' : i + 1 \in DOMAIN flushing /\ flushing'[i] = flushing[i + 1]
      BY <3>1, TailOf
    <3>3. 1 \in DOMAIN flushing
      BY <3>1
    <3>4. ToSet(ingesting') \subseteq ToSet(ingesting) \cup {flushing[1].data}
      <4>1. CASE flushing[1].usable
        <5>1. flushing[1].data \in Counts
          BY <3>3, <4>1, OnTheWay DEF Flushed, Flushes
        <5>2. ingesting' = Append(ingesting, flushing[1].data)
          BY <3>1, <4>1
        <5> QED BY <5>1, <5>2, Appended DEF CaptureTypes
      <4>2. CASE ~flushing[1].usable
        BY <3>1, <4>2
      <4> QED BY <4>1, <4>2
    <3>5. {flushing'[i].data : i \in DOMAIN flushing'} \cup {flushing[1].data}
            \subseteq {flushing[i].data : i \in DOMAIN flushing}
      BY <3>2, <3>3
    <3> QED BY <3>1, <3>4, <3>5 DEF Passed
  <2>4. CASE Ingest
    <3>1. /\ ingesting # <<>> /\ ingesting' = Tail(ingesting) /\ UNCHANGED <<pending, flushing>>
          /\ history' = Append(history, Head(ingesting)) \/ history' = history
      BY <2>4, IngestsFirst
    <3>2. /\ ToSet(ingesting') \subseteq ToSet(ingesting) /\ Head(ingesting) \in Counts
          /\ Head(ingesting) = ingesting[1] /\ 1 \in DOMAIN ingesting
      BY <3>1, TailOf DEF CaptureTypes
    <3>3. ToSet(history') \subseteq ToSet(history) \cup {Head(ingesting)}
      <4>1. CASE history' = Append(history, Head(ingesting))
        BY <3>2, <4>1, Appended DEF CaptureTypes
      <4>2. CASE history' = history
        BY <4>2
      <4> QED BY <3>1, <4>1, <4>2
    <3>4. Head(ingesting) \in ToSet(ingesting)
      BY <3>2 DEF ToSet
    <3> QED BY <3>1, <3>2, <3>3, <3>4 DEF Passed
  <2>5. \/ UNCHANGED queues /\ pending' \in {pending, None}
        \/ DebounceFires \/ Emit \/ Ingest
    BY DEF Tick, Rewatch, StopCapture, Unsubscribe, CloseStore, vars, RecallGoesOn, RecallTimesOut
  <2> QED BY <2>1, <2>2, <2>3, <2>4, <2>5
<1>5. /\ Own' = Own
      /\ \A n \in Own : /\ Starts(n)' # {} => Starts(n) # {}
                        /\ Open(n)' # {} => Open(n) # {}
                        /\ \A i, j \in Starts(n)' : i = j
                        /\ \A i, j \in Open(n)' : i = j
      /\ \A i \in DOMAIN pipe' : pipe'[i].kind = "res" => \E j \in DOMAIN pipe : pipe[j] = pipe'[i]
  BY <1>1, LeftBe
<1>6. \A n \in Own : /\ Unseen(n)' => Unseen(n)
                     /\ reading' => n <= lastCount'
                     /\ Starts(n)' # {} => Starts(n) # {}
                     /\ Open(n)' # {} => Open(n) # {}
                     /\ \A i, j \in Starts(n)' : i = j
                     /\ \A i, j \in Open(n)' : i = j
                     /\ n \in suppressed /\ ToCome(n)' => n \in suppressed'
  <2> SUFFICES ASSUME NEW n \in Own
               PROVE  /\ Unseen(n)' => Unseen(n)
                      /\ reading' => n <= lastCount'
                      /\ Starts(n)' # {} => Starts(n) # {}
                      /\ Open(n)' # {} => Open(n) # {}
                      /\ \A i, j \in Starts(n)' : i = j
                      /\ \A i, j \in Open(n)' : i = j
                      /\ n \in suppressed /\ ToCome(n)' => n \in suppressed'
    OBVIOUS
  <2>1. (Unseen(n)' => Unseen(n)) /\ (reading' => n <= lastCount')
    BY <1>2
  <2>2. /\ Starts(n)' # {} => Starts(n) # {}
        /\ Open(n)' # {} => Open(n) # {}
        /\ \A i, j \in Starts(n)' : i = j
        /\ \A i, j \in Open(n)' : i = j
    BY <1>1, LeftBe
  <2>3. n \in suppressed => n \in suppressed'
    BY <1>1
  <2> QED BY <2>1, <2>2, <2>3
<1>7. inbox' = inbox /\ overtaken \subseteq overtaken'
  BY <1>1
<1> QED BY <1>3, <1>4, <1>5, <1>6, <1>7, OwnFrom

LEMMA UserOwn ==
  ASSUME CaptureTypes, WritesAreOwn, OwnInv, UserCopies
  PROVE  OwnInv'
<1>1. /\ copies' = Append(copies, "user")
      /\ UNCHANGED <<lastCount, reading, inbox, pipe, recalls, suppressed, assembling, pending, queues, ghosts>>
  BY DEF UserCopies
<1>2. /\ Own' = Own /\ Len(copies') = Len(copies) + 1 /\ Len(copies) \in Nat
      /\ lastCount \in Nat /\ lastCount <= Len(copies)
  <2>1. /\ copies \in Seq({"user", "cairn"}) /\ lastCount \in Nat /\ lastCount <= Len(copies)
    BY DEF CaptureTypes
  <2>2. /\ Len(copies') = Len(copies) + 1 /\ Len(copies) \in Nat /\ copies'[Len(copies) + 1] = "user"
        /\ \A n \in 1..Len(copies) : copies'[n] = copies[n]
    BY <1>1, <2>1
  <2>3. Own' = Own
    BY <2>2 DEF Own, Counts
  <2> QED BY <2>1, <2>2, <2>3
<1>3. \A n \in Own : (Unseen(n)' => Unseen(n)) /\ (reading' => n <= lastCount')
  <2>1. \A n \in Own : n \in Nat /\ n <= Len(copies)
    BY DEF Own, Counts
  <2>2. \A n \in Own : reading => n <= lastCount
    BY DEF OwnInv, OnceInv
  <2> QED BY <1>1, <1>2, <2>1, <2>2 DEF Unseen
<1>4. \A n : Starts(n)' = Starts(n) /\ Open(n)' = Open(n)
  BY <1>1 DEF Starts, Open
<1>5. Ids' = Ids /\ Passed' = Passed
  BY <1>1 DEF Ids, Passed, queues
<1>6. OnceInv'
  BY <1>2, <1>3, <1>4 DEF OwnInv, OnceInv
<1>7. RequestInv'
  BY <1>1, <1>2, <1>5 DEF OwnInv, RequestInv
<1>8. TokenInv'
  BY <1>1, <1>2, <1>3, <1>4, <1>5 DEF OwnInv, TokenInv, ToCome
<1>9. PassedInv'
  BY <1>1, <1>2, <1>5 DEF OwnInv, PassedInv, ghosts
<1> QED BY <1>6, <1>7, <1>8, <1>9 DEF OwnInv

LEMMA AnswerOwn ==
  ASSUME CaptureTypes, WritesAreOwn, OwnInv, ReadsAnswer
  PROVE  OwnInv'
<1>1. /\ pipe # <<>> /\ pipe' = Tail(pipe) /\ Line.kind = "res" /\ Line.n \in Ids
      /\ UNCHANGED <<copies, lastCount, reading, inbox, suppressed, assembling, pending, queues, overtaken>>
  BY LineTypes DEF ReadsAnswer, HostReads, agent, ghosts
<1>2. \A n \in Own : /\ Unseen(n)' => Unseen(n)
                     /\ reading' => n <= lastCount'
                     /\ Starts(n)' # {} => Starts(n) # {}
                     /\ Open(n)' # {} => Open(n) # {}
                     /\ \A i, j \in Starts(n)' : i = j
                     /\ \A i, j \in Open(n)' : i = j
                     /\ n \in suppressed /\ ToCome(n)' => n \in suppressed'
  BY <1>1, LeftBe, ReadsStart
<1>3. Line.n \notin ToSet(inbox)
  <2>1. 1 \in DOMAIN pipe /\ pipe[1] = Line
    BY <1>1, TailOf DEF CaptureTypes, Line
  <2> QED BY <1>1, <2>1 DEF OwnInv, RequestInv
<1>4. \A q \in ToSet(inbox) : recalls[q].st \in {"sent", "failed"}
  BY DEF OwnInv, RequestInv
<1>5. \A q \in Ids : recalls[q] \in Steps
  BY DEF CaptureTypes, Ids
<1>6. recalls' = recalls \/ recalls' = [recalls EXCEPT ![Line.n].st = "answered"]
  BY DEF ReadsAnswer
<1>7. /\ Ids' = Ids
      /\ \A r \in Ids :
           /\ recalls'[r].wrote = recalls[r].wrote
           /\ recalls'[r].st = "done" => recalls[r].st = "done" \/ recalls[r].wrote \in suppressed'
           /\ r \in ToSet(inbox) => recalls'[r].st \in {"sent", "failed"}
  <2>1. CASE recalls' = recalls
    BY <1>4, <2>1 DEF Ids
  <2>2. CASE recalls' = [recalls EXCEPT ![Line.n].st = "answered"]
    <3>1. Ids' = Ids /\ \A r \in Ids : r # Line.n => recalls'[r] = recalls[r]
      BY <1>1, <2>2 DEF Ids
    <3>2. recalls'[Line.n].st = "answered" /\ recalls'[Line.n].wrote = recalls[Line.n].wrote
      <4>1. recalls'[Line.n] = [recalls[Line.n] EXCEPT !.st = "answered"]
        BY <1>1, <2>2 DEF Ids
      <4>2. recalls[Line.n] \in Steps
        BY <1>1, <1>5
      <4> QED BY <4>1, <4>2 DEF Steps
    <3>3. ASSUME NEW r \in Ids
          PROVE  /\ recalls'[r].wrote = recalls[r].wrote
                 /\ recalls'[r].st = "done" => recalls[r].st = "done"
                 /\ r \in ToSet(inbox) => recalls'[r].st \in {"sent", "failed"}
      <4>1. CASE r = Line.n
        BY <1>3, <3>2, <4>1
      <4>2. CASE r # Line.n
        BY <1>4, <3>1, <4>2
      <4> QED BY <4>1, <4>2
    <3> QED BY <3>1, <3>3
  <2> QED BY <1>6, <2>1, <2>2
<1>8. Own' = Own /\ Passed' = Passed /\ inbox' = inbox /\ overtaken' = overtaken
  BY <1>1, LeftBe
<1> QED BY <1>1, <1>2, <1>7, <1>8, OwnFrom, ReadsRes

(* The change of one line or one stream is heard of, for the only time.     *)
LEMMA HearsOwn ==
  ASSUME CaptureTypes, WritesAreOwn, OwnInv, NEW c \in Flights, OnChanged(c),
         c.count \in Own => ToCome(c.count) /\ ~ToCome(c.count)', UNCHANGED <<copies, queues>>,
         \A n \in Own : /\ Unseen(n)' => Unseen(n)
                        /\ reading' => n <= lastCount'
                        /\ Starts(n)' # {} => Starts(n) # {}
                        /\ Open(n)' # {} => Open(n) # {}
                        /\ \A i, j \in Starts(n)' : i = j
                        /\ \A i, j \in Open(n)' : i = j,
         Ids' = Ids,
         \A r \in Ids :
           /\ recalls'[r].wrote = recalls[r].wrote
           /\ recalls'[r].st = "done" => recalls[r].st = "done"
           /\ r \in ToSet(inbox) => recalls'[r].st \in {"sent", "failed"},
         inbox' = inbox \/ inbox' = <<>>,
         \A i \in DOMAIN pipe' : pipe'[i].kind = "res" => \E j \in DOMAIN pipe : pipe[j] = pipe'[i]
  PROVE  OwnInv'
<1>1. /\ overtaken \subseteq overtaken' /\ suppressed \ {c.count} \subseteq suppressed'
      /\ pending' = pending \/ (pending'.data = c.data /\ (c.data \in Own => c.data \in overtaken'))
  BY OnChangedOwn
<1>2. \A n \in Own : n \in suppressed /\ ToCome(n)' => n \in suppressed'
  <2> SUFFICES ASSUME NEW n \in Own, n \in suppressed, ToCome(n)'
               PROVE  n \in suppressed'
    OBVIOUS
  <2>1. n # c.count
    OBVIOUS
  <2> QED BY <1>1, <2>1
<1>3. \A n \in Own : n \in Passed' => n \in Passed \/ n \in overtaken'
  BY <1>1 DEF Passed, queues
<1>4. Own' = Own
  BY DEF Own, Counts
<1>5. \A n \in Own : /\ Unseen(n)' => Unseen(n)
                     /\ reading' => n <= lastCount'
                     /\ Starts(n)' # {} => Starts(n) # {}
                     /\ Open(n)' # {} => Open(n) # {}
                     /\ \A i, j \in Starts(n)' : i = j
                     /\ \A i, j \in Open(n)' : i = j
                     /\ n \in suppressed /\ ToCome(n)' => n \in suppressed'
  BY <1>2
<1>6. \A r \in Ids :
        /\ recalls'[r].wrote = recalls[r].wrote
        /\ recalls'[r].st = "done" => recalls[r].st = "done" \/ recalls[r].wrote \in suppressed'
        /\ r \in ToSet(inbox) => recalls'[r].st \in {"sent", "failed"}
  OBVIOUS
<1> QED BY <1>1, <1>3, <1>4, <1>5, <1>6, OwnFrom

(* There is one thing still to come of an own write.                        *)
LEMMA ComesOnce ==
  ASSUME OwnInv, NEW n \in Own
  PROVE  /\ Starts(n) # {} => ~Unseen(n) /\ Open(n) = {}
         /\ Open(n) # {} => ~Unseen(n) /\ Starts(n) = {}
         /\ (Starts(n) # {} \/ Open(n) # {}) => ToCome(n)
  BY DEF OwnInv, OnceInv, ToCome

(* The stream that ends was all that was to come of its change.             *)
LEMMA StreamHeard ==
  ASSUME CaptureTypes, OwnInv, NEW i \in DOMAIN assembling, NEW c, c = assembling[i],
         \A n \in Own : /\ Unseen(n)' => Unseen(n)
                        /\ Starts(n)' # {} => Starts(n) # {},
         Open(c.count)' = {} \/ assembling' = RemoveAt(assembling, i)
  PROVE  c.count \in Own => ToCome(c.count) /\ ~ToCome(c.count)'
<1> SUFFICES ASSUME NEW n \in Own, n = c.count
             PROVE  ToCome(n) /\ ~ToCome(c.count)'
  OBVIOUS
<1>1. Open(n) # {}
  BY DEF Open
<1>2. Open(n)' = {}
  <2>1. CASE assembling' = RemoveAt(assembling, i)
    BY <2>1, StreamEnds
  <2> QED BY <2>1
<1>3. ToCome(n) /\ ~Unseen(n) /\ Starts(n) = {}
  BY <1>1, ComesOnce
<1>4. ~ToCome(n)'
  BY <1>2, <1>3 DEF ToCome
<1> QED BY <1>3, <1>4

LEMMA InlineOwn ==
  ASSUME CaptureTypes, WritesAreOwn, OwnInv, ReadsInline
  PROVE  OwnInv'
<1>1. /\ pipe # <<>> /\ pipe' = Tail(pipe) /\ Line.kind = "inline" /\ Line.change \in Flights
      /\ OnChanged(Line.change)
      /\ UNCHANGED <<copies, lastCount, reading, inbox, recalls, assembling, queues>>
  BY LineTypes DEF ReadsInline, HostReads, agent
<1>2. \A n \in Own : /\ Unseen(n)' => Unseen(n)
                     /\ reading' => n <= lastCount'
                     /\ Starts(n)' # {} => Starts(n) # {}
                     /\ Open(n)' # {} => Open(n) # {}
                     /\ \A i, j \in Starts(n)' : i = j
                     /\ \A i, j \in Open(n)' : i = j
  BY <1>1, LeftBe, ReadsStart
<1>3. Line.change.count \in Own => ToCome(Line.change.count)
  BY <1>1, ReadsStart, ComesOnce
<1>4. ASSUME NEW n \in Own, n = Line.change.count
      PROVE  ~ToCome(n)'
  <2>1. Starts(n) # {} /\ Starts(n)' = {}
    BY <1>1, <1>4, ReadsStart
  <2>2. ~Unseen(n)' /\ Open(n)' = {}
    BY <1>2, <2>1, ComesOnce
  <2> QED BY <2>1, <2>2 DEF ToCome
<1>5. /\ Ids' = Ids
      /\ \A r \in Ids :
           /\ recalls'[r].wrote = recalls[r].wrote
           /\ recalls'[r].st = "done" => recalls[r].st = "done"
           /\ r \in ToSet(inbox) => recalls'[r].st \in {"sent", "failed"}
  BY <1>1, LeftBe
<1> SUFFICES ASSUME NEW c \in Flights, c = Line.change, OnChanged(c)
             PROVE  OwnInv'
  BY <1>1
<1>6. c.count \in Own => ToCome(c.count) /\ ~ToCome(c.count)'
  BY <1>3, <1>4
<1> QED BY <1>1, <1>2, <1>5, <1>6, HearsOwn, ReadsRes

LEMMA FinalOwn ==
  ASSUME CaptureTypes, WritesAreOwn, OwnInv, ReadsFinal
  PROVE  OwnInv'
<1>1. /\ pipe # <<>> /\ pipe' = Tail(pipe) /\ Line.kind = "final" /\ Line.change \in Flights
      /\ UNCHANGED <<copies, lastCount, reading, inbox, recalls, queues>>
  BY LineTypes DEF ReadsFinal, HostReads, agent
<1>2. \A n \in Own : /\ Unseen(n)' => Unseen(n)
                     /\ reading' => n <= lastCount'
                     /\ Starts(n)' # {} => Starts(n) # {}
                     /\ \A i, j \in Starts(n)' : i = j
  BY <1>1, LeftBe, ReadsStart
<1>3. /\ Ids' = Ids
      /\ \A r \in Ids :
           /\ recalls'[r].wrote = recalls[r].wrote
           /\ recalls'[r].st = "done" => recalls[r].st = "done"
           /\ r \in ToSet(inbox) => recalls'[r].st \in {"sent", "failed"}
  BY <1>1, LeftBe
<1>4. ASSUME NEW i \in DOMAIN assembling, assembling[i] = Line.change, OnChanged(Line.change),
             assembling' = RemoveAt(assembling, i)
      PROVE  OwnInv'
  <2> SUFFICES ASSUME NEW c \in Flights, c = assembling[i], OnChanged(c)
               PROVE  OwnInv'
    BY <1>1, <1>4
  <2>1. \A n \in Own : /\ Unseen(n)' => Unseen(n)
                       /\ reading' => n <= lastCount'
                       /\ Starts(n)' # {} => Starts(n) # {}
                       /\ Open(n)' # {} => Open(n) # {}
                       /\ \A j, k \in Starts(n)' : j = k
                       /\ \A j, k \in Open(n)' : j = k
    BY <1>2, <1>4, StreamEnds
  <2>2. c.count \in Own => ToCome(c.count) /\ ~ToCome(c.count)'
    BY <1>4, <2>1, StreamHeard
  <2> QED BY <1>1, <1>3, <2>1, <2>2, HearsOwn, ReadsRes
<1>5. CASE UNCHANGED <<assembling, suppressed, pending, heard, overtaken>>
  <2>1. \A n \in Own : /\ Unseen(n)' => Unseen(n)
                       /\ reading' => n <= lastCount'
                       /\ Starts(n)' # {} => Starts(n) # {}
                       /\ Open(n)' # {} => Open(n) # {}
                       /\ \A j, k \in Starts(n)' : j = k
                       /\ \A j, k \in Open(n)' : j = k
                       /\ n \in suppressed /\ ToCome(n)' => n \in suppressed'
    BY <1>1, <1>2, <1>5, LeftBe
  <2>2. Own' = Own /\ Passed' = Passed /\ inbox' = inbox /\ overtaken' = overtaken
    BY <1>1, <1>5, LeftBe
  <2> QED BY <1>1, <1>3, <2>1, <2>2, OwnFrom, ReadsRes
<1> QED BY <1>4, <1>5 DEF ReadsFinal

LEMMA TimeoutOwn ==
  ASSUME CaptureTypes, WritesAreOwn, OwnInv, StreamTimesOut
  PROVE  OwnInv'
<1>1. /\ assembling # <<>> /\ assembling \in Seq(Flights) /\ OnChanged(Head(assembling))
      /\ assembling' = Tail(assembling)
      /\ UNCHANGED <<copies, lastCount, reading, inbox, pipe, recalls, queues>>
  BY DEF StreamTimesOut, agent, CaptureTypes
<1>2. /\ 1 \in DOMAIN assembling /\ assembling[1] = Head(assembling) /\ Head(assembling) \in Flights
      /\ assembling' = RemoveAt(assembling, 1)
  BY <1>1, TailOf, RemovedFirst
<1> SUFFICES ASSUME NEW c \in Flights, c = Head(assembling), OnChanged(c)
             PROVE  OwnInv'
  BY <1>1, <1>2
<1>3. \A n \in Own : /\ Unseen(n)' => Unseen(n)
                     /\ reading' => n <= lastCount'
                     /\ Starts(n)' # {} => Starts(n) # {}
                     /\ Open(n)' # {} => Open(n) # {}
                     /\ \A j, k \in Starts(n)' : j = k
                     /\ \A j, k \in Open(n)' : j = k
  BY <1>1, <1>2, LeftBe, StreamEnds
<1>4. c.count \in Own => ToCome(c.count) /\ ~ToCome(c.count)'
  BY <1>2, <1>3, StreamHeard
<1>5. /\ Ids' = Ids
      /\ \A r \in Ids :
           /\ recalls'[r].wrote = recalls[r].wrote
           /\ recalls'[r].st = "done" => recalls[r].st = "done"
           /\ r \in ToSet(inbox) => recalls'[r].st \in {"sent", "failed"}
  BY <1>1, LeftBe
<1>6. \A i \in DOMAIN pipe' : pipe'[i].kind = "res" => \E j \in DOMAIN pipe : pipe[j] = pipe'[i]
  BY <1>1, LeftBe
<1> QED BY <1>1, <1>3, <1>4, <1>5, <1>6, HearsOwn

(* A new agent reports nothing that was there before it.                    *)
LEMMA ReplacedOwn ==
  ASSUME CaptureTypes, WritesAreOwn, OwnInv, AgentReplaced
  PROVE  OwnInv'
<1>1. /\ inbox' = <<>> /\ reading' = FALSE /\ lastCount' = Len(copies) /\ assembling' = <<>>
      /\ UNCHANGED <<copies, queues>>
  BY DEF AgentReplaced
<1>2. \A n \in Own : ~Unseen(n)' /\ Open(n)' = {} /\ n \in Counts
  <2>1. \A n \in Own : n \in Nat /\ n <= Len(copies) /\ n \in Counts
    BY DEF Own, Counts
  <2>2. Len(copies) \in Nat
    BY DEF CaptureTypes
  <2> QED BY <1>1, <2>1, <2>2 DEF Unseen, Open
<1>3. \A i \in DOMAIN pipe' : i \in DOMAIN pipe /\ pipe'[i] = pipe[i]
  <2>1. pipe \in Seq(Lines)
    BY DEF CaptureTypes
  <2>2. PICK n \in 0 .. Len(pipe) : pipe' = SubSeq(pipe, 1, n)
    BY DEF AgentReplaced
  <2>3. DOMAIN pipe = 1 .. Len(pipe) /\ DOMAIN pipe' = 1 .. n /\ Len(pipe) \in Nat
    BY <2>1, <2>2
  <2>4. \A i \in 1 .. n : pipe'[i] = pipe[i]
    BY <2>1, <2>2
  <2> QED BY <2>3, <2>4
<1>4. \A n \in Own : Starts(n)' \subseteq Starts(n) /\ \A i, j \in Starts(n)' : i = j
  <2>1. \A n \in Own : Starts(n)' \subseteq Starts(n)
    BY <1>3 DEF Starts
  <2> QED BY <2>1 DEF OwnInv, OnceInv
<1>5. \A n \in Own : /\ Unseen(n)' => Unseen(n)
                     /\ reading' => n <= lastCount'
                     /\ Starts(n)' # {} => Starts(n) # {}
                     /\ Open(n)' # {} => Open(n) # {}
                     /\ \A j, k \in Starts(n)' : j = k
                     /\ \A j, k \in Open(n)' : j = k
  BY <1>1, <1>2, <1>4
<1>6. /\ Ids' = Ids
      /\ \A r \in Ids :
           /\ recalls'[r].wrote = recalls[r].wrote
           /\ recalls'[r].st = "done" => recalls[r].st = "done"
           /\ r \in ToSet(inbox) => recalls'[r].st \in {"sent", "failed"}
  <2>1. \A r \in Ids : recalls[r] \in Steps
    BY DEF CaptureTypes, Ids
  <2>2. recalls' = [r \in Ids |-> IF recalls[r].st = "sent" THEN [recalls[r] EXCEPT !.st = "failed"]
                                  ELSE recalls[r]]
    BY DEF AgentReplaced
  <2>3. \A r \in ToSet(inbox) : recalls[r].st \in {"sent", "failed"}
    BY DEF OwnInv, RequestInv
  <2> QED BY <2>1, <2>2, <2>3 DEF Ids, Steps
<1>7. Own' = Own /\ (UNCHANGED pending => Passed' = Passed)
  BY <1>1, LeftBe
<1>8. CASE assembling = <<>>
  <2>1. UNCHANGED <<suppressed, pending, overtaken>>
    BY <1>8 DEF AgentReplaced
  <2>2. \A n \in Own : /\ Unseen(n)' => Unseen(n)
                       /\ reading' => n <= lastCount'
                       /\ Starts(n)' # {} => Starts(n) # {}
                       /\ Open(n)' # {} => Open(n) # {}
                       /\ \A j, k \in Starts(n)' : j = k
                       /\ \A j, k \in Open(n)' : j = k
                       /\ n \in suppressed /\ ToCome(n)' => n \in suppressed'
    BY <1>5, <2>1
  <2> QED BY <1>1, <1>3, <1>6, <1>7, <2>1, <2>2, OwnFrom
<1>9. CASE assembling # <<>>
  <2>1. 1 \in DOMAIN assembling /\ assembling[1] = Head(assembling) /\ Head(assembling) \in Flights
    BY <1>9, TailOf DEF CaptureTypes
  <2> SUFFICES ASSUME NEW c \in Flights, c = Head(assembling), OnChanged(c)
               PROVE  OwnInv'
    BY <1>9, <2>1 DEF AgentReplaced
  <2>2. Open(c.count)' = {}
    BY <1>1 DEF Open
  <2>3. c.count \in Own => ToCome(c.count) /\ ~ToCome(c.count)'
    BY <1>5, <2>1, <2>2, StreamHeard
  <2> QED BY <1>1, <1>3, <1>5, <1>6, <2>3, HearsOwn
<1> QED BY <1>8, <1>9

(* A stream opens.                                                          *)
LEMMA DeclaredOwn ==
  ASSUME CaptureTypes, WritesAreOwn, OwnInv, ReadsDeclared
  PROVE  OwnInv'
<1>1. /\ pipe # <<>> /\ pipe' = Tail(pipe) /\ Line.kind = "declared" /\ Line.change \in Flights
      /\ assembling' = Append(assembling, Line.change)
      /\ UNCHANGED <<copies, lastCount, reading, inbox, recalls, suppressed, pending, queues, overtaken>>
  BY LineTypes DEF ReadsDeclared, HostReads, agent, ghosts
<1>2. /\ Own' = Own /\ Ids' = Ids /\ Passed' = Passed
      /\ \A n \in Own : (Unseen(n)' => Unseen(n)) /\ (reading' => n <= lastCount')
  BY <1>1, LeftBe
<1>3. \A n \in Own : /\ Starts(n)' # {} => Starts(n) # {}
                     /\ \A i, j \in Starts(n)' : i = j
                     /\ Line.change.count = n => Starts(n) # {} /\ Starts(n)' = {}
  BY <1>1, ReadsStart
<1>4. /\ DOMAIN assembling = 1..Len(assembling) /\ Len(assembling) \in Nat
      /\ DOMAIN assembling' = 1..(Len(assembling) + 1)
      /\ assembling'[Len(assembling) + 1] = Line.change
      /\ \A i \in DOMAIN assembling : assembling'[i] = assembling[i]
  BY <1>1, Appended DEF CaptureTypes
<1>5. \A n \in Own : n # Line.change.count => Open(n)' = Open(n)
  BY <1>4 DEF Open
<1>6. \A n \in Own : n = Line.change.count => \A i \in Open(n)' : i = Len(assembling) + 1
  <2> SUFFICES ASSUME NEW n \in Own, n = Line.change.count, NEW i \in Open(n)'
               PROVE  i = Len(assembling) + 1
    OBVIOUS
  <2>1. Open(n) = {}
    BY <1>3, ComesOnce
  <2> QED BY <1>4, <2>1 DEF Open
<1>7. \A n \in Own : ToCome(n)' => ToCome(n)
  <2> SUFFICES ASSUME NEW n \in Own, ToCome(n)'
               PROVE  ToCome(n)
    OBVIOUS
  <2>1. CASE n = Line.change.count
    BY <1>3, <2>1 DEF ToCome
  <2>2. CASE n # Line.change.count
    BY <1>2, <1>3, <1>5, <2>2 DEF ToCome
  <2> QED BY <2>1, <2>2
<1>8. OnceInv'
  <2> SUFFICES ASSUME NEW n \in Own
               PROVE  /\ Unseen(n)' => Starts(n)' = {} /\ Open(n)' = {}
                      /\ Starts(n)' # {} => Open(n)' = {}
                      /\ \A i, j \in Starts(n)' : i = j
                      /\ \A i, j \in Open(n)' : i = j
                      /\ reading' => n <= lastCount'
    BY <1>2 DEF OnceInv
  <2>1. CASE n = Line.change.count
    <3>1. ~Unseen(n)' /\ Starts(n)' = {}
      BY <1>2, <1>3, <2>1, ComesOnce
    <3> QED BY <1>2, <1>6, <2>1, <3>1
  <2>2. CASE n # Line.change.count
    <3>1. Open(n)' = Open(n) /\ \A i, j \in Open(n) : i = j
      BY <1>5, <2>2 DEF OwnInv, OnceInv
    <3>2. Unseen(n)' => Starts(n)' = {} /\ Open(n)' = {}
      BY <1>2, <1>3, <3>1, ComesOnce
    <3>3. Starts(n)' # {} => Open(n)' = {}
      BY <1>3, <3>1, ComesOnce
    <3> QED BY <1>2, <1>3, <3>1, <3>2, <3>3
  <2> QED BY <2>1, <2>2
<1>9. RequestInv'
  <2>1. \A r \in ToSet(inbox') :
          /\ recalls'[r].st \in {"sent", "failed"} /\ recalls'[r].wrote = 0
          /\ \A i \in DOMAIN pipe' : pipe'[i].kind = "res" => pipe'[i].n # r
    BY <1>1, ReadsRes DEF OwnInv, RequestInv
  <2>2. \A n \in Own : \E r \in Ids : recalls[r].wrote = n
    BY DEF OwnInv, RequestInv
  <2>3. \A i, j \in DOMAIN inbox : inbox[i] = inbox[j] => i = j
    BY DEF OwnInv, RequestInv
  <2> QED BY <1>1, <1>2, <2>1, <2>2, <2>3 DEF RequestInv
<1>10. TokenInv'
  BY <1>1, <1>2, <1>7 DEF OwnInv, TokenInv
<1>11. PassedInv'
  BY <1>1, <1>2 DEF OwnInv, PassedInv
<1> QED BY <1>8, <1>9, <1>10, <1>11 DEF OwnInv

(* The poll reports what it has seen.                                       *)
LEMMA TickReadsOwn ==
  ASSUME CaptureTypes, WritesAreOwn, OwnInv, TickReads
  PROVE  OwnInv'
<1>1. /\ reading /\ reading' = FALSE
      /\ UNCHANGED <<copies, lastCount, inbox, recalls, suppressed, assembling, pending, queues, overtaken>>
  BY DEF TickReads, ghosts
<1>a. PICK m \in lastCount..Len(copies) :
        LET line(kind) == [kind |-> kind, change |-> Change(m, Len(copies))]
        IN  \/ pipe' = Append(pipe, line("inline"))
            \/ pipe' = pipe \o <<line("declared"), line("final")>>
  BY DEF TickReads
<1> DEFINE line(kind) == [kind |-> kind, change |-> Change(m, Len(copies))]
<1>b. \/ pipe' = Append(pipe, line("inline"))
      \/ pipe' = pipe \o <<line("declared"), line("final")>>
  BY <1>a
<1>c. m \in Own => m = lastCount
  BY <1>1, ReadsFlight
<1>2. \A kind : line(kind).kind = kind /\ line(kind).change.count = m
  BY <1>1, ReadsFlight
<1>3. pipe \in Seq(Lines) /\ Len(pipe) \in Nat
  BY DEF CaptureTypes
<1> HIDE DEF line
<1>4. /\ DOMAIN pipe = 1..Len(pipe)
      /\ \A i \in DOMAIN pipe : i \in DOMAIN pipe' /\ pipe'[i] = pipe[i]
      /\ \A i \in DOMAIN pipe' :
           \/ i \in DOMAIN pipe
           \/ i = Len(pipe) + 1 /\ pipe'[i].kind # "res" /\ pipe'[i].change.count = m
           \/ i = Len(pipe) + 2 /\ pipe'[i].kind = "final"
  <2>1. CASE pipe' = Append(pipe, line("inline"))
    BY <1>2, <1>3, <2>1
  <2>2. CASE pipe' = pipe \o <<line("declared"), line("final")>>
    <3>1. /\ DOMAIN pipe' = 1..(Len(pipe) + 2) /\ DOMAIN pipe = 1..Len(pipe)
          /\ \A i \in DOMAIN pipe : pipe'[i] = pipe[i]
          /\ pipe'[Len(pipe) + 1] = line("declared") /\ pipe'[Len(pipe) + 2] = line("final")
      BY <1>3, <2>2
    <3> QED BY <1>2, <1>3, <3>1
  <2> QED BY <1>b, <2>1, <2>2
<1>5. Own' = Own /\ Ids' = Ids /\ Passed' = Passed /\ \A n : Open(n)' = Open(n)
  BY <1>1 DEF Own, Counts, Ids, Passed, queues, Open
<1>6. \A n \in Own : n # m => Starts(n)' = Starts(n)
  <2> SUFFICES ASSUME NEW n \in Own, n # m
               PROVE  Starts(n)' = Starts(n)
    OBVIOUS
  <2>1. \A i \in Starts(n)' : i \in Starts(n)
    BY <1>4 DEF Starts
  <2>2. \A i \in Starts(n) : i \in Starts(n)'
    BY <1>4 DEF Starts
  <2> QED BY <2>1, <2>2
<1>7. \A n \in Own : n = m => /\ Unseen(n) /\ Starts(n) = {} /\ Open(n) = {}
                              /\ \A i \in Starts(n)' : i = Len(pipe) + 1
  <2> SUFFICES ASSUME NEW n \in Own, n = m
               PROVE  /\ Unseen(n) /\ Starts(n) = {} /\ Open(n) = {}
                      /\ \A i \in Starts(n)' : i = Len(pipe) + 1
    OBVIOUS
  <2>1. Unseen(n)
    BY <1>1, <1>c DEF Unseen
  <2>2. Starts(n) = {} /\ Open(n) = {}
    BY <2>1 DEF OwnInv, OnceInv
  <2>3. \A i \in Starts(n)' : i = Len(pipe) + 1
    BY <1>4, <2>2 DEF Starts
  <2> QED BY <2>1, <2>2, <2>3
<1>8. \A n \in Own : ~Unseen(n)'
  <2>1. \A n \in Own : n <= lastCount /\ n \in Nat
    BY <1>1 DEF OwnInv, OnceInv, Own, Counts
  <2> QED BY <1>1, <2>1 DEF Unseen, CaptureTypes
<1>9. \A n \in Own : ToCome(n)' => ToCome(n)
  BY <1>5, <1>6, <1>7, <1>8 DEF ToCome
<1>10. OnceInv'
  BY <1>1, <1>5, <1>6, <1>7, <1>8 DEF OwnInv, OnceInv
<1>11. RequestInv'
  <2>1. \A i \in DOMAIN pipe' : pipe'[i].kind = "res" => i \in DOMAIN pipe /\ pipe'[i] = pipe[i]
    BY <1>4
  <2> QED BY <1>1, <1>5, <2>1 DEF OwnInv, RequestInv
<1>12. TokenInv'
  BY <1>1, <1>5, <1>9 DEF OwnInv, TokenInv
<1>13. PassedInv'
  BY <1>1, <1>5 DEF OwnInv, PassedInv
<1> QED BY <1>10, <1>11, <1>12, <1>13 DEF OwnInv

(* A write is a new change: nothing has been seen, told or asked of it.     *)
LEMMA WritesOwn ==
  ASSUME CaptureTypes, WritesAreOwn, OwnInv, Writes
  PROVE  OwnInv'
<1> DEFINE r == Head(inbox)
           m == Len(copies) + 1
           line == [kind |-> "res", n |-> r]
<1>1. /\ copies' = Append(copies, "cairn") /\ inbox # <<>> /\ inbox' = Tail(inbox)
      /\ recalls' = [recalls EXCEPT ![r].wrote = m] /\ pipe' = Append(pipe, line)
      /\ UNCHANGED <<lastCount, assembling, pending, queues, suppressed, overtaken>>
      /\ reading = FALSE /\ reading' = FALSE
  BY DEF Writes, ghosts, CaptureTypes
<1>2. line.kind = "res" /\ line.n = r
  OBVIOUS
<1>3. /\ r = inbox[1] /\ 1 \in DOMAIN inbox /\ r \in Ids /\ r \in ToSet(inbox)
      /\ \A i \in DOMAIN inbox' : i \in Nat /\ i >= 1 /\ i + 1 \in DOMAIN inbox /\ inbox'[i] = inbox[i + 1]
      /\ ToSet(inbox') \subseteq ToSet(inbox) /\ ToSet(inbox) \subseteq Ids
  BY <1>1, TailOf DEF CaptureTypes, ToSet
<1>4. r \notin ToSet(inbox')
  <2>1. ASSUME NEW i \in DOMAIN inbox', inbox'[i] = r
        PROVE  FALSE
    <3>1. i + 1 = 1 /\ i \in Nat /\ i >= 1
      BY <1>3, <2>1 DEF OwnInv, RequestInv
    <3> QED BY <3>1
  <2> QED BY <2>1 DEF ToSet
<1>5. recalls[r].st \in {"sent", "failed"} /\ recalls[r].wrote = 0
  BY <1>3 DEF OwnInv, RequestInv
<1>6. /\ Ids' = Ids /\ recalls'[r].wrote = m
      /\ \A q \in Ids : recalls'[q].st = recalls[q].st /\ (q # r => recalls'[q].wrote = recalls[q].wrote)
  <2>1. recalls \in Seq(Steps) /\ r \in DOMAIN recalls
    BY <1>3 DEF CaptureTypes, Ids
  <2>2. recalls[r] \in Steps
    BY <2>1
  <2> HIDE DEF r, m
  <2> QED BY <1>1, <2>1, <2>2 DEF Ids, Steps
<1>7. /\ Own' = Own \cup {m} /\ m \notin Counts /\ m \in Nat \ {0} /\ Len(copies) \in Nat
      /\ Len(copies') = m /\ \A n \in Own : n \in Nat /\ n <= Len(copies) /\ n \in Counts
  <2>1. copies \in Seq({"user", "cairn"})
    BY DEF CaptureTypes
  <2>2. /\ Len(copies') = m /\ Len(copies) \in Nat /\ copies'[m] = "cairn"
        /\ \A n \in 1..Len(copies) : copies'[n] = copies[n]
    BY <1>1, <2>1
  <2> QED BY <2>2 DEF Own, Counts
<1>8. /\ DOMAIN pipe = 1..Len(pipe)
      /\ \A i \in DOMAIN pipe : i \in DOMAIN pipe' /\ pipe'[i] = pipe[i]
      /\ \A i \in DOMAIN pipe' : i \in DOMAIN pipe \/ pipe'[i] = line
  <2>1. pipe \in Seq(Lines) /\ line \in Lines
    BY <1>3 DEF CaptureTypes, Lines
  <2> HIDE DEF line
  <2>2. /\ DOMAIN pipe = 1..Len(pipe) /\ Len(pipe) \in Nat /\ DOMAIN pipe' = 1..(Len(pipe) + 1)
        /\ pipe'[Len(pipe) + 1] = line /\ \A i \in 1..Len(pipe) : pipe'[i] = pipe[i]
    BY <1>1, <2>1
  <2> QED BY <2>2
<1> HIDE DEF r, m, line
<1>9. \A n : Starts(n)' = Starts(n) /\ Open(n)' = Open(n)
  <2> SUFFICES ASSUME NEW n
               PROVE  Starts(n)' = Starts(n) /\ Open(n)' = Open(n)
    OBVIOUS
  <2>1. Open(n)' = Open(n)
    BY <1>1 DEF Open
  <2>2. \A i \in Starts(n)' : i \in Starts(n)
    BY <1>2, <1>8 DEF Starts
  <2>3. \A i \in Starts(n) : i \in Starts(n)'
    BY <1>8 DEF Starts
  <2> QED BY <2>1, <2>2, <2>3
<1>10. Starts(m) = {} /\ Open(m) = {}
  <2>1. \A i \in DOMAIN pipe : pipe[i].kind \in {"inline", "declared"} => pipe[i].change \in Flights
    BY DEF CaptureTypes, Lines
  <2>2. \A i \in DOMAIN assembling : assembling[i] \in Flights
    BY DEF CaptureTypes
  <2>3. \A c \in Flights : c.count \in Counts
    BY DEF Flights
  <2> QED BY <1>7, <2>1, <2>2, <2>3 DEF Starts, Open
<1>11. \A n \in Own : Unseen(n)' => Unseen(n)
  BY <1>1 DEF Unseen
<1>12. OnceInv'
  <2>1. \A n \in Own : /\ Unseen(n)' => Starts(n)' = {} /\ Open(n)' = {}
                       /\ Starts(n)' # {} => Open(n)' = {}
                       /\ \A i, j \in Starts(n)' : i = j
                       /\ \A i, j \in Open(n)' : i = j
    BY <1>9, <1>11 DEF OwnInv, OnceInv
  <2> QED BY <1>1, <1>7, <1>9, <1>10, <2>1 DEF OnceInv
<1>13. RequestInv'
  <2>1. \A n \in Own' : \E q \in Ids' : recalls'[q].wrote = n
    <3> SUFFICES ASSUME NEW n \in Own'
                 PROVE  \E q \in Ids : recalls'[q].wrote = n
      BY <1>6
    <3>1. CASE n = m
      BY <1>3, <1>6, <3>1
    <3>2. CASE n \in Own
      <4>1. PICK q \in Ids : recalls[q].wrote = n
        BY <3>2 DEF OwnInv, RequestInv
      <4>2. q # r
        BY <1>5, <3>2, <4>1 DEF Own, Counts
      <4> QED BY <1>6, <4>1, <4>2
    <3> QED BY <1>7, <3>1, <3>2
  <2>2. \A i, j \in DOMAIN inbox' : inbox'[i] = inbox'[j] => i = j
    <3> SUFFICES ASSUME NEW i \in DOMAIN inbox', NEW j \in DOMAIN inbox', inbox'[i] = inbox'[j]
                 PROVE  i = j
      OBVIOUS
    <3>1. i + 1 = j + 1 /\ i \in Nat /\ j \in Nat
      BY <1>3 DEF OwnInv, RequestInv
    <3> QED BY <3>1
  <2>3. ASSUME NEW q \in ToSet(inbox')
        PROVE  /\ recalls'[q].st \in {"sent", "failed"} /\ recalls'[q].wrote = 0
               /\ \A i \in DOMAIN pipe' : pipe'[i].kind = "res" => pipe'[i].n # q
    <3>1. q \in ToSet(inbox) /\ q \in Ids /\ q # r
      BY <1>3, <1>4
    <3>2. /\ recalls[q].st \in {"sent", "failed"} /\ recalls[q].wrote = 0
          /\ \A i \in DOMAIN pipe : pipe[i].kind = "res" => pipe[i].n # q
      BY <3>1 DEF OwnInv, RequestInv
    <3> QED BY <1>2, <1>6, <1>8, <3>1, <3>2
  <2> QED BY <2>1, <2>2, <2>3 DEF RequestInv
<1>14. TokenInv'
  <2> SUFFICES ASSUME NEW q \in Ids, NEW n \in Own', recalls'[q].st = "done", recalls'[q].wrote = n, ToCome(n)'
               PROVE  n \in suppressed
    BY <1>1, <1>6 DEF TokenInv
  <2>1. q # r
    BY <1>5, <1>6
  <2>2. recalls[q].st = "done" /\ recalls[q].wrote = n
    BY <1>6, <2>1
  <2>3. n \in Own
    BY <2>2, <1>7 DEF WritesAreOwn
  <2>4. ToCome(n)
    BY <1>9, <1>11, <2>3 DEF ToCome
  <2> QED BY <2>2, <2>3, <2>4 DEF OwnInv, TokenInv
<1>15. PassedInv'
  <2>1. Passed' = Passed
    BY <1>1 DEF Passed, queues
  <2>2. Passed \subseteq Counts \cup {0}
    <3>1. \A c \in Changes : c.data \in Counts \cup {0}
      BY DEF Changes, None
    <3>2. \A i \in DOMAIN flushing : flushing[i] \in Changes
      BY DEF CaptureTypes
    <3>3. ToSet(ingesting) \subseteq Counts /\ ToSet(history) \subseteq Counts
      BY DEF CaptureTypes, ToSet
    <3>4. pending \in Changes
      BY DEF CaptureTypes
    <3> QED BY <3>1, <3>2, <3>3, <3>4 DEF Passed
  <2>3. m \notin Passed
    BY <1>7, <2>2
  <2> QED BY <1>1, <1>7, <2>1, <2>3 DEF OwnInv, PassedInv
<1> QED BY <1>12, <1>13, <1>14, <1>15 DEF OwnInv

(* A recall is a new request.                                               *)
LEMMA RecallOwn ==
  ASSUME CaptureTypes, WritesAreOwn, OwnInv, Recall
  PROVE  OwnInv'
<1> DEFINE r == Len(recalls) + 1
           new == [st |-> "sent", wrote |-> 0]
<1>1. /\ recalls' = Append(recalls, new) /\ inbox' = Append(inbox, Len(recalls'))
      /\ UNCHANGED <<copies, lastCount, reading, pipe, suppressed, assembling, pending, queues, overtaken>>
  BY DEF Recall, ghosts
<1>2. new.st = "sent" /\ new.wrote = 0 /\ new \in Steps
  BY DEF Steps
<1> HIDE DEF new
<1>3. /\ Ids = 1..Len(recalls) /\ Ids' = Ids \cup {r} /\ Len(recalls') = r /\ r \in Nat /\ r \notin Ids
      /\ recalls'[r] = new /\ \A q \in Ids : recalls'[q] = recalls[q]
  <2>1. recalls \in Seq(Steps)
    BY DEF CaptureTypes
  <2> QED BY <1>1, <1>2, <2>1 DEF Ids
<1> HIDE DEF r
<1>4. /\ DOMAIN inbox = 1..Len(inbox) /\ Len(inbox) \in Nat /\ DOMAIN inbox' = 1..(Len(inbox) + 1)
      /\ inbox'[Len(inbox) + 1] = r /\ \A i \in DOMAIN inbox : inbox'[i] = inbox[i] /\ inbox[i] \in Ids
  <2>1. inbox \in Seq(Ids) /\ inbox' = Append(inbox, r)
    BY <1>1, <1>3 DEF CaptureTypes
  <2> QED BY <2>1
<1>5. ToSet(inbox') = ToSet(inbox) \cup {r} /\ ToSet(inbox) \subseteq Ids
  <2>1. \A i \in DOMAIN inbox' : i \in DOMAIN inbox \/ i = Len(inbox) + 1
    BY <1>4
  <2>2. DOMAIN inbox \subseteq DOMAIN inbox' /\ Len(inbox) + 1 \in DOMAIN inbox'
    BY <1>4
  <2>3. \A q \in ToSet(inbox') : q \in ToSet(inbox) \cup {r}
    BY <1>4, <2>1 DEF ToSet
  <2>4. \A q \in ToSet(inbox) \cup {r} : q \in ToSet(inbox')
    BY <1>4, <2>2 DEF ToSet
  <2> QED BY <1>4, <2>3, <2>4 DEF ToSet
<1>6. /\ Own' = Own /\ Passed' = Passed
      /\ \A n : Unseen(n)' = Unseen(n) /\ Starts(n)' = Starts(n) /\ Open(n)' = Open(n)
  BY <1>1 DEF Own, Counts, Passed, queues, Unseen, Starts, Open
<1>7. OnceInv'
  BY <1>1, <1>6 DEF OwnInv, OnceInv
<1>8. RequestInv'
  <2>1. \A n \in Own' : \E q \in Ids' : recalls'[q].wrote = n
    BY <1>3, <1>6 DEF OwnInv, RequestInv
  <2>2. \A i, j \in DOMAIN inbox' : inbox'[i] = inbox'[j] => i = j
    <3>1. \A i, j \in DOMAIN inbox : inbox[i] = inbox[j] => i = j
      BY DEF OwnInv, RequestInv
    <3> QED BY <1>3, <1>4, <3>1
  <2>3. ASSUME NEW q \in ToSet(inbox')
        PROVE  /\ recalls'[q].st \in {"sent", "failed"} /\ recalls'[q].wrote = 0
               /\ \A i \in DOMAIN pipe' : pipe'[i].kind = "res" => pipe'[i].n # q
    <3>1. CASE q = r
      <4>1. \A i \in DOMAIN pipe : pipe[i] \in Lines
        BY DEF CaptureTypes
      <4>2. \A i \in DOMAIN pipe : pipe[i].kind = "res" => pipe[i].n \in Ids
        BY <4>1 DEF Lines
      <4> QED BY <1>1, <1>2, <1>3, <3>1, <4>2
    <3>2. CASE q \in ToSet(inbox)
      BY <1>1, <1>3, <1>5, <3>2 DEF OwnInv, RequestInv
    <3> QED BY <1>5, <3>1, <3>2
  <2> QED BY <2>1, <2>2, <2>3 DEF RequestInv
<1>9. TokenInv'
  <2>1. \A n : ToCome(n)' = ToCome(n)
    BY <1>6 DEF ToCome
  <2>2. ASSUME NEW q \in Ids', NEW n \in Own',
               recalls'[q].st = "done", recalls'[q].wrote = n, ToCome(n)'
        PROVE  n \in suppressed'
    <3>1. q \in Ids /\ recalls'[q] = recalls[q]
      BY <1>2, <1>3, <2>2
    <3>2. n \in Own /\ ToCome(n)
      BY <1>6, <2>1, <2>2
    <3> QED BY <1>1, <2>2, <3>1, <3>2 DEF OwnInv, TokenInv
  <2> QED BY <2>2 DEF TokenInv
<1>10. PassedInv'
  BY <1>1, <1>6 DEF OwnInv, PassedInv
<1> QED BY <1>7, <1>8, <1>9, <1>10 DEF OwnInv

LEMMA OwnStep == CaptureTypes /\ WritesAreOwn /\ OwnInv /\ [Next]_vars => OwnInv'
<1> SUFFICES ASSUME CaptureTypes, WritesAreOwn, OwnInv, [Next]_vars
             PROVE  OwnInv'
  OBVIOUS
<1> QED BY QuietOwn, UserOwn, AnswerOwn, InlineOwn, FinalOwn, TimeoutOwn, ReplacedOwn,
           DeclaredOwn, TickReadsOwn, WritesOwn, RecallOwn DEF Next

(* A recalled item never comes back as a copy of the user's, unless the     *)
(* poll told of the write before recallCopy() had its answer: the token is  *)
(* spent on that write alone, and no write is told of twice.                *)
THEOREM OwnWritesStayOut == Spec => []OwnWritesAreSuppressed
<1>1. Spec => []OwnInv
  BY OwnInit, OwnStep, CaptureTyped, PTL DEF Spec
<1>2. CaptureTypes /\ OwnInv => OwnWritesAreSuppressed
  BY DEF CaptureTypes, OwnInv, PassedInv, Passed, Own, ToSet, OwnWritesAreSuppressed
<1> QED BY <1>1, <1>2, CaptureTyped, PTL
=============================================================================
