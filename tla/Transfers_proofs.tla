-------------------------- MODULE Transfers_proofs --------------------------
(***************************************************************************)
(* The two ways an item goes between the host and the agent: a copy that is*)
(* put together from a stream of chunks (module Assembler), for offers of any*)
(* shape, lost and damaged lines, timeouts and agents; and an item written to*)
(* the pasteboard (module WriteTransfer), for items of any shape, any number*)
(* of calls, and with every mishap.                                        *)
(***************************************************************************)
EXTENDS Assembler, WriteTransfer, FiniteSetTheorems, TLAPS

-----------------------------------------------------------------------------
(* Assembler: a change is handed on once, whole or with its gaps named, and*)
(* in order.                                                               *)

-----------------------------------------------------------------------------
(* Types.                                                                  *)

(* What a tick can read and declare: no two streams have one id.           *)
Reps ==
  {reps \in UNION {[S -> [size : Nat \ {0}, repId : Nat]] : S \in SUBSET Nat} :
     /\ IsFiniteSet(DOMAIN reps)
     /\ \A i, j \in Chunked(reps) : reps[i].repId = reps[j].repId => i = j}

Fates == {Waiting, Dropped} \cup {Resolved(Pieces(n, i, size)) : n, i, size \in Nat}

Payloads == [change : Nat, slots : UNION {[S -> Fates] : S \in SUBSET Nat}]

AnyLine ==
  [kind : {"changed"}, change : Nat, reps : Reps]
    \cup [kind : {"chunk"}, repId : Nat, seq : Nat, final : BOOLEAN,
          piece : [change : Nat, slot : Nat, seq : Nat]]

AssemblerTypes ==
  /\ agent \in Agents /\ alive \in BOOLEAN /\ nextRep \in Nat /\ unordered \in BOOLEAN
  /\ copied \in Seq(Reps) /\ emitted \in Seq(Payloads)
  /\ pipes \in [Agents -> Seq(AnyLine)]
  /\ IF copied = <<>> THEN writing = {} ELSE writing \subseteq Chunked(copied[Len(copied)])

-----------------------------------------------------------------------------
(* What the host holds is what the pasteboard had.                         *)

(* The fate of a slot that is settled.                                     *)
Arrived(n, i, fate) == fate = Dropped \/ fate = Resolved(Pieces(n, i, copied[n][i].size))

Streamed(n, i) ==
  /\ copied[n][i].repId \in Streams
  /\ owner[copied[n][i].repId] = [change |-> n, slot |-> i]

(* Every slot of these changes is settled or waits for its stream ...      *)
SlotsInv(all) ==
  \A n \in DOMAIN all :
    /\ n \in DOMAIN copied /\ all[n] \in [DOMAIN copied[n] -> Fates]
    /\ \A i \in DOMAIN copied[n] :
         Arrived(n, i, all[n][i]) \/ (all[n][i] = Waiting /\ Streamed(n, i))

(* ... and every stream is a slot that waits for it.                       *)
Fills(id, all, n, i) ==
  /\ owner[id] = [change |-> n, slot |-> i] /\ copied[n][i].repId = id /\ id # 0
  /\ all[n][i] = Waiting
  /\ streams[id] = [size |-> copied[n][i].size, hash |-> Pieces(n, i, copied[n][i].size),
                    parts |-> streams[id].parts]

StreamsInv(all) ==
  /\ DOMAIN owner = Streams /\ IsFiniteSet(Streams) /\ Cardinality(Streams) <= MaxStreams
  /\ \A id \in Streams : \E n \in DOMAIN all : \E i \in DOMAIN copied[n] : Fills(id, all, n, i)

PendingInv ==
  /\ SlotsInv(pending) /\ StreamsInv(pending)
  /\ \A n \in DOMAIN pending : ~Settled(pending[n])

EmittedInv ==
  \A k \in DOMAIN emitted :
    LET n == emitted[k].change
    IN  /\ n \in DOMAIN copied /\ n \notin DOMAIN pending
        /\ \A l \in DOMAIN emitted : emitted[l].change = n => l = k
        /\ DOMAIN emitted[k].slots = DOMAIN copied[n]
        /\ \A i \in DOMAIN copied[n] : Arrived(n, i, emitted[k].slots[i])

(* Change n is new to the host.                                            *)
Unheard(n) == n \notin DOMAIN pending /\ \A k \in DOMAIN emitted : emitted[k].change # n

(* The line that declares change n, p-th of the unread lines of agent a.   *)
Declares(a, p, n) == pipes[a][p].kind = "changed" /\ pipes[a][p].change = n

(* A change is declared once, with what was read, and then not again.      *)
LineInv ==
  \A a \in Agents : \A p \in DOMAIN pipes[a] : pipes[a][p].kind = "changed" =>
    LET n == pipes[a][p].change
    IN  /\ n \in DOMAIN copied /\ pipes[a][p].reps = copied[n] /\ Unheard(n)
        /\ \A b \in Agents : \A q \in DOMAIN pipes[b] : Declares(b, q, n) => b = a /\ q = p

WholeInv == AssemblerTypes /\ PendingInv /\ EmittedInv /\ LineInv

-----------------------------------------------------------------------------
(* As long as no line is lost and no agent dies, nothing overtakes.        *)

Ends(q, id) == pipes[1][q].kind = "chunk" /\ pipes[1][q].repId = id /\ pipes[1][q].final

(* After the p-th line, the stream of a slot ends before anything new is   *)
(* declared, or is still to be written and nothing new is declared.        *)
EndsAfter(p, n, i) ==
  \/ \E q \in DOMAIN pipes[1] :
       /\ p < q /\ Ends(q, copied[n][i].repId)
       /\ \A r \in DOMAIN pipes[1] : p < r /\ r < q => pipes[1][r].kind # "changed"
  \/ /\ n = Len(copied) /\ i \in writing
     /\ \A r \in DOMAIN pipes[1] : p < r => pipes[1][r].kind # "changed"

(* The first agent is the only one there was.                              *)
Alone == agent = 1 /\ alive /\ \A a \in Agents : a # 1 => pipes[a] = <<>>

Ascending == \A k, l \in DOMAIN emitted : k < l => emitted[k].change < emitted[l].change

(* One change waits at a time, and it is the latest the host knows ...     *)
PendingLatest ==
  \A n \in DOMAIN pending :
    (\A m \in DOMAIN pending : m = n) /\ \A k \in DOMAIN emitted : emitted[k].change < n

(* ... but for those on their way, which follow in their order.            *)
LinesAscend ==
  \A p \in DOMAIN pipes[1] : \A n \in Nat : Declares(1, p, n) =>
    /\ \A k \in DOMAIN emitted : emitted[k].change < n
    /\ \A m \in DOMAIN pending : m < n
    /\ \A q \in DOMAIN pipes[1] : \A m \in Nat : q < p /\ Declares(1, q, m) => m < n

(* So a change that is declared finds no stream open.                      *)
DeclaredEnd ==
  \A p \in DOMAIN pipes[1] : \A n \in DOMAIN copied : Declares(1, p, n) =>
    \A i \in Chunked(copied[n]) : EndsAfter(p, n, i)

StreamsEnd ==
  \A id \in Streams : \A n \in DOMAIN copied : \A i \in DOMAIN copied[n] :
    owner[id] = [change |-> n, slot |-> i] => EndsAfter(0, n, i)

OrderInv ==
  ~unordered => Alone /\ Ascending /\ PendingLatest /\ LinesAscend /\ DeclaredEnd /\ StreamsEnd

AssemblerInv == WholeInv /\ OrderInv

-----------------------------------------------------------------------------
(* Slots and their streams.                                                *)

(* How many of a finite set of slots come before one of them.              *)
LEMMA BeforeType ==
  ASSUME NEW S \in SUBSET Nat, IsFiniteSet(S), NEW i \in Nat
  PROVE  Before(S, i) \in Nat
  BY FS_Subset, FS_CardinalityType DEF Before

LEMMA BeforeGrows ==
  ASSUME NEW S \in SUBSET Nat, IsFiniteSet(S), NEW i \in S, NEW j \in S, i < j
  PROVE  Before(S, i) < Before(S, j)
  <1> DEFINE less == {k \in S : k < i}
             more == {k \in S : k < j}
  <1>1. less \in SUBSET more
    <2>1. \A k \in S : k < i => k < j
          OBVIOUS
    <2> QED BY <2>1
  <1>2. i \in more /\ i \notin less
        OBVIOUS
  <1>3. IsFiniteSet(more) /\ IsFiniteSet(less)
        BY FS_Subset
  <1>4. Cardinality(more) \in Nat /\ Cardinality(less) \in Nat
        BY <1>3, FS_CardinalityType
  <1>5. Cardinality(less) <= Cardinality(more) /\ Cardinality(less) # Cardinality(more)
    <2> HIDE DEF less, more
    <2> QED BY <1>1, <1>2, <1>3, FS_Subset
  <1> QED BY <1>4, <1>5 DEF Before

LEMMA BeforeTells ==
  ASSUME NEW S \in SUBSET Nat, IsFiniteSet(S), NEW i \in S, NEW j \in S,
         Before(S, i) = Before(S, j)
  PROVE  i = j
  <1>1. Before(S, i) \in Nat /\ Before(S, j) \in Nat
        BY BeforeType
  <1>2. ~(i < j) /\ ~(j < i)
        BY <1>1, BeforeGrows
  <1> QED BY <1>2

(* No more than m of them come before the m-th.                            *)
LEMMA FewBefore ==
  ASSUME NEW S \in SUBSET Nat, IsFiniteSet(S), NEW m \in Nat
  PROVE  /\ IsFiniteSet({i \in S : Before(S, i) < m})
         /\ Cardinality({i \in S : Before(S, i) < m}) <= m
  <1> DEFINE T == {i \in S : Before(S, i) < m}
             f == [i \in T |-> Before(S, i)]
  <1>1. \A i \in T : Before(S, i) \in 0 .. m - 1
        BY BeforeType
  <1>2. f \in [T -> 0 .. m - 1]
        BY <1>1
  <1>3. \A i, j \in T : f[i] = f[j] => i = j
        BY BeforeTells
  <1>4. f \in Injection(T, 0 .. m - 1)
    <2> HIDE DEF f, T
    <2> QED BY <1>2, <1>3 DEF Injection, IsInjective
  <1>5. IsFiniteSet(0 .. m - 1) /\ Cardinality(0 .. m - 1) = m
        BY FS_Interval
  <1> HIDE DEF f, T
  <1>6. IsFiniteSet(T) /\ Cardinality(T) <= m
        BY <1>4, <1>5, FS_Injection
  <1> QED BY <1>6 DEF T

(* The representations of a change, apart from how a set of functions      *)
(* says it.                                                                *)
LEMMA RepsAre ==
  ASSUME NEW reps \in Reps
  PROVE  /\ DOMAIN reps \in SUBSET Nat /\ IsFiniteSet(DOMAIN reps)
         /\ \A i \in DOMAIN reps : reps[i] \in [size : Nat \ {0}, repId : Nat]
         /\ \A i, j \in Chunked(reps) : reps[i].repId = reps[j].repId => i = j
         /\ Chunked(reps) \in SUBSET DOMAIN reps /\ IsFiniteSet(Chunked(reps))
  <1>1. PICK S \in SUBSET Nat : reps \in [S -> [size : Nat \ {0}, repId : Nat]]
        BY DEF Reps
  <1>2. Chunked(reps) \in SUBSET DOMAIN reps
        BY DEF Chunked
  <1>3. IsFiniteSet(DOMAIN reps)
        BY DEF Reps
  <1>4. IsFiniteSet(Chunked(reps))
        BY <1>2, <1>3, FS_Subset
  <1>5. \A i, j \in Chunked(reps) : reps[i].repId = reps[j].repId => i = j
        BY DEF Reps
  <1> QED BY <1>1, <1>2, <1>3, <1>4, <1>5

LEMMA Prepared ==
  ASSUME NEW offer \in Contents, nextRep \in Nat
  PROVE  prepare(Read(offer)) \in Reps
  <1> DEFINE sizes == Read(offer)
             large == {i \in DOMAIN sizes : sizes[i] >= Threshold}
             reps == prepare(sizes)
  <1>1. offer \in Seq(Nat \ {0}) /\ MaxSize \in Nat /\ Threshold \in Nat
        BY AssemblerAssumption
  <1>2. DOMAIN sizes \in SUBSET (1 .. Len(offer)) /\ Len(offer) \in Nat
        BY <1>1 DEF Read
  <1>3. IsFiniteSet(DOMAIN sizes) /\ DOMAIN sizes \in SUBSET Nat
    <2>1. IsFiniteSet(1 .. Len(offer))
          BY <1>2, FS_Interval
    <2> HIDE DEF sizes
    <2> QED BY <1>2, <2>1, FS_Subset
  <1>4. \A i \in DOMAIN sizes : sizes[i] \in Nat \ {0}
        BY <1>1 DEF Read
  <1> HIDE DEF sizes
  <1>5. large \in SUBSET Nat /\ IsFiniteSet(large)
        BY <1>3, FS_Subset
  <1>6. \A i \in DOMAIN sizes : Before(large, i) \in Nat
        BY <1>3, <1>5, BeforeType
  <1>7. /\ DOMAIN reps = DOMAIN sizes
        /\ \A i \in DOMAIN sizes : reps[i] =
             [size |-> sizes[i], repId |-> IF i \in large THEN nextRep + Before(large, i) + 1 ELSE 0]
        BY DEF prepare
  <1> HIDE DEF reps
  <1>8. \A i \in DOMAIN sizes : reps[i] \in [size : Nat \ {0}, repId : Nat]
    <2> HIDE DEF large
    <2>1. \A i \in DOMAIN sizes : nextRep + Before(large, i) + 1 \in Nat
          BY <1>6
    <2> QED BY <1>4, <1>7, <2>1
  <1>9. \A i, j \in Chunked(reps) : reps[i].repId = reps[j].repId => i = j
    <2> SUFFICES ASSUME NEW i \in Chunked(reps), NEW j \in Chunked(reps),
                        reps[i].repId = reps[j].repId
                 PROVE  i = j
        OBVIOUS
    <2>1. i \in large /\ j \in large
      <3> HIDE DEF large
      <3> QED BY <1>7 DEF Chunked
    <2>2. nextRep + Before(large, i) + 1 = nextRep + Before(large, j) + 1
          BY <1>7, <2>1
    <2>3. Before(large, i) \in Nat /\ Before(large, j) \in Nat
          BY <1>6, <2>1
    <2> HIDE DEF large
    <2>4. Before(large, i) = Before(large, j)
          BY <2>2, <2>3
    <2> QED BY <1>5, <2>1, <2>4, BeforeTells
  <1>10. reps \in [DOMAIN sizes -> [size : Nat \ {0}, repId : Nat]]
    <2>1. reps = [i \in DOMAIN sizes |-> reps[i]]
          BY DEF reps, prepare, sizes
    <2> QED BY <1>8, <2>1
  <1> QED BY <1>3, <1>7, <1>9, <1>10 DEF Reps, reps, sizes

-----------------------------------------------------------------------------
(* Handing on.                                                             *)

(* What finish() hands on is complete, and each change once; what it       *)
(* leaves to wait is not complete.                                         *)
LEMMA FinishIs ==
  ASSUME NEW all, DOMAIN all \in SUBSET Nat, IsFiniteSet(DOMAIN all),
         \A n \in DOMAIN all : DOMAIN all[n] \in SUBSET Nat /\ all[n] \in [DOMAIN all[n] -> Fates],
         emitted \in Seq(Payloads), Finish(all)
  PROVE  /\ emitted' \in Seq(Payloads)
         /\ Len(emitted) <= Len(emitted')
         /\ \A k \in DOMAIN emitted : k \in DOMAIN emitted' /\ emitted'[k] = emitted[k]
         /\ \A k \in DOMAIN emitted' : k \notin DOMAIN emitted =>
              \E n \in Complete(all) : emitted'[k].change = n /\ emitted'[k].slots = all[n]
         /\ \A k, l \in DOMAIN emitted' : k \notin DOMAIN emitted /\ l \notin DOMAIN emitted
              /\ emitted'[k].change = emitted'[l].change => k = l
         /\ DOMAIN pending' = DOMAIN all \ Complete(all)
         /\ \A n \in DOMAIN pending' : pending'[n] = all[n] /\ ~Settled(pending'[n])
  <1> DEFINE done == Complete(all)
  <1>1. PICK order \in Orders(done) :
          emitted' = emitted \o [k \in DOMAIN order |-> Payload(order[k], all[order[k]])]
        BY DEF Finish
  <1> DEFINE news == [k \in DOMAIN order |-> Payload(order[k], all[order[k]])]
  <1>2. done \in SUBSET DOMAIN all
        BY DEF Complete
  <1>3. IsFiniteSet(done)
        BY <1>2, FS_Subset
  <1>4. Cardinality(done) \in Nat
        BY <1>3, FS_CardinalityType
  <1> HIDE DEF done
  <1>5. /\ order \in [1 .. Cardinality(done) -> done]
        /\ \A k, l \in DOMAIN order : order[k] = order[l] => k = l
        BY DEF Orders
  <1>6. \A n \in done : Payload(n, all[n]) \in Payloads
    <2> TAKE n \in done
    <2>1. n \in Nat /\ all[n] \in UNION {[S -> Fates] : S \in SUBSET Nat}
          BY <1>2
    <2> QED BY <2>1 DEF Payload, Payloads
  <1>7. news \in Seq(Payloads) /\ Len(news) = Cardinality(done)
    <2>1. \A k \in 1 .. Cardinality(done) : Payload(order[k], all[order[k]]) \in Payloads
          BY <1>5, <1>6
    <2> QED BY <1>4, <1>5, <2>1
  <1>8. \A k \in DOMAIN news :
          /\ order[k] \in done
          /\ news[k].change = order[k] /\ news[k].slots = all[order[k]]
        BY <1>5 DEF Payload
  <1>9. \A k, l \in DOMAIN news : news[k].change = news[l].change => k = l
    <2>1. DOMAIN news = DOMAIN order
          OBVIOUS
    <2> HIDE DEF news
    <2> QED BY <1>5, <1>8, <2>1
  <1>10. emitted' = emitted \o news
         BY <1>1
  <1> HIDE DEF news
  <1>11. emitted' \in Seq(Payloads) /\ Len(emitted') = Len(emitted) + Len(news)
    <2>1. news \in Seq(Payloads)
          BY <1>7
    <2>2. emitted \o news \in Seq(Payloads)
          BY <2>1
    <2>3. Len(emitted \o news) = Len(emitted) + Len(news)
          BY <2>1
    <2> QED BY <1>10, <2>2, <2>3
  <1>12. \A k \in DOMAIN emitted : k \in DOMAIN emitted' /\ emitted'[k] = emitted[k]
    <2> TAKE k \in DOMAIN emitted
    <2>1. k \in 1 .. Len(emitted) /\ Len(emitted) \in Nat /\ Len(news) \in Nat
          BY <1>7
    <2>2. k \in DOMAIN emitted'
          BY <1>11, <2>1
    <2>3. emitted'[k] = emitted[k]
          BY <1>7, <1>10, <2>1
    <2> QED BY <2>2, <2>3
  <1>13. \A k \in DOMAIN emitted' : k \notin DOMAIN emitted =>
           k - Len(emitted) \in DOMAIN news /\ emitted'[k] = news[k - Len(emitted)]
         BY <1>7, <1>10
  <1>14. \A k \in DOMAIN emitted' : k \notin DOMAIN emitted =>
           \E n \in done : emitted'[k].change = n /\ emitted'[k].slots = all[n]
         BY <1>8, <1>13
  <1>15. \A k, l \in DOMAIN emitted' : k \notin DOMAIN emitted /\ l \notin DOMAIN emitted
            /\ emitted'[k].change = emitted'[l].change => k = l
    <2> SUFFICES ASSUME NEW k \in DOMAIN emitted', NEW l \in DOMAIN emitted',
                        k \notin DOMAIN emitted, l \notin DOMAIN emitted,
                        emitted'[k].change = emitted'[l].change
                 PROVE  k = l
        OBVIOUS
    <2>1. k - Len(emitted) = l - Len(emitted)
          BY <1>9, <1>13
    <2>2. k \in Nat /\ l \in Nat /\ Len(emitted) \in Nat
          BY <1>11
    <2> QED BY <2>1, <2>2
  <1>16. /\ DOMAIN pending' = DOMAIN all \ done
         /\ \A n \in DOMAIN pending' : pending'[n] = all[n]
         BY DEF Finish, Without, done
  <1>17. \A n \in DOMAIN pending' : ~Settled(pending'[n])
         BY <1>16 DEF done, Complete
  <1> QED BY <1>7, <1>11, <1>12, <1>14, <1>15, <1>16, <1>17 DEF done

(* What is handed on, or waits afterwards, is one of S.                    *)
HandsOn(S) ==
  /\ Len(emitted) <= Len(emitted')
  /\ \A k \in DOMAIN emitted : k \in DOMAIN emitted' /\ emitted'[k] = emitted[k]
  /\ \A k \in DOMAIN emitted' : k \notin DOMAIN emitted => emitted'[k].change \in S
  /\ DOMAIN pending' \in SUBSET S

(* When the slots of the changes that wait have got their fates and the    *)
(* streams are the ones they wait for, finish() keeps all that is owed.    *)
LEMMA FinishKeeps ==
  ASSUME AssemblerTypes, EmittedInv, copied' = copied,
         NEW all, SlotsInv(all)', StreamsInv(all)', Finish(all),
         \A n \in DOMAIN all : \A k \in DOMAIN emitted : emitted[k].change # n,
         DOMAIN pending \in SUBSET DOMAIN all
  PROVE  /\ emitted' \in Seq(Payloads) /\ PendingInv' /\ EmittedInv' /\ HandsOn(DOMAIN all)
         /\ \A n \in Nat : Unheard(n) /\ n \notin DOMAIN all => Unheard(n)'
  <1>1. copied \in Seq(Reps) /\ emitted \in Seq(Payloads)
        BY DEF AssemblerTypes
  <1>2. DOMAIN all \in SUBSET DOMAIN copied
        BY DEF SlotsInv
  <1>3. DOMAIN all \in SUBSET Nat /\ IsFiniteSet(DOMAIN all)
    <2>1. DOMAIN copied = 1 .. Len(copied) /\ Len(copied) \in Nat
          BY <1>1
    <2>2. IsFiniteSet(DOMAIN copied)
          BY <2>1, FS_Interval
    <2> QED BY <1>2, <2>1, <2>2, FS_Subset
  <1>4. \A n \in DOMAIN all : all[n] \in [DOMAIN copied[n] -> Fates]
        BY DEF SlotsInv
  <1>5. \A n \in DOMAIN all :
          /\ DOMAIN all[n] = DOMAIN copied[n] /\ DOMAIN all[n] \in SUBSET Nat
          /\ all[n] \in [DOMAIN all[n] -> Fates]
    <2> TAKE n \in DOMAIN all
    <2>1. copied[n] \in Reps
          BY <1>1, <1>2
    <2>2. DOMAIN copied[n] \in SUBSET Nat
          BY <2>1, RepsAre
    <2> QED BY <1>4, <2>2
  <1>6. /\ emitted' \in Seq(Payloads)
        /\ Len(emitted) <= Len(emitted')
        /\ \A k \in DOMAIN emitted : k \in DOMAIN emitted' /\ emitted'[k] = emitted[k]
        /\ \A k \in DOMAIN emitted' : k \notin DOMAIN emitted =>
             \E n \in Complete(all) : emitted'[k].change = n /\ emitted'[k].slots = all[n]
        /\ \A k, l \in DOMAIN emitted' : k \notin DOMAIN emitted /\ l \notin DOMAIN emitted
             /\ emitted'[k].change = emitted'[l].change => k = l
        /\ DOMAIN pending' = DOMAIN all \ Complete(all)
        /\ \A n \in DOMAIN pending' : pending'[n] = all[n] /\ ~Settled(pending'[n])
        BY <1>1, <1>3, <1>5, FinishIs
  <1>7. SlotsInv(pending)'
    <2>1. \A n \in DOMAIN pending' : n \in DOMAIN all /\ pending'[n] = all[n]
          BY <1>6
    <2> QED BY <2>1 DEF SlotsInv, Arrived, Streamed
  <1>8. StreamsInv(pending)'
    <2>1. \A n \in DOMAIN all : \A i \in DOMAIN copied[n] : all[n][i] = Waiting =>
            n \in DOMAIN pending' /\ pending'[n] = all[n]
      <3> SUFFICES ASSUME NEW n \in DOMAIN all, NEW i \in DOMAIN copied[n], all[n][i] = Waiting
                   PROVE  n \notin Complete(all)
          BY <1>6
      <3>1. i \in Outstanding(all[n])
            BY <1>5 DEF Outstanding, Waiting
      <3> QED BY <3>1 DEF Complete, Settled
    <2>2. ASSUME NEW id \in Streams'
          PROVE  \E n \in DOMAIN pending' : \E i \in DOMAIN copied'[n] : Fills(id, pending, n, i)'
      <3>1. PICK n \in DOMAIN all : \E i \in DOMAIN copied[n] : Fills(id, all, n, i)'
            BY <2>2 DEF StreamsInv
      <3>2. PICK i \in DOMAIN copied[n] : Fills(id, all, n, i)'
            BY <3>1
      <3>3. n \in DOMAIN pending' /\ pending'[n] = all[n]
            BY <2>1, <3>2 DEF Fills
      <3> QED BY <3>2, <3>3 DEF Fills
    <2> QED BY <2>2 DEF StreamsInv
  <1>9. EmittedInv'
    <2> SUFFICES ASSUME NEW k \in DOMAIN emitted'
                 PROVE  LET n == emitted'[k].change
                        IN  /\ n \in DOMAIN copied /\ n \notin DOMAIN pending'
                            /\ \A l \in DOMAIN emitted' : emitted'[l].change = n => l = k
                            /\ DOMAIN emitted'[k].slots = DOMAIN copied[n]
                            /\ \A i \in DOMAIN copied[n] : Arrived(n, i, emitted'[k].slots[i])
        BY DEF EmittedInv, Arrived
    <2>1. \A l \in DOMAIN emitted' : l \notin DOMAIN emitted =>
            emitted'[l].change \in DOMAIN all /\ emitted'[l].change \in Complete(all)
          BY <1>6 DEF Complete
    <2>2. CASE k \in DOMAIN emitted
      <3>1. emitted'[k] = emitted[k] /\ emitted[k].change \notin DOMAIN all
            BY <1>6, <2>2
      <3>2. \A l \in DOMAIN emitted' : emitted'[l].change = emitted[k].change => l = k
            BY <1>6, <2>1, <2>2, <3>1 DEF EmittedInv
      <3> QED BY <1>6, <2>2, <3>1, <3>2 DEF EmittedInv
    <2>3. CASE k \notin DOMAIN emitted
      <3>1. PICK n \in Complete(all) : emitted'[k].change = n /\ emitted'[k].slots = all[n]
            BY <1>6, <2>3
      <3>2. n \in DOMAIN all /\ Settled(all[n])
            BY <3>1 DEF Complete
      <3>3. \A l \in DOMAIN emitted' : emitted'[l].change = n => l = k
            BY <1>6, <2>3, <3>1, <3>2
      <3>4. \A i \in DOMAIN copied[n] : Arrived(n, i, all[n][i])
        <4> TAKE i \in DOMAIN copied[n]
        <4>1. all[n][i] # Waiting
              BY <1>5, <3>2 DEF Settled, Outstanding, Waiting
        <4>2. Arrived(n, i, all[n][i])'
              BY <3>2, <4>1 DEF SlotsInv
        <4> QED BY <4>2 DEF Arrived
      <3> QED BY <1>2, <1>5, <1>6, <3>1, <3>2, <3>3, <3>4
    <2> QED BY <2>2, <2>3
  <1>10. \A n \in Nat : Unheard(n) /\ n \notin DOMAIN all => Unheard(n)'
    <2> SUFFICES ASSUME NEW n \in Nat, Unheard(n), n \notin DOMAIN all
                 PROVE  n \notin DOMAIN pending' /\ \A k \in DOMAIN emitted' : emitted'[k].change # n
        BY DEF Unheard
    <2>1. \A k \in DOMAIN emitted' : emitted'[k].change # n
          BY <1>6 DEF Unheard, Complete
    <2> QED BY <1>6, <2>1
  <1>11. HandsOn(DOMAIN all)
         BY <1>6 DEF HandsOn, Complete
  <1> QED BY <1>6, <1>7, <1>8, <1>9, <1>10, <1>11 DEF PendingInv

(* What the pasteboard had is a fate; so is its absence.                   *)
LEMMA ArrivedIsFate ==
  ASSUME AssemblerTypes, NEW n \in DOMAIN copied, NEW i \in DOMAIN copied[n], NEW fate,
         Arrived(n, i, fate)
  PROVE  fate \in Fates
  <1>1. copied[n] \in Reps /\ n \in Nat
        BY DEF AssemblerTypes
  <1>2. i \in Nat /\ copied[n][i].size \in Nat
        BY <1>1, RepsAre
  <1> QED BY <1>1, <1>2 DEF Arrived, Fates

(* The end of one stream.                                                  *)
LEMMA SettleKeeps ==
  ASSUME AssemblerTypes, PendingInv, EmittedInv, copied' = copied,
         NEW id \in Streams, streams' = Without(streams, {id}),
         NEW fate, fate = Dropped \/ fate = Resolved(streams[id].hash), Settle(id, fate)
  PROVE  /\ emitted' \in Seq(Payloads) /\ PendingInv' /\ EmittedInv' /\ HandsOn(DOMAIN pending)
         /\ \A n \in Nat : Unheard(n) => Unheard(n)'
  <1>1. PICK all : all = Fill(id, fate)
        OBVIOUS
  <1>2. /\ DOMAIN all = DOMAIN pending
        /\ \A n \in DOMAIN pending : DOMAIN all[n] = DOMAIN pending[n]
        /\ \A n \in DOMAIN pending : \A i \in DOMAIN pending[n] :
             all[n][i] = IF owner[id] = [change |-> n, slot |-> i] THEN fate ELSE pending[n][i]
        BY <1>1 DEF Fill
  <1>3. Finish(all) /\ owner' = Without(owner, {id})
        BY <1>1 DEF Settle
  <1>4. SlotsInv(pending) /\ StreamsInv(pending)
        BY DEF PendingInv
  <1>5. /\ Streams' = Streams \ {id} /\ DOMAIN owner' = DOMAIN owner \ {id}
        /\ \A x \in Streams : x # id => streams'[x] = streams[x]
        /\ \A x \in DOMAIN owner : x # id => owner'[x] = owner[x]
        BY <1>3 DEF Without, Streams
  <1>6. \A n \in DOMAIN pending : DOMAIN pending[n] = DOMAIN copied[n] /\ n \in DOMAIN copied
        BY <1>4 DEF SlotsInv
  <1>7. PICK m \in DOMAIN pending : \E j \in DOMAIN copied[m] : Fills(id, pending, m, j)
        BY <1>4 DEF StreamsInv
  <1>8. PICK j \in DOMAIN copied[m] : Fills(id, pending, m, j)
        BY <1>7
  <1>9. SlotsInv(all)'
    <2>1. ASSUME NEW n \in DOMAIN pending, NEW i \in DOMAIN copied[n]
          PROVE  /\ all[n][i] \in Fates
                 /\ Arrived(n, i, all[n][i]) \/ (all[n][i] = Waiting /\ Streamed(n, i)')
      <3>1. CASE owner[id] = [change |-> n, slot |-> i]
        <4>1. n = m /\ i = j
              BY <1>8, <3>1 DEF Fills
        <4>2. all[n][i] = fate
              BY <1>2, <1>6, <3>1
        <4>3. Arrived(n, i, all[n][i])
              BY <1>8, <4>1, <4>2 DEF Arrived, Fills
        <4> QED BY <1>6, <4>3, ArrivedIsFate
      <3>2. CASE owner[id] # [change |-> n, slot |-> i]
        <4>1. all[n][i] = pending[n][i]
              BY <1>2, <1>6, <3>2
        <4>2. pending[n][i] \in Fates
              BY <1>4 DEF SlotsInv
        <4>3. CASE pending[n][i] = Waiting /\ Streamed(n, i)
          <5>1. copied[n][i].repId # id
                BY <3>2, <4>3 DEF Streamed
          <5>2. DOMAIN owner = Streams
                BY <1>4 DEF StreamsInv
          <5>3. Streamed(n, i)'
                BY <1>5, <4>3, <5>1, <5>2 DEF Streamed
          <5> QED BY <4>1, <4>2, <4>3, <5>3
        <4>4. CASE Arrived(n, i, pending[n][i])
              BY <4>1, <4>2, <4>4
        <4> QED BY <1>4, <4>3, <4>4 DEF SlotsInv
      <3> QED BY <3>1, <3>2
    <2>2. \A n \in DOMAIN pending : all[n] \in [DOMAIN copied[n] -> Fates]
      <3> TAKE n \in DOMAIN pending
      <3>1. all[n] = [i \in DOMAIN pending[n] |-> all[n][i]]
            BY <1>1 DEF Fill
      <3>2. DOMAIN pending[n] = DOMAIN copied[n]
            BY <1>6
      <3> QED BY <2>1, <3>1, <3>2
    <2> QED BY <1>2, <1>6, <2>1, <2>2 DEF SlotsInv, Arrived
  <1>10. StreamsInv(all)'
    <2>1. /\ DOMAIN owner' = Streams' /\ IsFiniteSet(Streams')
          /\ Cardinality(Streams') <= MaxStreams
      <3>1. IsFiniteSet(Streams) /\ Cardinality(Streams) <= MaxStreams /\ DOMAIN owner = Streams
            BY <1>4 DEF StreamsInv
      <3>2. Streams' \in SUBSET Streams
            BY <1>5
      <3>3. IsFiniteSet(Streams') /\ Cardinality(Streams') <= Cardinality(Streams)
            BY <3>1, <3>2, FS_Subset
      <3>4. Cardinality(Streams') \in Nat /\ Cardinality(Streams) \in Nat /\ MaxStreams \in Nat
            BY <3>1, <3>3, FS_CardinalityType, AssemblerAssumption
      <3> QED BY <1>5, <3>1, <3>3, <3>4
    <2>2. ASSUME NEW x \in Streams'
          PROVE  \E n \in DOMAIN all : \E i \in DOMAIN copied'[n] : Fills(x, all, n, i)'
      <3>1. x \in Streams /\ x # id /\ x \in DOMAIN owner
            BY <1>4, <1>5 DEF StreamsInv
      <3>2. PICK n \in DOMAIN pending : \E i \in DOMAIN copied[n] : Fills(x, pending, n, i)
            BY <1>4, <3>1 DEF StreamsInv
      <3>3. PICK i \in DOMAIN copied[n] : Fills(x, pending, n, i)
            BY <3>2
      <3>4. owner[id] # [change |-> n, slot |-> i]
            BY <1>8, <3>1, <3>3 DEF Fills
      <3>5. all[n][i] = pending[n][i]
            BY <1>2, <1>6, <3>4
      <3>6. Fills(x, all, n, i)'
            BY <1>5, <3>1, <3>3, <3>5 DEF Fills
      <3> QED BY <1>2, <3>6
    <2> QED BY <2>1, <2>2 DEF StreamsInv
  <1>11. \A n \in DOMAIN all : \A k \in DOMAIN emitted : emitted[k].change # n
         BY <1>2 DEF EmittedInv
  <1>12. /\ emitted' \in Seq(Payloads) /\ PendingInv' /\ EmittedInv' /\ HandsOn(DOMAIN all)
         /\ \A n \in Nat : Unheard(n) /\ n \notin DOMAIN all => Unheard(n)'
         BY <1>2, <1>3, <1>9, <1>10, <1>11, FinishKeeps
  <1> QED BY <1>2, <1>12 DEF Unheard

LEMMA HostStays ==
  ASSUME PendingInv, EmittedInv, copied' = copied, UNCHANGED host
  PROVE  /\ PendingInv' /\ EmittedInv' /\ \A n \in Nat : Unheard(n) => Unheard(n)'
  BY DEF host, PendingInv, SlotsInv, StreamsInv, Fills, Streams, Arrived, Streamed, EmittedInv,
         Unheard

(* A chunk goes on to the stream it is for, or ends it.                    *)
LEMMA ChunkKeeps ==
  ASSUME AssemblerTypes, PendingInv, EmittedInv, copied' = copied,
         NEW c, NEW readable, handleChunk(c, readable)
  PROVE  /\ emitted' \in Seq(Payloads) /\ PendingInv' /\ EmittedInv' /\ HandsOn(DOMAIN pending)
         /\ \A n \in Nat : Unheard(n) => Unheard(n)'
  <1> DEFINE id == c.repId
             s == streams[id]
             parts == Append(s.parts, c.piece)
  <1>1. emitted \in Seq(Payloads)
        BY DEF AssemblerTypes
  <1>2. CASE UNCHANGED host
    <2>1. emitted' = emitted /\ pending' = pending
          BY <1>2 DEF host
    <2>2. HandsOn(DOMAIN pending)
          BY <1>1, <2>1 DEF HandsOn
    <2> QED BY <1>1, <1>2, <2>1, <2>2, HostStays
  <1>3. CASE id \in Streams /\ abort(id)
        BY <1>3, SettleKeeps DEF abort
  <1>4. CASE /\ id \in Streams /\ Whole(s, parts)
             /\ streams' = Without(streams, {id}) /\ Settle(id, Resolved(parts))
    <2>1. Resolved(parts) = Resolved(s.hash)
          BY <1>4 DEF Whole
    <2> QED BY <1>4, <2>1, SettleKeeps
  <1>5. CASE /\ id \in Streams
             /\ streams' = [streams EXCEPT ![id] = [s EXCEPT !.parts = parts]]
             /\ UNCHANGED <<owner, pending, emitted>>
    <2>1. /\ Streams' = Streams
          /\ \A x \in Streams : x # id => streams'[x] = streams[x]
          /\ streams'[id] = [s EXCEPT !.parts = parts]
          BY <1>5 DEF Streams
    <2>2. PendingInv
          OBVIOUS
    <2>3. SlotsInv(pending)'
          BY <1>5, <2>1, <2>2 DEF PendingInv, SlotsInv, Arrived, Streamed
    <2>4. StreamsInv(pending)'
      <3>1. PICK m \in DOMAIN pending : \E j \in DOMAIN copied[m] : Fills(id, pending, m, j)
            BY <1>5 DEF PendingInv, StreamsInv
      <3>2. ASSUME NEW x \in Streams, NEW n \in DOMAIN pending, NEW i \in DOMAIN copied[n],
                   Fills(x, pending, n, i)
            PROVE  Fills(x, pending, n, i)'
        <4>1. CASE x # id
              BY <1>5, <2>1, <3>2, <4>1 DEF Fills
        <4>2. CASE x = id
          <5> DEFINE size == copied[n][i].size
          <5>1. s = [size |-> size, hash |-> Pieces(n, i, size), parts |-> s.parts]
                BY <3>2, <4>2 DEF Fills
          <5>2. streams'[x] = [size |-> size, hash |-> Pieces(n, i, size), parts |-> parts]
            <6> HIDE DEF s, parts, size
            <6>1. [s EXCEPT !.parts = parts] = [size |-> size, hash |-> Pieces(n, i, size),
                                                parts |-> parts]
                  BY <5>1
            <6> QED BY <2>1, <4>2, <6>1
          <5>3. copied'[n][i].size = size
                OBVIOUS
          <5> HIDE DEF size
          <5>4. streams'[x] = [size |-> size, hash |-> Pieces(n, i, size),
                               parts |-> streams'[x].parts]
                BY <5>2
          <5> QED BY <1>5, <3>2, <4>2, <5>3, <5>4 DEF Fills
        <4> QED BY <4>1, <4>2
      <3>3. ASSUME NEW x \in Streams'
            PROVE  \E n \in DOMAIN pending' : \E i \in DOMAIN copied'[n] : Fills(x, pending, n, i)'
        <4>1. PICK n \in DOMAIN pending : \E i \in DOMAIN copied[n] : Fills(x, pending, n, i)
              BY <2>1 DEF PendingInv, StreamsInv
        <4> QED BY <1>5, <2>1, <3>2, <4>1
      <3> QED BY <1>5, <2>1, <3>3 DEF PendingInv, StreamsInv
    <2>5. \A n \in DOMAIN pending' : ~Settled(pending'[n])
          BY <1>5 DEF PendingInv
    <2>6. EmittedInv' /\ \A n \in Nat : Unheard(n) => Unheard(n)'
          BY <1>5 DEF EmittedInv, Arrived, Unheard
    <2>7. HandsOn(DOMAIN pending)
      <3>1. emitted' = emitted /\ pending' = pending
            BY <1>5
      <3> QED BY <1>1, <3>1 DEF HandsOn
    <2> QED BY <1>1, <1>5, <2>3, <2>4, <2>5, <2>6, <2>7 DEF PendingInv
  <1>6. \/ UNCHANGED host
        \/ id \in Streams /\ abort(id)
        \/ /\ id \in Streams /\ Whole(s, parts)
           /\ streams' = Without(streams, {id}) /\ Settle(id, Resolved(parts))
        \/ /\ id \in Streams
           /\ streams' = [streams EXCEPT ![id] = [s EXCEPT !.parts = parts]]
           /\ UNCHANGED <<owner, pending, emitted>>
        BY DEF handleChunk
  <1> QED BY <1>2, <1>3, <1>4, <1>5, <1>6

(* The line that declares a change: its slots wait only for streams that   *)
(* no other slot waits for, and there are enough of those.                 *)
LEMMA ChangedKeeps ==
  ASSUME AssemblerTypes, PendingInv, EmittedInv, copied' = copied,
         NEW n \in DOMAIN copied, Unheard(n), NEW damaged, handleChanged(n, copied[n], damaged)
  PROVE  /\ emitted' \in Seq(Payloads) /\ PendingInv' /\ EmittedInv'
         /\ HandsOn(DOMAIN pending \cup {n})
         /\ \A m \in Nat : Unheard(m) /\ m # n => Unheard(m)'
  <1> DEFINE reps == copied[n]
             declared == Declared(reps)
             ids == {reps[i].repId : i \in declared}
             slotOf(id) == CHOOSE i \in declared : reps[i].repId = id
             decl(i) == [size |-> reps[i].size, hash |-> Pieces(n, i, reps[i].size), parts |-> <<>>]
  <1>1. reps \in Reps /\ copied \in Seq(Reps)
        BY DEF AssemblerTypes
  <1>2. /\ DOMAIN reps \in SUBSET Nat /\ IsFiniteSet(DOMAIN reps)
        /\ \A i, j \in Chunked(reps) : reps[i].repId = reps[j].repId => i = j
        /\ Chunked(reps) \in SUBSET DOMAIN reps /\ IsFiniteSet(Chunked(reps))
        BY <1>1, RepsAre
  <1>3. PICK all : all = [m \in DOMAIN pending \cup {n} |->
                            IF m = n THEN Slots(n, reps, declared, damaged) ELSE pending[m]]
        OBVIOUS
  <1>4. /\ streams' = [id \in Streams \cup ids |->
                         IF id \in ids THEN decl(slotOf(id)) ELSE streams[id]]
        /\ owner' = [id \in DOMAIN owner \cup ids |->
                       IF id \in ids THEN [change |-> n, slot |-> slotOf(id)] ELSE owner[id]]
        /\ Finish(all)
        BY <1>3 DEF handleChanged
  <1>5. SlotsInv(pending) /\ StreamsInv(pending) /\ n \notin DOMAIN pending
        BY DEF PendingInv, Unheard
  <1>6. DOMAIN owner = Streams /\ IsFiniteSet(Streams) /\ Cardinality(Streams) <= MaxStreams
        BY <1>5 DEF StreamsInv
  <1>7. Cardinality(Streams) \in Nat /\ MaxStreams \in Nat
        BY <1>6, FS_CardinalityType, AssemblerAssumption
  <1>8. declared \in SUBSET Chunked(reps) /\ \A i \in declared : reps[i].repId \notin Streams
        BY <1>6 DEF Declared
  <1>9. IsFiniteSet(declared) /\ Cardinality(declared) <= MaxStreams - Cardinality(Streams)
    <2> DEFINE unowned == {i \in Chunked(reps) : reps[i].repId \notin DOMAIN owner}
               free == MaxStreams - Cardinality(Streams)
    <2>1. unowned \in SUBSET Nat /\ IsFiniteSet(unowned)
          BY <1>2, FS_Subset
    <2>2. free \in Nat
          BY <1>6, <1>7
    <2>3. declared = {i \in unowned : Before(unowned, i) < free}
          BY DEF Declared
    <2> HIDE DEF unowned, free, declared
    <2>4. IsFiniteSet(declared) /\ Cardinality(declared) <= free
          BY <2>1, <2>2, <2>3, FewBefore
    <2> QED BY <2>4 DEF free
  <1> HIDE DEF declared
  <1>10. \A i \in declared : reps[i].repId \in ids /\ slotOf(reps[i].repId) = i
    <2> TAKE i \in declared
    <2>1. \A j \in declared : reps[j].repId = reps[i].repId => j = i
          BY <1>2, <1>8
    <2> QED BY <2>1
  <1>11. \A id \in ids : /\ slotOf(id) \in declared /\ reps[slotOf(id)].repId = id
                         /\ id \notin Streams /\ id # 0
         BY <1>8 DEF Chunked
  <1> HIDE DEF slotOf
  <1>12. IsFiniteSet(ids) /\ Cardinality(ids) <= Cardinality(declared)
    <2> DEFINE f == [id \in ids |-> slotOf(id)]
    <2>1. f \in [ids -> declared] /\ \A x, y \in ids : f[x] = f[y] => x = y
          BY <1>11
    <2> HIDE DEF ids, f
    <2>2. f \in Injection(ids, declared)
          BY <2>1 DEF Injection, IsInjective
    <2> QED BY <1>9, <2>2, FS_Injection
  <1> HIDE DEF ids
  <1>13. /\ Streams' = Streams \cup ids /\ DOMAIN owner' = Streams'
         /\ \A id \in Streams : streams'[id] = streams[id] /\ owner'[id] = owner[id]
         /\ \A id \in ids : /\ streams'[id] = decl(slotOf(id))
                            /\ owner'[id] = [change |-> n, slot |-> slotOf(id)]
         BY <1>4, <1>6, <1>11 DEF Streams
  <1>14. IsFiniteSet(Streams') /\ Cardinality(Streams') <= MaxStreams
    <2>1. Streams \cap ids = {}
          BY <1>11
    <2>2. Cardinality(ids) \in Nat /\ Cardinality(declared) \in Nat
          BY <1>9, <1>12, FS_CardinalityType
    <2>3. /\ IsFiniteSet(Streams \cup ids)
          /\ Cardinality(Streams \cup ids) = Cardinality(Streams) + Cardinality(ids)
                                             - Cardinality(Streams \cap ids)
          BY <1>6, <1>12, FS_Union
    <2>4. Cardinality(Streams \cap ids) = 0
          BY <2>1, FS_EmptySet
    <2> QED BY <1>7, <1>9, <1>12, <1>13, <2>2, <2>3, <2>4
  <1>15. /\ DOMAIN all = DOMAIN pending \cup {n} /\ all[n] = Slots(n, reps, declared, damaged)
         /\ \A m \in DOMAIN pending : all[m] = pending[m]
         BY <1>3, <1>5
  <1>16. SlotsInv(all)'
    <2>1. ASSUME NEW m \in DOMAIN pending
          PROVE  /\ m \in DOMAIN copied /\ all[m] \in [DOMAIN copied[m] -> Fates]
                 /\ \A i \in DOMAIN copied[m] :
                      Arrived(m, i, all[m][i]) \/ (all[m][i] = Waiting /\ Streamed(m, i)')
          BY <1>5, <1>13, <1>15 DEF SlotsInv, Streamed
    <2>2. ASSUME NEW i \in DOMAIN reps
          PROVE  /\ all[n][i] \in Fates
                 /\ Arrived(n, i, all[n][i]) \/ (all[n][i] = Waiting /\ Streamed(n, i)')
      <3>1. CASE i \in declared
        <4>1. all[n][i] = Waiting
              BY <1>15, <3>1 DEF Slots
        <4>2. Streamed(n, i)'
          <5> DEFINE id == reps[i].repId
          <5> HIDE DEF id
          <5>1. id \in ids /\ slotOf(id) = i
                BY <1>10, <3>1 DEF id
          <5>2. id \in ids /\ owner'[id] = [change |-> n, slot |-> i]
                BY <1>13, <5>1
          <5>3. copied'[n] = reps /\ id \in Streams'
                BY <1>13, <5>2
          <5> QED BY <5>2, <5>3 DEF Streamed, id
        <4> QED BY <4>1, <4>2 DEF Fates
      <3>2. CASE i \notin declared
        <4>1. Arrived(n, i, all[n][i])
              BY <1>15, <3>2 DEF Slots, InlineFate, Arrived
        <4> QED BY <4>1, ArrivedIsFate
      <3> QED BY <3>1, <3>2
    <2>3. all[n] \in [DOMAIN reps -> Fates]
          BY <1>15, <2>2 DEF Slots
    <2> QED BY <1>15, <2>1, <2>2, <2>3 DEF SlotsInv, Arrived
  <1>17. StreamsInv(all)'
    <2>1. ASSUME NEW id \in Streams
          PROVE  \E m \in DOMAIN all : \E i \in DOMAIN copied'[m] : Fills(id, all, m, i)'
      <3>1. PICK m \in DOMAIN pending : \E i \in DOMAIN copied[m] : Fills(id, pending, m, i)
            BY <1>5 DEF StreamsInv
      <3>2. PICK i \in DOMAIN copied[m] : Fills(id, pending, m, i)
            BY <3>1
      <3>3. Fills(id, all, m, i)'
            BY <1>13, <1>15, <3>2 DEF Fills
      <3> QED BY <1>15, <3>3
    <2>2. ASSUME NEW id \in ids
          PROVE  \E m \in DOMAIN all : \E i \in DOMAIN copied'[m] : Fills(id, all, m, i)'
      <3>1. PICK i : i = slotOf(id)
            OBVIOUS
      <3>2. i \in declared /\ i \in DOMAIN reps /\ reps[i].repId = id /\ id # 0
            BY <1>2, <1>8, <1>11, <3>1
      <3>3. all[n][i] = Waiting
            BY <1>15, <3>2 DEF Slots
      <3>4. owner'[id] = [change |-> n, slot |-> i]
            BY <1>13, <3>1
      <3>5. streams'[id] = [size |-> reps[i].size, hash |-> Pieces(n, i, reps[i].size),
                            parts |-> streams'[id].parts]
        <4>1. streams'[id] = decl(i)
              BY <1>13, <3>1
        <4> QED BY <4>1
      <3>6. Fills(id, all, n, i)'
            BY <3>2, <3>3, <3>4, <3>5 DEF Fills
      <3> QED BY <1>15, <3>2, <3>6
    <2> QED BY <1>13, <1>14, <2>1, <2>2 DEF StreamsInv
  <1>18. \A m \in DOMAIN all : \A k \in DOMAIN emitted : emitted[k].change # m
         BY <1>15 DEF EmittedInv, Unheard
  <1>19. /\ emitted' \in Seq(Payloads) /\ PendingInv' /\ EmittedInv' /\ HandsOn(DOMAIN all)
         /\ \A m \in Nat : Unheard(m) /\ m \notin DOMAIN all => Unheard(m)'
         BY <1>4, <1>15, <1>16, <1>17, <1>18, FinishKeeps
  <1> QED BY <1>15, <1>19 DEF Unheard

(* The end of all streams at once.                                         *)
LEMMA AbortAllKeeps ==
  ASSUME AssemblerTypes, PendingInv, EmittedInv, copied' = copied, abortAll
  PROVE  /\ emitted' \in Seq(Payloads) /\ PendingInv' /\ EmittedInv'
         /\ \A n \in Nat : Unheard(n) => Unheard(n)'
  <1>1. PICK all : all = AllDropped
        OBVIOUS
  <1>2. /\ DOMAIN all = DOMAIN pending
        /\ \A n \in DOMAIN pending : DOMAIN all[n] = DOMAIN pending[n]
        /\ \A n \in DOMAIN pending : \A i \in DOMAIN pending[n] :
             all[n][i] = IF pending[n][i].st = "waiting" THEN Dropped ELSE pending[n][i]
        BY <1>1 DEF AllDropped
  <1>3. SlotsInv(pending)
        BY DEF PendingInv
  <1>4. \A n \in DOMAIN pending : DOMAIN pending[n] = DOMAIN copied[n] /\ n \in DOMAIN copied
        BY <1>3 DEF SlotsInv
  <1>5. SlotsInv(all)'
    <2>1. ASSUME NEW n \in DOMAIN pending, NEW i \in DOMAIN copied[n]
          PROVE  Arrived(n, i, all[n][i]) /\ all[n][i] \in Fates
      <3>1. Arrived(n, i, all[n][i])
            BY <1>2, <1>3, <1>4 DEF SlotsInv, Arrived, Waiting
      <3> QED BY <1>4, <3>1, ArrivedIsFate
    <2>2. \A n \in DOMAIN pending : all[n] \in [DOMAIN copied[n] -> Fates]
      <3> TAKE n \in DOMAIN pending
      <3>1. all[n] = [i \in DOMAIN pending[n] |-> all[n][i]]
            BY <1>1 DEF AllDropped
      <3>2. DOMAIN pending[n] = DOMAIN copied[n]
            BY <1>4
      <3> QED BY <2>1, <3>1, <3>2
    <2> QED BY <1>2, <1>4, <2>1, <2>2 DEF SlotsInv, Arrived
  <1>6. StreamsInv(all)'
    <2>1. Streams' = {} /\ DOMAIN owner' = {}
          BY DEF abortAll, Streams
    <2> QED BY <2>1, FS_EmptySet, AssemblerAssumption DEF StreamsInv
  <1>7. \A n \in DOMAIN all : \A k \in DOMAIN emitted : emitted[k].change # n
        BY <1>2 DEF EmittedInv
  <1>8. Finish(all)
        BY <1>1 DEF abortAll
  <1>9. /\ emitted' \in Seq(Payloads) /\ PendingInv' /\ EmittedInv'
        /\ \A n \in Nat : Unheard(n) /\ n \notin DOMAIN all => Unheard(n)'
        BY <1>2, <1>5, <1>6, <1>7, <1>8, FinishKeeps
  <1> QED BY <1>2, <1>9 DEF Unheard

-----------------------------------------------------------------------------
(* The lines of the agents.                                                *)

LEMMA ConsumeIs ==
  ASSUME AssemblerTypes, NEW a \in Agents, Consume(a)
  PROVE  /\ pipes' \in [Agents -> Seq(AnyLine)]
         /\ 1 \in DOMAIN pipes[a] /\ Line(a) = pipes[a][1] /\ Line(a) \in AnyLine
         /\ \A b \in Agents : b # a => pipes'[b] = pipes[b]
         /\ \A p \in DOMAIN pipes'[a] :
              p \in Nat /\ p + 1 \in DOMAIN pipes[a] /\ pipes'[a][p] = pipes[a][p + 1]
         /\ \A p \in DOMAIN pipes[a] : p # 1 => p - 1 \in DOMAIN pipes'[a]
  <1>1. pipes \in [Agents -> Seq(AnyLine)]
        BY DEF AssemblerTypes
  <1>2. pipes[a] \in Seq(AnyLine) /\ pipes[a] # <<>>
        BY <1>1 DEF Consume
  <1>3. pipes'[a] = Tail(pipes[a])
        BY <1>1 DEF Consume
  <1>4. Tail(pipes[a]) \in Seq(AnyLine)
        BY <1>2
  <1>5. pipes' \in [Agents -> Seq(AnyLine)] /\ \A b \in Agents : b # a => pipes'[b] = pipes[b]
        BY <1>1, <1>4 DEF Consume
  <1>6. Line(a) = pipes[a][1] /\ Line(a) \in AnyLine /\ 1 \in DOMAIN pipes[a]
        BY <1>2 DEF Line
  <1>7. \A p \in DOMAIN pipes'[a] :
          p \in Nat /\ p + 1 \in DOMAIN pipes[a] /\ pipes'[a][p] = pipes[a][p + 1]
        BY <1>2, <1>3
  <1>8. \A p \in DOMAIN pipes[a] : p # 1 => p - 1 \in DOMAIN pipes'[a]
        BY <1>2, <1>3
  <1> QED BY <1>5, <1>6, <1>7, <1>8

LEMMA WriteIs ==
  ASSUME AssemblerTypes, NEW lines \in Seq(AnyLine), Write(lines)
  PROVE  /\ pipes' \in [Agents -> Seq(AnyLine)]
         /\ \A b \in Agents : b # agent => pipes'[b] = pipes[b]
         /\ \A p \in DOMAIN pipes[agent] :
              /\ p \in Nat /\ p <= Len(pipes[agent])
              /\ p \in DOMAIN pipes'[agent] /\ pipes'[agent][p] = pipes[agent][p]
         /\ \A p \in DOMAIN pipes'[agent] : p \notin DOMAIN pipes[agent] =>
              /\ p \in Nat /\ p > Len(pipes[agent])
              /\ p - Len(pipes[agent]) \in DOMAIN lines
              /\ pipes'[agent][p] = lines[p - Len(pipes[agent])]
         /\ \A p \in DOMAIN lines :
              /\ Len(pipes[agent]) + p \in DOMAIN pipes'[agent]
              /\ pipes'[agent][Len(pipes[agent]) + p] = lines[p]
         /\ Len(pipes[agent]) \in Nat
  <1>1. pipes \in [Agents -> Seq(AnyLine)] /\ agent \in Agents
        BY DEF AssemblerTypes
  <1> DEFINE old == pipes[agent]
  <1>2. old \in Seq(AnyLine)
        BY <1>1
  <1>3. pipes'[agent] = old \o lines
        BY <1>1 DEF Write
  <1>4. old \o lines \in Seq(AnyLine)
        BY <1>2
  <1>5. pipes' \in [Agents -> Seq(AnyLine)] /\ \A b \in Agents : b # agent => pipes'[b] = pipes[b]
        BY <1>1, <1>4 DEF Write
  <1> HIDE DEF old
  <1>6. \A p \in DOMAIN old :
          p \in Nat /\ p <= Len(old) /\ p \in DOMAIN pipes'[agent] /\ pipes'[agent][p] = old[p]
        BY <1>2, <1>3
  <1>7. \A p \in DOMAIN pipes'[agent] : p \notin DOMAIN old =>
          /\ p \in Nat /\ p > Len(old)
          /\ p - Len(old) \in DOMAIN lines
          /\ pipes'[agent][p] = lines[p - Len(old)]
        BY <1>2, <1>3
  <1>8. \A p \in DOMAIN lines :
          Len(old) + p \in DOMAIN pipes'[agent] /\ pipes'[agent][Len(old) + p] = lines[p]
        BY <1>2, <1>3
  <1>9. Len(old) \in Nat
        BY <1>2
  <1> QED BY <1>5, <1>6, <1>7, <1>8, <1>9 DEF old

(* The chunks of a slot, the last of which ends its stream.                *)
LEMMA ChunksAre ==
  ASSUME AssemblerTypes, NEW n \in DOMAIN copied, NEW i \in DOMAIN copied[n]
  PROVE  LET lines == Chunks(n, copied[n], i)
         IN  /\ lines \in Seq(AnyLine)
             /\ \A p \in DOMAIN lines : lines[p].kind = "chunk"
             /\ \E q \in DOMAIN lines :
                  lines[q].repId = copied[n][i].repId /\ lines[q].final
  <1> DEFINE lines == Chunks(n, copied[n], i)
             rep == copied[n][i]
  <1>1. copied[n] \in Reps /\ n \in Nat
        BY DEF AssemblerTypes
  <1>2. i \in Nat /\ rep.size \in Nat \ {0} /\ rep.repId \in Nat
        BY <1>1, RepsAre
  <1>3. lines = [seq \in 1 .. rep.size |->
                   [kind |-> "chunk", repId |-> rep.repId, seq |-> seq - 1,
                    final |-> seq = rep.size, piece |-> Piece(n, i, seq - 1)]]
        BY DEF Chunks
  <1> HIDE DEF lines, rep
  <1>4. ASSUME NEW p \in 1 .. rep.size
        PROVE  /\ lines[p] \in AnyLine /\ lines[p].kind = "chunk" /\ lines[p].repId = rep.repId
               /\ p = rep.size => lines[p].final
    <2> DEFINE last == p = rep.size
    <2>1. lines[p] = [kind |-> "chunk", repId |-> rep.repId, seq |-> p - 1,
                      final |-> last, piece |-> Piece(n, i, p - 1)]
          BY <1>3
    <2>2. Piece(n, i, p - 1) \in [change : Nat, slot : Nat, seq : Nat]
          BY <1>1, <1>2 DEF Piece
    <2>3. p - 1 \in Nat /\ last \in BOOLEAN
          OBVIOUS
    <2> HIDE DEF last
    <2>4. lines[p] \in [kind : {"chunk"}, repId : Nat, seq : Nat, final : BOOLEAN,
                        piece : [change : Nat, slot : Nat, seq : Nat]]
          BY <1>2, <2>1, <2>2, <2>3
    <2>5. lines[p].final = last
          BY <2>1
    <2>6. lines[p].kind = "chunk" /\ lines[p].repId = rep.repId
          BY <2>1
    <2> QED BY <2>4, <2>5, <2>6 DEF AnyLine, last
  <1>5. DOMAIN lines = 1 .. rep.size
        BY <1>3
  <1>6. lines \in Seq(AnyLine)
    <2>1. lines = [p \in 1 .. rep.size |-> lines[p]]
          BY <1>3
    <2>2. \A p \in 1 .. rep.size : lines[p] \in AnyLine
          BY <1>4
    <2>3. lines \in [1 .. rep.size -> AnyLine]
          BY <2>1, <2>2
    <2>4. rep.size \in Nat
          BY <1>2
    <2> QED BY <2>3, <2>4
  <1>7. \A p \in DOMAIN lines : lines[p].kind = "chunk"
        BY <1>4, <1>5
  <1>8. rep.size \in DOMAIN lines /\ lines[rep.size].repId = rep.repId /\ lines[rep.size].final
        BY <1>2, <1>4, <1>5
  <1> QED BY <1>6, <1>7, <1>8 DEF lines, rep

(* Lines that are left of those there were, in their places or moved up,   *)
(* declare what they declared.                                             *)
LEMMA LinesStay ==
  ASSUME AssemblerTypes, LineInv, copied' = copied, NEW d \in [Agents -> Nat],
         \A b \in Agents : \A p \in DOMAIN pipes'[b] :
           p \in Nat /\ (pipes'[b][p].kind = "changed" =>
             p + d[b] \in DOMAIN pipes[b] /\ pipes[b][p + d[b]] = pipes'[b][p]),
         \A b \in Agents : \A p \in DOMAIN pipes'[b] : \A n \in Nat :
           Declares(b, p, n)' => Unheard(n)'
  PROVE  LineInv'
  <1> SUFFICES ASSUME NEW a \in Agents, NEW p \in DOMAIN pipes'[a], NEW n,
                      pipes'[a][p].kind = "changed", n = pipes'[a][p].change
               PROVE  /\ n \in DOMAIN copied /\ pipes'[a][p].reps = copied[n]
                      /\ Unheard(n)'
                      /\ \A b \in Agents : \A q \in DOMAIN pipes'[b] :
                           Declares(b, q, n)' => b = a /\ q = p
    <2>1. \A a \in Agents : \A p \in DOMAIN pipes'[a] : pipes'[a][p].kind = "changed" =>
            \A n : n = pipes'[a][p].change =>
              /\ n \in DOMAIN copied /\ pipes'[a][p].reps = copied[n]
              /\ Unheard(n)'
              /\ \A b \in Agents : \A q \in DOMAIN pipes'[b] : Declares(b, q, n)' => b = a /\ q = p
          OBVIOUS
    <2> QED BY <2>1 DEF LineInv, Declares, Unheard
  <1>1. p + d[a] \in DOMAIN pipes[a] /\ pipes[a][p + d[a]] = pipes'[a][p]
        OBVIOUS
  <1>2. n \in DOMAIN copied /\ pipes'[a][p].reps = copied[n]
        BY <1>1 DEF LineInv
  <1>3. n \in Nat
        BY <1>2 DEF AssemblerTypes
  <1>4. Unheard(n)'
        BY <1>3 DEF Declares
  <1>5. ASSUME NEW b \in Agents, NEW q \in DOMAIN pipes'[b], Declares(b, q, n)'
        PROVE  b = a /\ q = p
    <2>1. pipes'[b][q].kind = "changed" /\ pipes'[b][q].change = n
          BY <1>5 DEF Declares
    <2>2. q + d[b] \in DOMAIN pipes[b] /\ pipes[b][q + d[b]] = pipes'[b][q]
          BY <2>1
    <2>3. Declares(b, q + d[b], n)
          BY <2>1, <2>2 DEF Declares
    <2>4. b = a /\ q + d[b] = p + d[a]
          BY <1>1, <2>2, <2>3 DEF LineInv
    <2>5. p \in Nat /\ q \in Nat /\ d[a] \in Nat
          OBVIOUS
    <2> QED BY <2>4, <2>5
  <1> QED BY <1>2, <1>4, <1>5

(* The host reads a line, whatever it makes of it.                         *)
LEMMA LineRead ==
  ASSUME AssemblerTypes, LineInv, copied' = copied, NEW a \in Agents, Consume(a),
         \A n \in Nat : Unheard(n) /\ ~Declares(a, 1, n) => Unheard(n)'
  PROVE  LineInv'
  <1> DEFINE d == [b \in Agents |-> IF b = a THEN 1 ELSE 0]
  <1>1. /\ pipes' \in [Agents -> Seq(AnyLine)]
        /\ 1 \in DOMAIN pipes[a]
        /\ \A b \in Agents : b # a => pipes'[b] = pipes[b]
        /\ \A p \in DOMAIN pipes'[a] :
             p \in Nat /\ p + 1 \in DOMAIN pipes[a] /\ pipes'[a][p] = pipes[a][p + 1]
        BY ConsumeIs
  <1>2. d \in [Agents -> Nat]
        OBVIOUS
  <1>3. ASSUME NEW b \in Agents, NEW p \in DOMAIN pipes'[b]
        PROVE  p \in Nat /\ p + d[b] \in DOMAIN pipes[b] /\ pipes[b][p + d[b]] = pipes'[b][p]
    <2>1. CASE b = a
          BY <1>1, <2>1
    <2>2. CASE b # a
      <3>1. pipes'[b] = pipes[b] /\ d[b] = 0 /\ pipes[b] \in Seq(AnyLine)
            BY <1>1, <2>2 DEF AssemblerTypes
      <3>2. p \in Nat
            BY <3>1
      <3> QED BY <3>1, <3>2
    <2> QED BY <2>1, <2>2
  <1>4. ASSUME NEW b \in Agents, NEW p \in DOMAIN pipes'[b], NEW n \in Nat, Declares(b, p, n)'
        PROVE  Unheard(n)'
    <2>1. p \in Nat /\ p + d[b] \in DOMAIN pipes[b] /\ pipes[b][p + d[b]] = pipes'[b][p]
          BY <1>3
    <2>2. pipes'[b][p].kind = "changed" /\ pipes'[b][p].change = n
          BY <1>4 DEF Declares
    <2>3. Unheard(n) /\ Declares(b, p + d[b], n)
          BY <2>1, <2>2 DEF LineInv, Declares
    <2>4. ~(b = a /\ p + d[b] = 1)
      <3>1. SUFFICES ASSUME b = a PROVE p + d[b] # 1
            OBVIOUS
      <3>2. d[b] = 1 /\ p # 0
        <4>1. pipes'[b] \in Seq(AnyLine)
              BY <1>1
        <4> QED BY <3>1, <4>1
      <3> QED BY <2>1, <3>2
    <2>5. ~Declares(a, 1, n)
      <3> HIDE DEF d
      <3> QED BY <1>1, <2>1, <2>2, <2>3, <2>4 DEF LineInv, Declares
    <2> QED BY <2>3, <2>5
  <1> HIDE DEF d
  <1> QED BY <1>2, <1>3, <1>4, LinesStay

(* Nothing is read; lines may be written after the others or cut off, but  *)
(* none that declares a change.                                            *)
LEMMA LinesLeft ==
  ASSUME AssemblerTypes, LineInv, copied' = copied, pipes' \in [Agents -> Seq(AnyLine)],
         \A b \in Agents : \A p \in DOMAIN pipes'[b] : pipes'[b][p].kind = "changed" =>
           p \in DOMAIN pipes[b] /\ pipes[b][p] = pipes'[b][p],
         \A n \in Nat : Unheard(n) => Unheard(n)'
  PROVE  LineInv'
  <1> DEFINE d == [b \in Agents |-> 0]
  <1>1. d \in [Agents -> Nat]
        OBVIOUS
  <1>2. ASSUME NEW b \in Agents, NEW p \in DOMAIN pipes'[b]
        PROVE  p \in Nat /\ (pipes'[b][p].kind = "changed" =>
                 p + d[b] \in DOMAIN pipes[b] /\ pipes[b][p + d[b]] = pipes'[b][p])
    <2>1. pipes'[b] \in Seq(AnyLine)
          OBVIOUS
    <2>2. p \in Nat /\ p + d[b] = p
          BY <2>1
    <2> QED BY <2>2
  <1>3. ASSUME NEW b \in Agents, NEW p \in DOMAIN pipes'[b], NEW n \in Nat, Declares(b, p, n)'
        PROVE  Unheard(n)'
    <2>1. pipes'[b][p].kind = "changed" /\ pipes'[b][p].change = n
          BY <1>3 DEF Declares
    <2>2. p \in DOMAIN pipes[b] /\ pipes[b][p] = pipes'[b][p]
          BY <2>1
    <2> QED BY <2>1, <2>2 DEF LineInv
  <1> HIDE DEF d
  <1> QED BY <1>1, <1>2, <1>3, LinesStay

-----------------------------------------------------------------------------
(* Every step keeps it.                                                    *)

LEMMA WholeInit == Init => WholeInv
  <1> SUFFICES ASSUME Init PROVE WholeInv
      OBVIOUS
  <1>1. 1 \in Agents
        BY AssemblerAssumption DEF Agents
  <1>2. Streams = {} /\ DOMAIN pending = {} /\ DOMAIN emitted = {} /\ DOMAIN owner = {}
        BY DEF Init, Streams
  <1>3. \A a \in Agents : pipes[a] = <<>>
        BY DEF Init
  <1>4. AssemblerTypes
    <2>1. <<>> \in Seq(AnyLine) /\ <<>> \in Seq(Reps) /\ <<>> \in Seq(Payloads)
          OBVIOUS
    <2>2. pipes \in [Agents -> Seq(AnyLine)]
          BY <2>1 DEF Init
    <2> QED BY <1>1, <2>1, <2>2 DEF Init, AssemblerTypes
  <1>5. PendingInv
        BY <1>2, FS_EmptySet, AssemblerAssumption DEF PendingInv, SlotsInv, StreamsInv
  <1>6. EmittedInv /\ LineInv
        BY <1>2, <1>3 DEF EmittedInv, LineInv
  <1> QED BY <1>4, <1>5, <1>6 DEF WholeInv

LEMMA TickStep == WholeInv /\ tick => WholeInv'
  <1> SUFFICES ASSUME WholeInv, tick PROVE WholeInv'
      OBVIOUS
  <1> USE DEF WholeInv
  <1>1. PICK offer \in Contents :
          LET reps == prepare(Read(offer))
          IN  /\ copied' = Append(copied, reps)
              /\ nextRep' = nextRep + Cardinality(Chunked(reps))
              /\ Declare(Len(copied) + 1, reps)
        BY DEF tick
  <1>2. PICK reps : reps = prepare(Read(offer))
        OBVIOUS
  <1> DEFINE n == Len(copied) + 1
             line == Changed(n, reps)
  <1>3. /\ copied' = Append(copied, reps) /\ nextRep' = nextRep + Cardinality(Chunked(reps))
        /\ writing' = Chunked(reps) /\ Write(<<line>>)
        BY <1>1, <1>2 DEF Declare
  <1>4. reps \in Reps
        BY <1>2, Prepared DEF AssemblerTypes
  <1>5. copied \in Seq(Reps) /\ nextRep \in Nat
        BY DEF AssemblerTypes
  <1>6. /\ copied' \in Seq(Reps) /\ Len(copied') = n /\ n \in Nat /\ n \in DOMAIN copied'
        /\ copied'[n] = reps /\ n \notin DOMAIN copied
        /\ \A m \in DOMAIN copied : m \in DOMAIN copied' /\ copied'[m] = copied[m]
        BY <1>3, <1>4, <1>5
  <1>7. nextRep' \in Nat
        BY <1>3, <1>4, <1>5, RepsAre, FS_CardinalityType
  <1>8. <<line>> \in Seq(AnyLine)
    <2>1. line \in AnyLine
          BY <1>4, <1>6 DEF Changed, AnyLine
    <2> QED BY <2>1
  <1>9. /\ pipes' \in [Agents -> Seq(AnyLine)]
        /\ \A b \in Agents : b # agent => pipes'[b] = pipes[b]
        /\ \A p \in DOMAIN pipes[agent] :
             p \in DOMAIN pipes'[agent] /\ pipes'[agent][p] = pipes[agent][p]
        /\ \A p \in DOMAIN pipes'[agent] : p \notin DOMAIN pipes[agent] =>
             /\ p \in Nat
             /\ p - Len(pipes[agent]) \in DOMAIN <<line>>
             /\ pipes'[agent][p] = <<line>>[p - Len(pipes[agent])]
        /\ Len(pipes[agent]) \in Nat
        BY <1>3, <1>8, WriteIs
  <1>10. \A p, q \in DOMAIN pipes'[agent] :
           p \notin DOMAIN pipes[agent] /\ q \notin DOMAIN pipes[agent] =>
             p = q /\ pipes'[agent][p] = line
    <2>1. DOMAIN <<line>> = {1} /\ <<line>>[1] = line
          OBVIOUS
    <2>2. \A p \in DOMAIN pipes'[agent] : p \notin DOMAIN pipes[agent] =>
            p = Len(pipes[agent]) + 1 /\ pipes'[agent][p] = line
          BY <1>9, <2>1
    <2> QED BY <2>2
  <1>11. UNCHANGED <<agent, alive, streams, owner, pending, emitted, unordered>>
         BY DEF tick, host
  <1>12. AssemblerTypes'
    <2>1. copied' # <<>>
          BY <1>6
    <2> QED BY <1>3, <1>6, <1>7, <1>9, <1>11, <2>1 DEF AssemblerTypes
  <1> HIDE DEF n, line
  <1>13. PendingInv'
         BY <1>6, <1>11
            DEF PendingInv, SlotsInv, StreamsInv, Streams, Streamed, Fills, Arrived
  <1>14. EmittedInv'
         BY <1>6, <1>11 DEF EmittedInv, Arrived
  <1>15. \A m : Unheard(m)' = Unheard(m)
         BY <1>11 DEF Unheard
  <1>16. Unheard(n)
         BY <1>6 DEF Unheard, PendingInv, SlotsInv, EmittedInv
  <1>17. \A b \in Agents : \A p \in DOMAIN pipes'[b] :
           \/ p \in DOMAIN pipes[b] /\ pipes'[b][p] = pipes[b][p]
           \/ b = agent /\ p \notin DOMAIN pipes[b] /\ pipes'[b][p] = line
         BY <1>9, <1>10
  <1>18. line.kind = "changed" /\ line.change = n /\ line.reps = reps
         BY DEF line, Changed
  <1>19. LineInv'
    <2> SUFFICES ASSUME NEW a \in Agents, NEW p \in DOMAIN pipes'[a], NEW m,
                        pipes'[a][p].kind = "changed", m = pipes'[a][p].change
                 PROVE  /\ m \in DOMAIN copied' /\ pipes'[a][p].reps = copied'[m]
                        /\ Unheard(m)'
                        /\ \A b \in Agents : \A q \in DOMAIN pipes'[b] :
                             Declares(b, q, m)' => b = a /\ q = p
      <3>1. \A a \in Agents : \A p \in DOMAIN pipes'[a] : pipes'[a][p].kind = "changed" =>
              \A m : m = pipes'[a][p].change =>
                /\ m \in DOMAIN copied' /\ pipes'[a][p].reps = copied'[m]
                /\ Unheard(m)'
                /\ \A b \in Agents : \A q \in DOMAIN pipes'[b] : Declares(b, q, m)' => b = a /\ q = p
            OBVIOUS
      <3> QED BY <3>1 DEF LineInv, Declares, Unheard
    <2>1. ASSUME NEW b \in Agents, NEW q \in DOMAIN pipes[b], Declares(b, q, m)
          PROVE  m \in DOMAIN copied /\ m # n
          BY <1>6, <2>1 DEF LineInv, Declares
    <2>2. CASE p \in DOMAIN pipes[a] /\ pipes'[a][p] = pipes[a][p]
      <3>1. /\ m \in DOMAIN copied /\ pipes[a][p].reps = copied[m] /\ Unheard(m)
            /\ \A b \in Agents : \A q \in DOMAIN pipes[b] : Declares(b, q, m) => b = a /\ q = p
            BY <2>2 DEF LineInv
      <3>2. ASSUME NEW b \in Agents, NEW q \in DOMAIN pipes'[b], Declares(b, q, m)'
            PROVE  b = a /\ q = p
        <4>1. pipes'[b][q].kind = "changed" /\ pipes'[b][q].change = m
              BY <3>2 DEF Declares
        <4>2. q \in DOMAIN pipes[b] /\ pipes'[b][q] = pipes[b][q]
              BY <1>6, <1>17, <1>18, <3>1, <4>1
        <4> QED BY <3>1, <4>1, <4>2 DEF Declares
      <3> QED BY <1>6, <1>15, <2>2, <3>1, <3>2
    <2>3. CASE a = agent /\ p \notin DOMAIN pipes[a] /\ pipes'[a][p] = line
      <3>1. m = n /\ m \in DOMAIN copied' /\ pipes'[a][p].reps = copied'[m]
            BY <1>6, <1>18, <2>3
      <3>2. ASSUME NEW b \in Agents, NEW q \in DOMAIN pipes'[b], Declares(b, q, m)'
            PROVE  b = a /\ q = p
        <4>1. pipes'[b][q].kind = "changed" /\ pipes'[b][q].change = m
              BY <3>2 DEF Declares
        <4>2. b = agent /\ q \notin DOMAIN pipes[b]
              BY <1>17, <2>1, <3>1, <4>1 DEF Declares
        <4> QED BY <1>10, <2>3, <4>2
      <3> QED BY <1>15, <1>16, <3>1, <3>2
    <2> QED BY <1>17, <2>2, <2>3
  <1> QED BY <1>12, <1>13, <1>14, <1>19

LEMMA EmitStep == WholeInv /\ emit => WholeInv'
  <1> SUFFICES ASSUME WholeInv, emit PROVE WholeInv'
      OBVIOUS
  <1> USE DEF WholeInv
  <1> DEFINE n == Len(copied)
  <1>1. PICK i \in writing : writing' = writing \ {i} /\ Write(Chunks(n, copied[n], i))
        BY DEF emit
  <1>2. /\ UNCHANGED <<agent, alive, nextRep, copied, unordered>>
        /\ UNCHANGED host
        BY DEF emit
  <1>3. /\ copied # <<>> /\ copied \in Seq(Reps) /\ writing \in SUBSET Chunked(copied[n])
        BY <1>1 DEF AssemblerTypes
  <1>4. n \in DOMAIN copied /\ i \in DOMAIN copied[n]
        BY <1>3 DEF Chunked
  <1> DEFINE lines == Chunks(n, copied[n], i)
  <1>5. lines \in Seq(AnyLine) /\ \A p \in DOMAIN lines : lines[p].kind = "chunk"
        BY <1>4, ChunksAre
  <1> HIDE DEF lines
  <1>6. /\ pipes' \in [Agents -> Seq(AnyLine)]
        /\ \A b \in Agents : b # agent => pipes'[b] = pipes[b]
        /\ \A p \in DOMAIN pipes[agent] :
             p \in DOMAIN pipes'[agent] /\ pipes'[agent][p] = pipes[agent][p]
        /\ \A p \in DOMAIN pipes'[agent] : p \notin DOMAIN pipes[agent] =>
             /\ p - Len(pipes[agent]) \in DOMAIN lines
             /\ pipes'[agent][p] = lines[p - Len(pipes[agent])]
        BY <1>1, <1>5, WriteIs DEF lines
  <1>7. \A b \in Agents : \A p \in DOMAIN pipes'[b] : pipes'[b][p].kind = "changed" =>
          p \in DOMAIN pipes[b] /\ pipes[b][p] = pipes'[b][p]
    <2> TAKE b \in Agents
    <2> TAKE p \in DOMAIN pipes'[b]
    <2>1. CASE b = agent /\ p \notin DOMAIN pipes[b]
          BY <1>5, <1>6, <2>1
    <2>2. CASE b # agent \/ p \in DOMAIN pipes[b]
          BY <1>6, <2>2
    <2> QED BY <2>1, <2>2
  <1>8. AssemblerTypes'
        BY <1>1, <1>2, <1>3, <1>6 DEF AssemblerTypes, host
  <1>9. PendingInv' /\ EmittedInv' /\ \A m \in Nat : Unheard(m) => Unheard(m)'
        BY <1>2, HostStays
  <1>10. LineInv'
         BY <1>2, <1>6, <1>7, <1>9, LinesLeft
  <1> QED BY <1>8, <1>9, <1>10

LEMMA DieStep == WholeInv /\ Die => WholeInv'
  <1> SUFFICES ASSUME WholeInv, Die PROVE WholeInv'
      OBVIOUS
  <1> USE DEF WholeInv
  <1>1. PICK k \in 0 .. Len(pipes[agent]) : pipes' = [pipes EXCEPT ![agent] = SubSeq(@, 1, k)]
        BY DEF Die
  <1>2. /\ UNCHANGED <<agent, nextRep, copied>> /\ UNCHANGED host
        /\ writing' = {} /\ alive' = FALSE /\ unordered' = TRUE
        BY DEF Die
  <1>3. pipes \in [Agents -> Seq(AnyLine)] /\ agent \in Agents
        BY DEF AssemblerTypes
  <1>4. pipes[agent] \in Seq(AnyLine) /\ k \in Nat /\ k <= Len(pipes[agent])
        BY <1>3
  <1> DEFINE kept == SubSeq(pipes[agent], 1, k)
  <1>5. /\ kept \in Seq(AnyLine)
        /\ \A p \in DOMAIN kept : p \in DOMAIN pipes[agent] /\ kept[p] = pipes[agent][p]
        BY <1>4
  <1>6. pipes'[agent] = kept /\ \A b \in Agents : b # agent => pipes'[b] = pipes[b]
        BY <1>1, <1>3
  <1>7. pipes' \in [Agents -> Seq(AnyLine)]
    <2> HIDE DEF kept
    <2>1. pipes' = [pipes EXCEPT ![agent] = kept]
          BY <1>1 DEF kept
    <2> QED BY <1>3, <1>5, <2>1
  <1> HIDE DEF kept
  <1>8. \A b \in Agents : \A p \in DOMAIN pipes'[b] :
          p \in DOMAIN pipes[b] /\ pipes[b][p] = pipes'[b][p]
        BY <1>5, <1>6
  <1>9. AssemblerTypes'
        BY <1>2, <1>7 DEF AssemblerTypes, host
  <1>10. PendingInv' /\ EmittedInv' /\ \A m \in Nat : Unheard(m) => Unheard(m)'
         BY <1>2, HostStays
  <1>11. LineInv'
         BY <1>2, <1>7, <1>8, <1>10, LinesLeft
  <1> QED BY <1>9, <1>10, <1>11

LEMMA OnExitStep == WholeInv /\ OnExit => WholeInv'
  <1> SUFFICES ASSUME WholeInv, OnExit PROVE WholeInv'
      OBVIOUS
  <1> USE DEF WholeInv
  <1>1. /\ abortAll /\ UNCHANGED <<writing, copied, pipes, unordered>>
        /\ agent' = agent + 1 /\ agent < MaxFaults + 1 /\ alive' = TRUE /\ nextRep' = 0
        BY DEF OnExit
  <1>2. /\ emitted' \in Seq(Payloads) /\ PendingInv' /\ EmittedInv'
        /\ \A n \in Nat : Unheard(n) => Unheard(n)'
        BY <1>1, AbortAllKeeps
  <1>3. agent' \in Agents
        BY <1>1, AssemblerAssumption DEF AssemblerTypes, Agents
  <1>4. pipes' \in [Agents -> Seq(AnyLine)]
        BY <1>1 DEF AssemblerTypes
  <1>5. AssemblerTypes'
        BY <1>1, <1>2, <1>3 DEF AssemblerTypes
  <1>6. LineInv'
        BY <1>1, <1>2, <1>4, LinesLeft
  <1> QED BY <1>2, <1>5, <1>6

LEMMA TimeoutStep == WholeInv /\ (\E id \in Streams : RepTimeout(id)) => WholeInv'
  <1> SUFFICES ASSUME WholeInv, NEW id \in Streams, RepTimeout(id) PROVE WholeInv'
      OBVIOUS
  <1> USE DEF WholeInv
  <1>1. /\ streams' = Without(streams, {id}) /\ Settle(id, Dropped)
        /\ UNCHANGED <<agents, pipes, unordered>>
        BY DEF RepTimeout, abort
  <1>2. /\ emitted' \in Seq(Payloads) /\ PendingInv' /\ EmittedInv'
        /\ \A n \in Nat : Unheard(n) => Unheard(n)'
        BY <1>1, SettleKeeps DEF agents
  <1>3. pipes' \in [Agents -> Seq(AnyLine)] /\ copied' = copied
        BY <1>1 DEF AssemblerTypes, agents
  <1>4. AssemblerTypes'
        BY <1>1, <1>2 DEF AssemblerTypes, agents
  <1>5. LineInv'
        BY <1>1, <1>2, <1>3, LinesLeft
  <1> QED BY <1>2, <1>4, <1>5

LEMMA ReadStep ==
  ASSUME WholeInv, NEW a \in Agents,
         ReadChanged(a) \/ ReadDamaged(a) \/ ReadChunk(a) \/ ReadGarbled(a) \/ LoseLine(a)
  PROVE  WholeInv'
  <1> USE DEF WholeInv
  <1>1. Consume(a) /\ UNCHANGED agents /\ unordered' \in BOOLEAN
        BY DEF ReadChanged, ReadDamaged, ReadChunk, ReadGarbled, LoseLine, AssemblerTypes
  <1>2. copied' = copied
        BY <1>1 DEF agents
  <1>3. pipes' \in [Agents -> Seq(AnyLine)] /\ Line(a) = pipes[a][1] /\ 1 \in DOMAIN pipes[a]
        BY <1>1, ConsumeIs
  <1>4. ASSUME ReadChanged(a) \/ ReadDamaged(a)
        PROVE  /\ emitted' \in Seq(Payloads) /\ PendingInv' /\ EmittedInv'
               /\ \A n \in Nat : Unheard(n) /\ ~Declares(a, 1, n) => Unheard(n)'
    <2>1. PICK n : n = Line(a).change
          OBVIOUS
    <2>2. Line(a).kind = "changed"
          BY <1>4 DEF ReadChanged, ReadDamaged
    <2>3. n \in DOMAIN copied /\ Line(a).reps = copied[n] /\ Unheard(n) /\ Declares(a, 1, n)
          BY <1>3, <2>1, <2>2 DEF LineInv, Declares
    <2>4. PICK damaged : handleChanged(n, copied[n], damaged)
          BY <1>4, <2>1, <2>3 DEF ReadChanged, ReadDamaged
    <2>5. /\ emitted' \in Seq(Payloads) /\ PendingInv' /\ EmittedInv'
          /\ \A m \in Nat : Unheard(m) /\ m # n => Unheard(m)'
          BY <1>2, <2>3, <2>4, ChangedKeeps
    <2> QED BY <2>3, <2>5
  <1>5. ASSUME ReadChunk(a) \/ ReadGarbled(a)
        PROVE  /\ emitted' \in Seq(Payloads) /\ PendingInv' /\ EmittedInv'
               /\ \A n \in Nat : Unheard(n) => Unheard(n)'
    <2>1. handleChunk(Line(a), TRUE) \/ handleChunk(Line(a), FALSE)
          BY <1>5 DEF ReadChunk, ReadGarbled
    <2> QED BY <1>2, <2>1, ChunkKeeps
  <1>6. ASSUME LoseLine(a)
        PROVE  /\ emitted' \in Seq(Payloads) /\ PendingInv' /\ EmittedInv'
               /\ \A n \in Nat : Unheard(n) => Unheard(n)'
    <2>1. UNCHANGED host
          BY <1>6 DEF LoseLine
    <2>2. emitted' \in Seq(Payloads)
          BY <2>1 DEF host, AssemblerTypes
    <2> QED BY <1>2, <2>1, <2>2, HostStays
  <1>7. /\ emitted' \in Seq(Payloads) /\ PendingInv' /\ EmittedInv'
        /\ \A n \in Nat : Unheard(n) /\ ~Declares(a, 1, n) => Unheard(n)'
        BY <1>4, <1>5, <1>6
  <1>8. LineInv'
        BY <1>1, <1>2, <1>7, LineRead
  <1>9. AssemblerTypes'
        BY <1>1, <1>3, <1>7 DEF AssemblerTypes, agents
  <1> QED BY <1>7, <1>8, <1>9

LEMMA WholeStep == WholeInv /\ [Next]_vars => WholeInv'
  <1> SUFFICES ASSUME WholeInv, [Next]_vars PROVE WholeInv'
      OBVIOUS
  <1>1. CASE UNCHANGED vars
        BY <1>1 DEF vars, agents, host, WholeInv, AssemblerTypes, PendingInv, SlotsInv, StreamsInv,
             Fills, Streams, Arrived, Streamed, EmittedInv, LineInv, Unheard, Declares
  <1>2. CASE Next
        BY <1>2, TickStep, EmitStep, DieStep, OnExitStep, TimeoutStep, ReadStep DEF Next
  <1> QED BY <1>1, <1>2

(* Whatever is lost, damaged, late or left over by an agent that died: a   *)
(* change is handed on at most once and after all its streams, and every   *)
(* representation it carries is what the agent read for that change.       *)
(* (createReassembler and createChangeAssembler.)                          *)
THEOREM CopiesArriveWhole == Spec => []HandedOnWhole
  <1>1. WholeInv => HandedOnWhole
    <2> SUFFICES ASSUME WholeInv PROVE HandedOnWhole
        OBVIOUS
    <2>1. Cardinality(Streams) <= MaxStreams
          BY DEF WholeInv, PendingInv, StreamsInv
    <2>2. ASSUME NEW k \in DOMAIN emitted
          PROVE  LET p == emitted[k]
                 IN  /\ p.change \notin DOMAIN pending
                     /\ \A l \in DOMAIN emitted : emitted[l].change = p.change => l = k
                     /\ DOMAIN p.slots = DOMAIN copied[p.change]
                     /\ \A i \in DOMAIN p.slots :
                          \/ p.slots[i].st = "dropped"
                          \/ p.slots[i] = Resolved(Pieces(p.change, i, copied[p.change][i].size))
          BY DEF WholeInv, EmittedInv, Arrived, Dropped
    <2> QED BY <2>1, <2>2 DEF HandedOnWhole
  <1> QED BY <1>1, WholeInit, WholeStep, PTL DEF Spec

-----------------------------------------------------------------------------
(* Nothing overtakes.                                                      *)

(* What is handed on or waits is the only change in question, and later    *)
(* than what was handed on before.                                         *)
LEMMA OrderKept ==
  ASSUME AssemblerTypes, emitted' \in Seq(Payloads), EmittedInv', Ascending, NEW S, HandsOn(S),
         S \in SUBSET Nat, \A m, n \in S : m = n,
         \A n \in S : \A k \in DOMAIN emitted : emitted[k].change < n
  PROVE  /\ Ascending' /\ PendingLatest'
         /\ \A n \in Nat : /\ \A k \in DOMAIN emitted : emitted[k].change < n
                           /\ \A m \in S : m < n
                           => \A k \in DOMAIN emitted' : emitted'[k].change < n
  <1>1. emitted \in Seq(Payloads)
        BY DEF AssemblerTypes
  <1>2. /\ \A k \in DOMAIN emitted' : k \in Nat /\ emitted'[k].change \in Nat
        /\ \A k \in DOMAIN emitted : k \in DOMAIN emitted' /\ emitted'[k] = emitted[k]
        /\ \A k \in DOMAIN emitted' : k \notin DOMAIN emitted => emitted'[k].change \in S
        /\ \A k, l \in DOMAIN emitted' : k \notin DOMAIN emitted /\ l \in DOMAIN emitted => l < k
    <2>1. \A k \in DOMAIN emitted' : k \in Nat /\ emitted'[k].change \in Nat
      <3>1. \A k \in DOMAIN emitted' : k \in Nat /\ emitted'[k] \in Payloads
            OBVIOUS
      <3>2. \A payload \in Payloads : payload.change \in Nat
            BY DEF Payloads
      <3> QED BY <3>1, <3>2
    <2>2. \A k, l \in DOMAIN emitted' : k \notin DOMAIN emitted /\ l \in DOMAIN emitted => l < k
      <3>1. DOMAIN emitted = 1 .. Len(emitted) /\ Len(emitted) \in Nat
            BY <1>1
      <3> QED BY <2>1, <3>1
    <2> QED BY <2>1, <2>2 DEF HandsOn
  <1>3. \A k, l \in DOMAIN emitted' : emitted'[k].change = emitted'[l].change => k = l
        BY DEF EmittedInv
  <1>4. Ascending'
    <2> SUFFICES ASSUME NEW k \in DOMAIN emitted', NEW l \in DOMAIN emitted', k < l
                 PROVE  emitted'[k].change < emitted'[l].change
        BY DEF Ascending
    <2>1. CASE l \in DOMAIN emitted
      <3>1. k \in DOMAIN emitted
            BY <1>2, <2>1
      <3> QED BY <1>2, <2>1, <3>1 DEF Ascending
    <2>2. CASE l \notin DOMAIN emitted
      <3>1. emitted'[l].change \in S
            BY <1>2, <2>2
      <3>2. k \in DOMAIN emitted
        <4>1. SUFFICES ASSUME k \notin DOMAIN emitted PROVE FALSE
              OBVIOUS
        <4>2. emitted'[k].change = emitted'[l].change
              BY <1>2, <3>1, <4>1
        <4> QED BY <1>2, <1>3, <4>2
      <3> QED BY <1>2, <3>1, <3>2
    <2> QED BY <2>1, <2>2
  <1>5. PendingLatest'
    <2> SUFFICES ASSUME NEW n \in DOMAIN pending'
                 PROVE  /\ \A m \in DOMAIN pending' : m = n
                        /\ \A k \in DOMAIN emitted' : emitted'[k].change < n
        BY DEF PendingLatest
    <2>1. n \in S /\ \A m \in DOMAIN pending' : m = n
          BY DEF HandsOn
    <2>2. ASSUME NEW k \in DOMAIN emitted'
          PROVE  emitted'[k].change < n
      <3>1. emitted'[k].change # n
            BY DEF EmittedInv
      <3>2. k \in DOMAIN emitted
            BY <1>2, <2>1, <3>1
      <3> QED BY <1>2, <2>1, <3>2
    <2> QED BY <2>1, <2>2
  <1>6. ASSUME NEW n \in Nat, \A k \in DOMAIN emitted : emitted[k].change < n, \A m \in S : m < n
        PROVE  \A k \in DOMAIN emitted' : emitted'[k].change < n
        BY <1>2, <1>6
  <1> QED BY <1>4, <1>5, <1>6

(* A line that is read brings the others one nearer.                       *)
LEMMA EndsNearer ==
  ASSUME AssemblerTypes, 1 \in Agents, Consume(1), UNCHANGED <<copied, writing>>,
         NEW p \in Nat, NEW n, NEW i, EndsAfter(p + 1, n, i)
  PROVE  EndsAfter(p, n, i)'
  <1>1. /\ \A q \in DOMAIN pipes'[1] :
             q \in Nat /\ q + 1 \in DOMAIN pipes[1] /\ pipes'[1][q] = pipes[1][q + 1]
        /\ \A q \in DOMAIN pipes[1] : q # 1 => q - 1 \in DOMAIN pipes'[1]
        BY ConsumeIs
  <1>2. \A q \in DOMAIN pipes[1] : q \in Nat
        BY DEF AssemblerTypes
  <1>3. CASE \E q \in DOMAIN pipes[1] :
               /\ p + 1 < q /\ Ends(q, copied[n][i].repId)
               /\ \A r \in DOMAIN pipes[1] : p + 1 < r /\ r < q => pipes[1][r].kind # "changed"
    <2>1. PICK q \in DOMAIN pipes[1] :
            /\ p + 1 < q /\ Ends(q, copied[n][i].repId)
            /\ \A r \in DOMAIN pipes[1] : p + 1 < r /\ r < q => pipes[1][r].kind # "changed"
          BY <1>3
    <2>2. PICK t : t = q - 1
          OBVIOUS
    <2>3. t \in DOMAIN pipes'[1] /\ p < t /\ pipes'[1][t] = pipes[1][q]
          BY <1>1, <1>2, <2>1, <2>2
    <2>4. Ends(t, copied[n][i].repId)'
          BY <2>1, <2>3 DEF Ends
    <2>5. \A r \in DOMAIN pipes'[1] : p < r /\ r < t => pipes'[1][r].kind # "changed"
          BY <1>1, <1>2, <2>1, <2>2
    <2> QED BY <2>3, <2>4, <2>5 DEF EndsAfter
  <1>4. CASE /\ n = Len(copied) /\ i \in writing
             /\ \A r \in DOMAIN pipes[1] : p + 1 < r => pipes[1][r].kind # "changed"
    <2>1. \A r \in DOMAIN pipes'[1] : p < r => pipes'[1][r].kind # "changed"
          BY <1>1, <1>4
    <2> QED BY <1>4, <2>1 DEF EndsAfter
  <1> QED BY <1>3, <1>4 DEF EndsAfter

(* What is written next, before another change is declared, delays no end. *)
LEMMA EndsStay ==
  ASSUME AssemblerTypes, agent = 1, 1 \in Agents, NEW lines \in Seq(AnyLine), Write(lines),
         NEW p, NEW n \in DOMAIN copied, NEW i \in DOMAIN copied[n], copied'[n] = copied[n],
         EndsAfter(p, n, i),
         \/ ~(n = Len(copied) /\ i \in writing)
         \/ /\ n = Len(copied') /\ i \in writing'
            /\ \A q \in DOMAIN lines : lines[q].kind # "changed"
  PROVE  EndsAfter(p, n, i)'
  <1>1. /\ \A q \in DOMAIN pipes[1] :
             q \in Nat /\ q <= Len(pipes[1]) /\ q \in DOMAIN pipes'[1] /\ pipes'[1][q] = pipes[1][q]
        /\ \A q \in DOMAIN pipes'[1] : q \notin DOMAIN pipes[1] =>
             /\ q \in Nat /\ q > Len(pipes[1])
             /\ q - Len(pipes[1]) \in DOMAIN lines
             /\ pipes'[1][q] = lines[q - Len(pipes[1])]
        /\ Len(pipes[1]) \in Nat
        BY WriteIs
  <1>2. CASE \E q \in DOMAIN pipes[1] :
               /\ p < q /\ Ends(q, copied[n][i].repId)
               /\ \A r \in DOMAIN pipes[1] : p < r /\ r < q => pipes[1][r].kind # "changed"
    <2>1. PICK q \in DOMAIN pipes[1] :
            /\ p < q /\ Ends(q, copied[n][i].repId)
            /\ \A r \in DOMAIN pipes[1] : p < r /\ r < q => pipes[1][r].kind # "changed"
          BY <1>2
    <2>2. q \in DOMAIN pipes'[1] /\ Ends(q, copied[n][i].repId)'
          BY <1>1, <2>1 DEF Ends
    <2>3. \A r \in DOMAIN pipes'[1] : p < r /\ r < q => pipes'[1][r].kind # "changed"
      <3> SUFFICES ASSUME NEW r \in DOMAIN pipes'[1], p < r, r < q
                   PROVE  pipes'[1][r].kind # "changed"
          OBVIOUS
      <3>1. r \in DOMAIN pipes[1]
            BY <1>1
      <3> QED BY <1>1, <2>1, <3>1
    <2>4. copied'[n][i].repId = copied[n][i].repId
          OBVIOUS
    <2> QED BY <2>1, <2>2, <2>3, <2>4 DEF EndsAfter, Ends
  <1>3. CASE /\ n = Len(copied) /\ i \in writing
             /\ \A r \in DOMAIN pipes[1] : p < r => pipes[1][r].kind # "changed"
    <2>1. \A r \in DOMAIN pipes'[1] : p < r => pipes'[1][r].kind # "changed"
          BY <1>1, <1>3
    <2> QED BY <1>3, <2>1 DEF EndsAfter
  <1> QED BY <1>2, <1>3 DEF EndsAfter

LEMMA OrderInit == Init => OrderInv
  <1> SUFFICES ASSUME Init PROVE OrderInv
      OBVIOUS
  <1>1. /\ DOMAIN emitted = {} /\ DOMAIN pending = {} /\ Streams = {}
        /\ \A a \in Agents : pipes[a] = <<>>
        BY DEF Init, Streams
  <1>2. 1 \in Agents
        BY AssemblerAssumption DEF Agents
  <1>3. DOMAIN pipes[1] = {}
        BY <1>1, <1>2
  <1>4. Alone
        BY <1>1 DEF Alone, Init
  <1> QED BY <1>1, <1>3, <1>4
          DEF OrderInv, Ascending, PendingLatest, LinesAscend, DeclaredEnd, StreamsEnd

LEMMA OrderTick == AssemblerInv /\ tick => OrderInv'
  <1> SUFFICES ASSUME AssemblerInv, tick, ~unordered' PROVE OrderInv'
      BY DEF OrderInv
  <1> USE DEF AssemblerInv, WholeInv
  <1>1. PICK offer \in Contents :
          LET reps == prepare(Read(offer))
          IN  /\ copied' = Append(copied, reps)
              /\ nextRep' = nextRep + Cardinality(Chunked(reps))
              /\ Declare(Len(copied) + 1, reps)
        BY DEF tick
  <1>2. PICK reps : reps = prepare(Read(offer))
        OBVIOUS
  <1>3. PICK n : n = Len(copied) + 1
        OBVIOUS
  <1> DEFINE line == Changed(n, reps)
  <1>4. /\ copied' = Append(copied, reps) /\ writing' = Chunked(reps) /\ Write(<<line>>)
        BY <1>1, <1>2, <1>3 DEF Declare
  <1>5. /\ writing = {} /\ UNCHANGED <<agent, alive, streams, owner, pending, emitted, unordered>>
        BY DEF tick, host
  <1>6. reps \in Reps /\ copied \in Seq(Reps)
        BY <1>2, Prepared DEF AssemblerTypes
  <1>7. /\ Len(copied') = n /\ n \in Nat /\ copied'[n] = reps
        /\ DOMAIN copied' = DOMAIN copied \cup {n}
        /\ \A m \in DOMAIN copied : m \in Nat /\ m < n /\ copied'[m] = copied[m]
        BY <1>3, <1>4, <1>6
  <1>8. <<line>> \in Seq(AnyLine)
    <2>1. line \in AnyLine
          BY <1>6, <1>7 DEF Changed, AnyLine
    <2> QED BY <2>1
  <1>9. line.kind = "changed" /\ line.change = n
        BY DEF Changed
  <1>10. Alone /\ Ascending /\ PendingLatest /\ LinesAscend /\ DeclaredEnd /\ StreamsEnd
         BY <1>5 DEF OrderInv
  <1>11. agent = 1 /\ 1 \in Agents
         BY <1>10, AssemblerAssumption DEF Alone, Agents
  <1>12. /\ \A b \in Agents : b # 1 => pipes'[b] = pipes[b]
         /\ \A q \in DOMAIN pipes[1] :
              q \in Nat /\ q <= Len(pipes[1]) /\ q \in DOMAIN pipes'[1] /\ pipes'[1][q] = pipes[1][q]
         /\ \A q \in DOMAIN pipes'[1] : q \notin DOMAIN pipes[1] =>
              q \in Nat /\ q = Len(pipes[1]) + 1 /\ pipes'[1][q] = line
         /\ Len(pipes[1]) \in Nat
    <2>1. DOMAIN <<line>> = {1} /\ <<line>>[1] = line
          OBVIOUS
    <2> HIDE DEF line
    <2>2. /\ \A b \in Agents : b # agent => pipes'[b] = pipes[b]
          /\ \A p \in DOMAIN pipes[agent] :
               /\ p \in Nat /\ p <= Len(pipes[agent])
               /\ p \in DOMAIN pipes'[agent] /\ pipes'[agent][p] = pipes[agent][p]
          /\ \A p \in DOMAIN pipes'[agent] : p \notin DOMAIN pipes[agent] =>
               /\ p \in Nat
               /\ p - Len(pipes[agent]) \in DOMAIN <<line>>
               /\ pipes'[agent][p] = <<line>>[p - Len(pipes[agent])]
          /\ Len(pipes[agent]) \in Nat
          BY <1>4, <1>8, WriteIs
    <2> QED BY <1>11, <2>1, <2>2
  <1> HIDE DEF line
  <1>13. Alone' /\ Ascending' /\ PendingLatest'
         BY <1>5, <1>10, <1>12 DEF Alone, Ascending, PendingLatest
  <1>14. \A p \in DOMAIN pipes'[1] : \A m \in Nat : Declares(1, p, m)' =>
           \/ p \in DOMAIN pipes[1] /\ Declares(1, p, m)
           \/ p \notin DOMAIN pipes[1] /\ m = n
         BY <1>9, <1>12 DEF Declares
  <1>15. \A p \in DOMAIN pipes[1] : \A m \in Nat : Declares(1, p, m) => m \in DOMAIN copied
         BY <1>11 DEF LineInv, Declares
  <1>16. LinesAscend'
    <2> SUFFICES ASSUME NEW p \in DOMAIN pipes'[1], NEW m \in Nat, Declares(1, p, m)'
                 PROVE  /\ \A k \in DOMAIN emitted : emitted[k].change < m
                        /\ \A x \in DOMAIN pending : x < m
                        /\ \A q \in DOMAIN pipes'[1] : \A x \in Nat :
                             q < p /\ Declares(1, q, x)' => x < m
        BY <1>5 DEF LinesAscend, Declares
    <2>1. CASE p \in DOMAIN pipes[1] /\ Declares(1, p, m)
      <3>1. ASSUME NEW q \in DOMAIN pipes'[1], NEW x \in Nat, q < p, Declares(1, q, x)'
            PROVE  x < m
        <4>1. q \in DOMAIN pipes[1] /\ Declares(1, q, x)
              BY <1>12, <1>14, <2>1, <3>1
        <4> QED BY <1>10, <2>1, <3>1, <4>1 DEF LinesAscend
      <3> QED BY <1>10, <2>1, <3>1 DEF LinesAscend
    <2>2. CASE p \notin DOMAIN pipes[1] /\ m = n
      <3>1. \A k \in DOMAIN emitted : emitted[k].change < m
            BY <1>7, <2>2 DEF EmittedInv
      <3>2. \A x \in DOMAIN pending : x < m
            BY <1>7, <2>2 DEF PendingInv, SlotsInv
      <3>3. ASSUME NEW q \in DOMAIN pipes'[1], NEW x \in Nat, q < p, Declares(1, q, x)'
            PROVE  x < m
        <4>1. q \in DOMAIN pipes[1]
              BY <1>12, <2>2, <3>3
        <4> QED BY <1>7, <1>14, <1>15, <2>2, <3>3, <4>1
      <3> QED BY <3>1, <3>2, <3>3
    <2> QED BY <1>14, <2>1, <2>2
  <1>17. ASSUME NEW p, NEW m \in DOMAIN copied, NEW i \in DOMAIN copied[m], EndsAfter(p, m, i)
         PROVE  EndsAfter(p, m, i)'
         BY <1>4, <1>5, <1>7, <1>8, <1>11, <1>17, EndsStay
  <1>18. DeclaredEnd'
    <2> SUFFICES ASSUME NEW p \in DOMAIN pipes'[1], NEW m \in DOMAIN copied', Declares(1, p, m)',
                        NEW i \in Chunked(copied'[m])
                 PROVE  EndsAfter(p, m, i)'
        BY DEF DeclaredEnd, Declares
    <2>1. CASE p \in DOMAIN pipes[1] /\ Declares(1, p, m)
      <3>1. m \in DOMAIN copied
            BY <1>7, <1>15, <2>1
      <3>2. i \in Chunked(copied[m]) /\ i \in DOMAIN copied[m]
            BY <1>7, <3>1 DEF Chunked
      <3>3. EndsAfter(p, m, i)
            BY <1>10, <2>1, <3>1, <3>2 DEF DeclaredEnd
      <3> QED BY <1>17, <3>1, <3>2, <3>3
    <2>2. CASE p \notin DOMAIN pipes[1] /\ m = n
      <3>1. i \in writing' /\ m = Len(copied')
            BY <1>4, <1>7, <2>2
      <3>2. \A r \in DOMAIN pipes'[1] : ~(p < r)
            BY <1>12, <2>2
      <3> QED BY <3>1, <3>2 DEF EndsAfter
    <2>3. m \in Nat
          BY <1>7
    <2> QED BY <1>14, <2>1, <2>2, <2>3
  <1>19. StreamsEnd'
    <2> SUFFICES ASSUME NEW id \in Streams, NEW m \in DOMAIN copied', NEW i \in DOMAIN copied'[m],
                        owner[id] = [change |-> m, slot |-> i]
                 PROVE  EndsAfter(0, m, i)'
        BY <1>5 DEF StreamsEnd, Streams
    <2>1. m \in DOMAIN copied /\ i \in DOMAIN copied[m]
      <3>1. PICK x \in DOMAIN pending : \E y \in DOMAIN copied[x] : Fills(id, pending, x, y)
            BY DEF PendingInv, StreamsInv
      <3>2. m = x /\ i \in DOMAIN copied[x] /\ x \in DOMAIN copied
            BY <3>1 DEF PendingInv, SlotsInv, Fills
      <3> QED BY <3>2
    <2>2. EndsAfter(0, m, i)
          BY <1>10, <2>1 DEF StreamsEnd
    <2> QED BY <1>17, <2>1, <2>2
  <1> QED BY <1>13, <1>16, <1>18, <1>19 DEF OrderInv

LEMMA OrderEmit == AssemblerInv /\ emit => OrderInv'
  <1> SUFFICES ASSUME AssemblerInv, emit, ~unordered' PROVE OrderInv'
      BY DEF OrderInv
  <1> USE DEF AssemblerInv, WholeInv
  <1>1. PICK n : n = Len(copied)
        OBVIOUS
  <1>2. PICK j \in writing : writing' = writing \ {j} /\ Write(Chunks(n, copied[n], j))
        BY <1>1 DEF emit
  <1>3. UNCHANGED <<agent, alive, copied, streams, owner, pending, emitted, unordered>>
        BY DEF emit, host
  <1>4. /\ copied # <<>> /\ copied \in Seq(Reps) /\ writing \in SUBSET Chunked(copied[n])
        BY <1>1, <1>2 DEF AssemblerTypes
  <1>5. n \in DOMAIN copied /\ j \in DOMAIN copied[n] /\ \A m \in DOMAIN copied : m \in Nat
        BY <1>1, <1>2, <1>4 DEF Chunked
  <1> DEFINE lines == Chunks(n, copied[n], j)
  <1>6. /\ lines \in Seq(AnyLine) /\ \A p \in DOMAIN lines : lines[p].kind = "chunk"
        /\ \E q \in DOMAIN lines : lines[q].repId = copied[n][j].repId /\ lines[q].final
        BY <1>5, ChunksAre
  <1>7. Write(lines)
        BY <1>2
  <1> HIDE DEF lines
  <1>8. Alone /\ Ascending /\ PendingLatest /\ LinesAscend /\ DeclaredEnd /\ StreamsEnd
        BY <1>3 DEF OrderInv
  <1>9. agent = 1 /\ 1 \in Agents
        BY <1>8, AssemblerAssumption DEF Alone, Agents
  <1>10. /\ \A b \in Agents : b # 1 => pipes'[b] = pipes[b]
         /\ \A q \in DOMAIN pipes[1] :
              q \in Nat /\ q <= Len(pipes[1]) /\ q \in DOMAIN pipes'[1] /\ pipes'[1][q] = pipes[1][q]
         /\ \A q \in DOMAIN pipes'[1] : q \notin DOMAIN pipes[1] =>
              /\ q \in Nat /\ q > Len(pipes[1])
              /\ q - Len(pipes[1]) \in DOMAIN lines
              /\ pipes'[1][q] = lines[q - Len(pipes[1])]
         /\ \A q \in DOMAIN lines :
              /\ Len(pipes[1]) + q \in DOMAIN pipes'[1]
              /\ pipes'[1][Len(pipes[1]) + q] = lines[q]
         /\ Len(pipes[1]) \in Nat
         BY <1>6, <1>7, <1>9, WriteIs
  <1>11. Alone' /\ Ascending' /\ PendingLatest'
         BY <1>3, <1>8, <1>10 DEF Alone, Ascending, PendingLatest
  <1>12. \A p \in DOMAIN pipes'[1] : \A m \in Nat : Declares(1, p, m)' =>
           p \in DOMAIN pipes[1] /\ Declares(1, p, m)
         BY <1>6, <1>10 DEF Declares
  <1>13. LinesAscend'
         BY <1>3, <1>8, <1>12 DEF LinesAscend
  <1>14. ASSUME NEW p \in Nat, p <= Len(pipes[1]), NEW m \in DOMAIN copied,
                NEW i \in DOMAIN copied[m], EndsAfter(p, m, i)
         PROVE  EndsAfter(p, m, i)'
    <2>1. CASE ~(m = n /\ i = j)
      <3>1. \/ ~(m = Len(copied) /\ i \in writing)
            \/ m = Len(copied') /\ i \in writing' /\ \A q \in DOMAIN lines : lines[q].kind # "changed"
            BY <1>1, <1>2, <1>3, <1>6, <2>1
      <3> QED BY <1>3, <1>6, <1>7, <1>9, <1>14, <3>1, EndsStay
    <2>2. CASE m = n /\ i = j
      <3>1. CASE \E q \in DOMAIN pipes[1] :
                   /\ p < q /\ Ends(q, copied[m][i].repId)
                   /\ \A r \in DOMAIN pipes[1] : p < r /\ r < q => pipes[1][r].kind # "changed"
        <4>1. PICK q \in DOMAIN pipes[1] :
                /\ p < q /\ Ends(q, copied[m][i].repId)
                /\ \A r \in DOMAIN pipes[1] : p < r /\ r < q => pipes[1][r].kind # "changed"
              BY <3>1
        <4>2. q \in DOMAIN pipes'[1] /\ Ends(q, copied[m][i].repId)'
              BY <1>3, <1>10, <4>1 DEF Ends
        <4>3. \A r \in DOMAIN pipes'[1] : p < r /\ r < q => pipes'[1][r].kind # "changed"
              BY <1>10, <4>1
        <4> QED BY <1>3, <4>1, <4>2, <4>3 DEF EndsAfter
      <3>2. CASE \A r \in DOMAIN pipes[1] : p < r => pipes[1][r].kind # "changed"
        <4>1. PICK q \in DOMAIN lines : lines[q].repId = copied[n][j].repId /\ lines[q].final
              BY <1>6
        <4>2. q \in Nat \ {0}
              BY <1>6
        <4>3. PICK t : t = Len(pipes[1]) + q
              OBVIOUS
        <4>4. t \in DOMAIN pipes'[1] /\ pipes'[1][t] = lines[q] /\ p < t
              BY <1>10, <1>14, <4>2, <4>3
        <4>5. Ends(t, copied[m][i].repId)'
              BY <1>3, <1>6, <2>2, <4>1, <4>4 DEF Ends
        <4>6. \A r \in DOMAIN pipes'[1] : p < r => pipes'[1][r].kind # "changed"
              BY <1>6, <1>10, <3>2
        <4> QED BY <1>3, <4>4, <4>5, <4>6 DEF EndsAfter
      <3> QED BY <1>14, <3>1, <3>2 DEF EndsAfter
    <2> QED BY <2>1, <2>2
  <1>15. DeclaredEnd'
    <2> SUFFICES ASSUME NEW p \in DOMAIN pipes'[1], NEW m \in DOMAIN copied, Declares(1, p, m)',
                        NEW i \in Chunked(copied[m])
                 PROVE  EndsAfter(p, m, i)'
        BY <1>3 DEF DeclaredEnd, Declares
    <2>1. p \in DOMAIN pipes[1] /\ Declares(1, p, m)
          BY <1>5, <1>12
    <2>2. EndsAfter(p, m, i) /\ i \in DOMAIN copied[m]
          BY <1>8, <2>1 DEF DeclaredEnd, Chunked
    <2> QED BY <1>10, <1>14, <2>1, <2>2
  <1>16. StreamsEnd'
    <2> SUFFICES ASSUME NEW id \in Streams, NEW m \in DOMAIN copied, NEW i \in DOMAIN copied[m],
                        owner[id] = [change |-> m, slot |-> i]
                 PROVE  EndsAfter(0, m, i)'
        BY <1>3 DEF StreamsEnd, Streams
    <2>1. EndsAfter(0, m, i)
          BY <1>8 DEF StreamsEnd
    <2> QED BY <1>10, <1>14, <2>1
  <1> QED BY <1>11, <1>13, <1>15, <1>16 DEF OrderInv

LEMMA OrderDisturbed ==
  AssemblerInv /\ (Die \/ OnExit \/ \E a \in Agents : LoseLine(a)) => OrderInv'
  <1> SUFFICES ASSUME AssemblerInv, ~unordered', Die \/ OnExit \/ \E a \in Agents : LoseLine(a)
               PROVE  FALSE
      BY DEF OrderInv
  <1>1. OnExit
        BY DEF Die, LoseLine
  <1>2. ~alive /\ ~unordered
        BY <1>1 DEF OnExit
  <1> QED BY <1>2 DEF AssemblerInv, OrderInv, Alone

LEMMA OrderTimeout == AssemblerInv /\ (\E id \in Streams : RepTimeout(id)) => OrderInv'
  <1> SUFFICES ASSUME AssemblerInv, ~unordered', NEW id \in Streams, RepTimeout(id) PROVE OrderInv'
      BY DEF OrderInv
  <1> USE DEF AssemblerInv, WholeInv
  <1>1. /\ streams' = Without(streams, {id}) /\ owner' = Without(owner, {id})
        /\ Settle(id, Dropped)
        /\ UNCHANGED <<agents, pipes, unordered>>
        BY DEF RepTimeout, abort, Settle
  <1>2. UNCHANGED <<agent, alive, writing, copied>>
        BY <1>1 DEF agents
  <1>3. emitted' \in Seq(Payloads) /\ EmittedInv' /\ HandsOn(DOMAIN pending)
        BY <1>1, <1>2, SettleKeeps
  <1>4. Alone /\ Ascending /\ PendingLatest /\ LinesAscend /\ DeclaredEnd /\ StreamsEnd
        BY <1>1 DEF OrderInv
  <1>5. DOMAIN pending \in SUBSET Nat
        BY DEF PendingInv, SlotsInv, AssemblerTypes
  <1>6. /\ Ascending' /\ PendingLatest'
        /\ \A n \in Nat : /\ \A k \in DOMAIN emitted : emitted[k].change < n
                          /\ \A m \in DOMAIN pending : m < n
                          => \A k \in DOMAIN emitted' : emitted'[k].change < n
    <2>1. \A m, n \in DOMAIN pending : m = n
          BY <1>4 DEF PendingLatest
    <2>2. \A n \in DOMAIN pending : \A k \in DOMAIN emitted : emitted[k].change < n
          BY <1>4 DEF PendingLatest
    <2> QED BY <1>3, <1>4, <1>5, <2>1, <2>2, OrderKept
  <1>7. Alone'
        BY <1>1, <1>2, <1>4 DEF Alone
  <1>8. LinesAscend'
        BY <1>1, <1>3, <1>4, <1>6 DEF LinesAscend, Declares, HandsOn
  <1>9. \A p, n, i : EndsAfter(p, n, i) => EndsAfter(p, n, i)'
        BY <1>1, <1>2 DEF EndsAfter, Ends
  <1>10. DeclaredEnd'
         BY <1>1, <1>2, <1>4, <1>9 DEF DeclaredEnd, Declares
  <1>11. StreamsEnd'
    <2>1. \A x \in Streams' : x \in Streams /\ x \in DOMAIN owner' /\ owner'[x] = owner[x]
          BY <1>1 DEF Without, Streams, PendingInv, StreamsInv
    <2> QED BY <1>2, <1>4, <1>9, <2>1 DEF StreamsEnd
  <1> QED BY <1>6, <1>7, <1>8, <1>10, <1>11 DEF OrderInv

(* What the reading of a line has in common, whatever the line says: S is  *)
(* the change in question afterwards.                                      *)
LEMMA OrderRead ==
  ASSUME AssemblerInv, ~unordered, NEW a \in Agents, Consume(a), UNCHANGED agents,
         emitted' \in Seq(Payloads), EmittedInv', NEW S, HandsOn(S),
         S \in SUBSET Nat, \A m, n \in S : m = n,
         \A n \in S : \A k \in DOMAIN emitted : emitted[k].change < n,
         \A p \in DOMAIN pipes[1] : \A n \in Nat : p # 1 /\ Declares(1, p, n) => \A m \in S : m < n
  PROVE  a = 1 /\ Alone' /\ Ascending' /\ PendingLatest' /\ LinesAscend' /\ DeclaredEnd'
  <1> USE DEF AssemblerInv, WholeInv
  <1>1. Alone /\ Ascending /\ PendingLatest /\ LinesAscend /\ DeclaredEnd /\ StreamsEnd
        BY DEF OrderInv
  <1>2. a = 1
        BY <1>1 DEF Alone, Consume
  <1>3. UNCHANGED <<agent, alive, writing, copied>>
        BY DEF agents
  <1>4. /\ \A b \in Agents : b # 1 => pipes'[b] = pipes[b]
        /\ \A p \in DOMAIN pipes'[1] :
             p \in Nat /\ p + 1 \in DOMAIN pipes[1] /\ pipes'[1][p] = pipes[1][p + 1] /\ p + 1 # 1
    <2>1. /\ pipes' \in [Agents -> Seq(AnyLine)]
          /\ \A b \in Agents : b # 1 => pipes'[b] = pipes[b]
          /\ \A p \in DOMAIN pipes'[1] :
               p \in Nat /\ p + 1 \in DOMAIN pipes[1] /\ pipes'[1][p] = pipes[1][p + 1]
          BY <1>2, ConsumeIs
    <2>2. \A p \in DOMAIN pipes'[1] : p \in Nat /\ p + 1 # 1
      <3>1. pipes'[1] \in Seq(AnyLine)
            BY <1>2, <2>1
      <3> QED BY <3>1
    <2> QED BY <2>1, <2>2
  <1>5. \A p \in DOMAIN pipes'[1] : \A n \in Nat : Declares(1, p, n)' => Declares(1, p + 1, n)
        BY <1>4 DEF Declares
  <1>6. /\ Ascending' /\ PendingLatest'
        /\ \A n \in Nat : /\ \A k \in DOMAIN emitted : emitted[k].change < n
                          /\ \A m \in S : m < n
                          => \A k \in DOMAIN emitted' : emitted'[k].change < n
        BY <1>1, OrderKept
  <1>7. Alone'
        BY <1>1, <1>3, <1>4 DEF Alone
  <1>8. LinesAscend'
    <2> SUFFICES ASSUME NEW p \in DOMAIN pipes'[1], NEW n \in Nat, Declares(1, p, n)'
                 PROVE  /\ \A k \in DOMAIN emitted' : emitted'[k].change < n
                        /\ \A m \in DOMAIN pending' : m < n
                        /\ \A q \in DOMAIN pipes'[1] : \A m \in Nat :
                             q < p /\ Declares(1, q, m)' => m < n
        BY DEF LinesAscend, Declares
    <2>1. p + 1 \in DOMAIN pipes[1] /\ p + 1 # 1 /\ Declares(1, p + 1, n)
          BY <1>4, <1>5
    <2>2. /\ \A k \in DOMAIN emitted : emitted[k].change < n
          /\ \A q \in DOMAIN pipes[1] : \A m \in Nat : q < p + 1 /\ Declares(1, q, m) => m < n
          BY <1>1, <2>1 DEF LinesAscend
    <2>3. \A m \in S : m < n
          BY <2>1
    <2>4. ASSUME NEW q \in DOMAIN pipes'[1], NEW m \in Nat, q < p, Declares(1, q, m)'
          PROVE  m < n
      <3>1. q + 1 \in DOMAIN pipes[1] /\ Declares(1, q + 1, m) /\ q + 1 < p + 1
            BY <1>4, <1>5, <2>4
      <3> QED BY <2>2, <3>1
    <2> QED BY <1>6, <2>2, <2>3, <2>4 DEF HandsOn
  <1>9. DeclaredEnd'
    <2> SUFFICES ASSUME NEW p \in DOMAIN pipes'[1], NEW n \in DOMAIN copied, Declares(1, p, n)',
                        NEW i \in Chunked(copied[n])
                 PROVE  EndsAfter(p, n, i)'
        BY <1>3 DEF DeclaredEnd, Declares
    <2>1. p \in Nat /\ p + 1 \in DOMAIN pipes[1] /\ n \in Nat
          BY <1>4 DEF AssemblerTypes
    <2>2. EndsAfter(p + 1, n, i)
          BY <1>1, <1>5, <2>1 DEF DeclaredEnd
    <2> QED BY <1>2, <1>3, <2>1, <2>2, EndsNearer
  <1> QED BY <1>2, <1>6, <1>7, <1>8, <1>9

LEMMA OrderReadChanged ==
  AssemblerInv /\ (\E a \in Agents : ReadChanged(a) \/ ReadDamaged(a)) => OrderInv'
  <1> SUFFICES ASSUME AssemblerInv, ~unordered', NEW a \in Agents, ReadChanged(a) \/ ReadDamaged(a)
               PROVE  OrderInv'
      BY DEF OrderInv
  <1> USE DEF AssemblerInv, WholeInv
  <1>1. PICK n : n = Line(a).change
        OBVIOUS
  <1>2. /\ Consume(a) /\ UNCHANGED agents /\ ~unordered /\ Line(a).kind = "changed"
        BY DEF ReadChanged, ReadDamaged
  <1>3. UNCHANGED <<agent, alive, writing, copied>>
        BY <1>2 DEF agents
  <1>4. Alone /\ Ascending /\ PendingLatest /\ LinesAscend /\ DeclaredEnd /\ StreamsEnd
        BY <1>2 DEF OrderInv
  <1>5. a = 1
        BY <1>2, <1>4 DEF Alone, Consume
  <1>6. 1 \in DOMAIN pipes[1] /\ Line(1) = pipes[1][1] /\ \A q \in DOMAIN pipes[1] : q \in Nat \ {0}
    <2>1. pipes[1] \in Seq(AnyLine)
          BY <1>5 DEF AssemblerTypes
    <2> QED BY <1>2, <1>5, <2>1, ConsumeIs
  <1>7. /\ n \in DOMAIN copied /\ n \in Nat /\ Line(a).reps = copied[n] /\ Unheard(n)
        /\ Declares(1, 1, n)
        BY <1>1, <1>2, <1>5, <1>6 DEF LineInv, Declares, AssemblerTypes
  <1>8. \A m, i : ~EndsAfter(0, m, i)
        BY <1>2, <1>5, <1>6 DEF EndsAfter, Ends
  <1>9. Streams = {}
    <2> SUFFICES ASSUME NEW id \in Streams PROVE FALSE
        OBVIOUS
    <2>1. PICK m \in DOMAIN pending : \E i \in DOMAIN copied[m] : Fills(id, pending, m, i)
          BY DEF PendingInv, StreamsInv
    <2>2. PICK i \in DOMAIN copied[m] : owner[id] = [change |-> m, slot |-> i]
          BY <2>1 DEF Fills
    <2>3. m \in DOMAIN copied
          BY DEF PendingInv, SlotsInv
    <2> QED BY <1>4, <1>8, <2>2, <2>3 DEF StreamsEnd
  <1>10. DOMAIN pending = {}
    <2> SUFFICES ASSUME NEW m \in DOMAIN pending PROVE FALSE
        OBVIOUS
    <2>1. m \in DOMAIN copied /\ pending[m] \in [DOMAIN copied[m] -> Fates] /\ ~Settled(pending[m])
          BY DEF PendingInv, SlotsInv
    <2>2. PICK i \in DOMAIN copied[m] : pending[m][i].st = "waiting"
          BY <2>1 DEF Settled, Outstanding
    <2>3. ~Arrived(m, i, pending[m][i])
          BY <2>2 DEF Arrived, Dropped, Resolved
    <2>4. Streamed(m, i)
          BY <2>3 DEF PendingInv, SlotsInv
    <2> QED BY <1>9, <2>4 DEF Streamed
  <1>11. PICK damaged : handleChanged(n, copied[n], damaged)
    <2>1. PICK d : handleChanged(n, Line(a).reps, d)
          BY <1>1 DEF ReadChanged, ReadDamaged
    <2> QED BY <1>5, <1>7, <2>1
  <1>12. emitted' \in Seq(Payloads) /\ EmittedInv' /\ HandsOn(DOMAIN pending \cup {n})
         BY <1>3, <1>7, <1>11, ChangedKeeps
  <1>13. HandsOn({n})
         BY <1>10, <1>12
  <1>14. \A k \in DOMAIN emitted : emitted[k].change < n
         BY <1>4, <1>6, <1>7 DEF LinesAscend
  <1>15. \A p \in DOMAIN pipes[1] : \A m \in Nat : p # 1 /\ Declares(1, p, m) => n < m
    <2> SUFFICES ASSUME NEW p \in DOMAIN pipes[1], NEW m \in Nat, p # 1, Declares(1, p, m)
                 PROVE  n < m
        OBVIOUS
    <2>1. 1 < p
          BY <1>6
    <2> QED BY <1>4, <1>6, <1>7, <2>1 DEF LinesAscend
  <1>16. Alone' /\ Ascending' /\ PendingLatest' /\ LinesAscend' /\ DeclaredEnd'
         BY <1>2, <1>7, <1>12, <1>13, <1>14, <1>15, OrderRead
  <1>17. StreamsEnd'
    <2> DEFINE declared == Declared(copied[n])
               ids == {copied[n][i].repId : i \in declared}
               slotOf(id) == CHOOSE i \in declared : copied[n][i].repId = id
    <2>1. /\ Streams' = ids
          /\ \A id \in ids : owner'[id] = [change |-> n, slot |-> slotOf(id)]
          BY <1>9, <1>11 DEF handleChanged, Streams
    <2>2. \A id \in ids : slotOf(id) \in declared
          OBVIOUS
    <2> HIDE DEF slotOf, ids
    <2>3. declared \in SUBSET Chunked(copied[n])
          BY DEF Declared
    <2> SUFFICES ASSUME NEW id \in Streams', NEW m \in DOMAIN copied, NEW i \in DOMAIN copied[m],
                        owner'[id] = [change |-> m, slot |-> i]
                 PROVE  EndsAfter(0, m, i)'
        BY <1>3 DEF StreamsEnd
    <2>4. m = n /\ i \in Chunked(copied[n])
      <3>1. PICK x : x = slotOf(id)
            OBVIOUS
      <3>2. owner'[id] = [change |-> n, slot |-> x] /\ x \in Chunked(copied[n])
            BY <2>1, <2>2, <2>3, <3>1
      <3>3. m = n /\ i = x
            BY <3>2
      <3> QED BY <3>2, <3>3
    <2>5. EndsAfter(1, n, i)
          BY <1>4, <1>6, <1>7, <2>4 DEF DeclaredEnd
    <2>6. EndsAfter(0 + 1, n, i)
          BY <2>5
    <2> QED BY <1>2, <1>3, <1>5, <2>4, <2>6, EndsNearer
  <1> QED BY <1>16, <1>17 DEF OrderInv

LEMMA OrderReadChunk ==
  AssemblerInv /\ (\E a \in Agents : ReadChunk(a) \/ ReadGarbled(a)) => OrderInv'
  <1> SUFFICES ASSUME AssemblerInv, ~unordered', NEW a \in Agents, ReadChunk(a) \/ ReadGarbled(a)
               PROVE  OrderInv'
      BY DEF OrderInv
  <1> USE DEF AssemblerInv, WholeInv
  <1>1. PICK readable \in BOOLEAN : handleChunk(Line(a), readable)
    <2>1. ReadChunk(a) => handleChunk(Line(a), TRUE)
          BY DEF ReadChunk
    <2>2. ReadGarbled(a) => handleChunk(Line(a), FALSE)
          BY DEF ReadGarbled
    <2> QED BY <2>1, <2>2
  <1>2. Consume(a) /\ UNCHANGED agents /\ ~unordered /\ Line(a).kind = "chunk"
    <2>1. CASE ReadChunk(a)
          BY <2>1 DEF ReadChunk
    <2>2. CASE ReadGarbled(a)
          BY <2>2 DEF ReadGarbled
    <2> QED BY <2>1, <2>2
  <1>3. UNCHANGED <<agent, alive, writing, copied>>
        BY <1>2 DEF agents
  <1>4. Alone /\ Ascending /\ PendingLatest /\ LinesAscend /\ DeclaredEnd /\ StreamsEnd
        BY <1>2 DEF OrderInv
  <1>5. emitted' \in Seq(Payloads) /\ EmittedInv' /\ HandsOn(DOMAIN pending)
        BY <1>1, <1>3, ChunkKeeps
  <1>6. DOMAIN pending \in SUBSET Nat
        BY DEF PendingInv, SlotsInv, AssemblerTypes
  <1>7. /\ \A m, n \in DOMAIN pending : m = n
        /\ \A n \in DOMAIN pending : \A k \in DOMAIN emitted : emitted[k].change < n
        BY <1>4 DEF PendingLatest
  <1>8. \A p \in DOMAIN pipes[1] : \A n \in Nat : p # 1 /\ Declares(1, p, n) =>
          \A m \in DOMAIN pending : m < n
        BY <1>4 DEF LinesAscend
  <1>9. a = 1 /\ Alone' /\ Ascending' /\ PendingLatest' /\ LinesAscend' /\ DeclaredEnd'
        BY <1>2, <1>5, <1>6, <1>7, <1>8, OrderRead
  <1>10. /\ \A x \in Streams' : x \in Streams /\ owner'[x] = owner[x]
         /\ Line(a).final => Line(a).repId \notin Streams'
    <2>1. DOMAIN owner = Streams
          BY DEF PendingInv, StreamsInv
    <2>2. CASE Line(a).repId \notin Streams
          BY <1>1, <2>2 DEF handleChunk, host, Streams
    <2>3. CASE /\ Line(a).repId \in Streams
               /\ streams' = Without(streams, {Line(a).repId})
               /\ owner' = Without(owner, {Line(a).repId})
          BY <2>1, <2>3 DEF Without, Streams
    <2>4. CASE ~Line(a).final /\ DOMAIN streams' = DOMAIN streams /\ owner' = owner
          BY <2>4 DEF Streams
    <2> QED BY <1>1, <2>2, <2>3, <2>4 DEF handleChunk, abort, Settle
  <1>11. 1 \in DOMAIN pipes[1] /\ Line(1) = pipes[1][1] /\ \A q \in DOMAIN pipes[1] : q \in Nat \ {0}
    <2>1. pipes[1] \in Seq(AnyLine)
          BY <1>9 DEF AssemblerTypes
    <2> QED BY <1>2, <1>9, <2>1, ConsumeIs
  <1>12. StreamsEnd'
    <2> SUFFICES ASSUME NEW id \in Streams', NEW m \in DOMAIN copied, NEW i \in DOMAIN copied[m],
                        owner'[id] = [change |-> m, slot |-> i]
                 PROVE  EndsAfter(0, m, i)'
        BY <1>3 DEF StreamsEnd
    <2>1. id \in Streams /\ owner[id] = [change |-> m, slot |-> i]
          BY <1>10
    <2>2. copied[m][i].repId = id
      <3>1. PICK x \in DOMAIN pending : \E y \in DOMAIN copied[x] : Fills(id, pending, x, y)
            BY <2>1 DEF PendingInv, StreamsInv
      <3> QED BY <2>1, <3>1 DEF Fills
    <2>3. ~Ends(1, id)
          BY <1>9, <1>10, <1>11 DEF Ends
    <2>4. EndsAfter(0, m, i)
          BY <1>4, <2>1 DEF StreamsEnd
    <2>5. EndsAfter(0 + 1, m, i)
      <3>1. CASE \E q \in DOMAIN pipes[1] :
                   /\ 0 < q /\ Ends(q, copied[m][i].repId)
                   /\ \A r \in DOMAIN pipes[1] : 0 < r /\ r < q => pipes[1][r].kind # "changed"
        <4>1. PICK q \in DOMAIN pipes[1] :
                /\ 0 < q /\ Ends(q, copied[m][i].repId)
                /\ \A r \in DOMAIN pipes[1] : 0 < r /\ r < q => pipes[1][r].kind # "changed"
              BY <3>1
        <4>2. 0 + 1 < q
              BY <1>11, <2>2, <2>3, <4>1
        <4> QED BY <1>11, <4>1, <4>2 DEF EndsAfter
      <3>2. CASE /\ m = Len(copied) /\ i \in writing
                 /\ \A r \in DOMAIN pipes[1] : 0 < r => pipes[1][r].kind # "changed"
            BY <1>11, <3>2 DEF EndsAfter
      <3> QED BY <2>4, <3>1, <3>2 DEF EndsAfter
    <2> QED BY <1>2, <1>3, <1>9, <2>5, EndsNearer
  <1> QED BY <1>9, <1>12 DEF OrderInv

LEMMA OrderStep == AssemblerInv /\ [Next]_vars => OrderInv'
  <1> SUFFICES ASSUME AssemblerInv, [Next]_vars PROVE OrderInv'
      OBVIOUS
  <1>1. CASE UNCHANGED vars
        BY <1>1 DEF vars, agents, host, AssemblerInv, OrderInv, Alone, Ascending, PendingLatest,
             LinesAscend, DeclaredEnd, StreamsEnd, Streams, Declares, EndsAfter, Ends
  <1>2. CASE Next
        BY <1>2, OrderTick, OrderEmit, OrderDisturbed, OrderTimeout, OrderReadChanged,
           OrderReadChunk DEF Next
  <1> QED BY <1>1, <1>2

(* As long as no line is lost and no agent dies, changes are handed on in  *)
(* the order they were made, whatever is damaged or late: the streams of a *)
(* change have ended when the next one is read.                            *)
(* (Chunker.emit: "chunks AFTER the declaring line, always", main.swift.)  *)
THEOREM CopiesArriveInOrder == Spec => []HandedOnInOrder
  <1>1. Init => AssemblerInv
        BY WholeInit, OrderInit DEF AssemblerInv
  <1>2. AssemblerInv /\ [Next]_vars => AssemblerInv'
        BY WholeStep, OrderStep DEF AssemblerInv
  <1>3. AssemblerInv => HandedOnInOrder
        BY DEF AssemblerInv, OrderInv, Ascending, HandedOnInOrder
  <1> QED BY <1>1, <1>2, <1>3, PTL DEF Spec

-----------------------------------------------------------------------------
(* WriteTransfer: items reach the pasteboard in the order of the calls, and*)
(* none after its call has ended.                                          *)

-----------------------------------------------------------------------------
(* Types, as far as the order of the writes needs them.                     *)
Ops == {"write", "begin", "chunk", "commit", "abort"}
Requests == [call : Nat, op : Ops, n : Nat]
Records == [shape : Shapes, waits : Requests \cup {NoRequest}, lost : BOOLEAN]

TypeInv ==
  /\ writes \in Seq(Records)
  /\ inbox \in Seq(Requests)
  /\ pipe \in Seq([request : Requests, ok : BOOLEAN])
  /\ written \in Seq(Nat)

(* Everything under way belongs to a call that was made.                    *)
Known ==
  /\ \A i \in DOMAIN inbox : inbox[i].call \in Calls
  /\ \A i \in DOMAIN pipe : pipe[i].request.call \in Calls
  /\ \A i \in DOMAIN written : written[i] \in Calls

(* Only the last call waits for anything, and then the transport is active. *)
OneWaits ==
  \A w \in Calls : writes[w].waits # NoRequest =>
    active /\ w = Len(writes) /\ writes[w].waits.call = w

(* The requests that put an item on the pasteboard.                         *)
Puts(r) == r.op \in {"write", "commit"}

(* The queue is in the order of the calls, and each has one such request.   *)
QueueInOrder ==
  \A i, j \in DOMAIN inbox : i < j =>
    /\ inbox[i].call <= inbox[j].call
    /\ Puts(inbox[i]) /\ Puts(inbox[j]) => inbox[i].call < inbox[j].call

(* What is on the pasteboard is older than what the queue will put there.   *)
WrittenBefore ==
  \A i \in DOMAIN written, j \in DOMAIN inbox :
    /\ written[i] <= inbox[j].call
    /\ Puts(inbox[j]) => written[i] < inbox[j].call

(* A call that still uploads has asked for no commit.                       *)
NotYetCommitted ==
  \A w \in Calls : writes[w].waits.op \in {"begin", "chunk"} =>
    /\ \A j \in DOMAIN inbox : inbox[j].call = w => ~Puts(inbox[j])
    /\ \A i \in DOMAIN written : written[i] # w

Order == Known /\ OneWaits /\ QueueInOrder /\ WrittenBefore /\ NotYetCommitted /\ LaterWriteWins
CallsInv == TypeInv /\ Order

LEMMA CallsInit == TransferInit => CallsInv
  BY DEF TransferInit, CallsInv, Order, TypeInv, Known, OneWaits, QueueInOrder, WrittenBefore,
         NotYetCommitted, LaterWriteWins, Calls

-----------------------------------------------------------------------------
LEMMA HeadAndTail ==
  ASSUME NEW S, NEW s \in Seq(S), s # <<>>
  PROVE  /\ Len(s) \in Nat /\ Len(s) > 0 /\ 1 \in DOMAIN s
         /\ Head(s) = s[1] /\ Head(s) \in S
         /\ Tail(s) \in Seq(S)
         /\ \A j \in DOMAIN Tail(s) :
              j \in Nat /\ 1 < j + 1 /\ j + 1 \in DOMAIN s /\ Tail(s)[j] = s[j + 1]
  OBVIOUS

LEMMA Extend ==
  ASSUME NEW S, NEW s \in Seq(S), NEW x \in S
  PROVE  /\ Append(s, x) \in Seq(S)
         /\ \A j \in DOMAIN Append(s, x) :
              \/ j \in DOMAIN s /\ Append(s, x)[j] = s[j]
              \/ j = Len(s) + 1 /\ Append(s, x)[j] = x
  OBVIOUS

LEMMA Prefix ==
  ASSUME NEW S, NEW s \in Seq(S), NEW n \in 0..Len(s)
  PROVE  /\ SubSeq(s, 1, n) \in Seq(S)
         /\ \A j \in DOMAIN SubSeq(s, 1, n) : j \in DOMAIN s /\ SubSeq(s, 1, n)[j] = s[j]
  OBVIOUS

LEMMA RequestType ==
  ASSUME NEW w \in Nat, NEW op \in Ops, NEW n \in Nat
  PROVE  Request(w, op, n) \in Requests /\ Request(w, op, n).call = w
         /\ Request(w, op, n).op = op
  BY DEF Request, Requests

LEMMA NoRequestIs == NoRequest.op = "none" /\ NoRequest.call = 0 /\ NoRequest \notin Requests
  BY DEF NoRequest, Request, Requests, Ops

(* Changing what one call waits for changes nothing of the others.          *)
LEMMA OneCallChanges ==
  ASSUME TypeInv, NEW w \in Calls, NEW r \in Requests \cup {NoRequest}, NEW lost \in BOOLEAN,
         Proceeds(w, r, lost)
  PROVE  /\ writes' \in Seq(Records) /\ Len(writes') = Len(writes) /\ Calls' = Calls
         /\ writes'[w].waits = r
         /\ \A v \in Calls : v # w => writes'[v] = writes[v]
<1> DEFINE rec == Awaiting(writes[w].shape, r, lost)
<1>1. writes[w] \in Records /\ writes \in Seq(Records) /\ w \in DOMAIN writes
  BY DEF TypeInv, Calls
<1>2. rec \in Records /\ rec.waits = r
  BY <1>1 DEF Records, Awaiting
<1>3. writes' = [writes EXCEPT ![w] = rec]
  BY DEF Proceeds
<1> HIDE DEF rec
<1> QED BY <1>1, <1>2, <1>3 DEF Calls

(* Asking keeps the order: the call that asks is the last one.              *)
LEMMA AskKeepsOrder ==
  ASSUME CallsInv, NEW w \in Calls, NEW op \in {"chunk", "commit", "abort"}, NEW n \in Nat,
         writes[w].waits # NoRequest,
         op # "abort" => writes[w].waits.op \in {"begin", "chunk"},
         Asks(w, op, n),
         pipe' \in Seq([request : Requests, ok : BOOLEAN]),
         \A i \in DOMAIN pipe' : pipe'[i].request.call \in Calls,
         written' = written
  PROVE  CallsInv'
<1> DEFINE r == Request(w, op, n)
<1>1. w = Len(writes) /\ active /\ w \in Nat
  BY DEF CallsInv, Order, OneWaits, Calls, TypeInv
<1>2. r \in Requests /\ r.call = w /\ r.op = op
  BY <1>1, RequestType DEF Ops
<1>3. r # NoRequest
  BY <1>2, NoRequestIs
<1> HIDE DEF r
<1>4. Proceeds(w, r, FALSE) /\ inbox' = Append(inbox, r) /\ active' = active
  BY DEF Asks, r
<1>5. /\ writes' \in Seq(Records) /\ Len(writes') = Len(writes) /\ Calls' = Calls
      /\ writes'[w].waits = r
      /\ \A v \in Calls : v # w => writes'[v] = writes[v]
  BY <1>2, <1>4, OneCallChanges DEF CallsInv
<1>6. inbox' \in Seq(Requests)
  BY <1>2, <1>4 DEF CallsInv, TypeInv
<1>7. \A j \in DOMAIN inbox' : \/ j \in DOMAIN inbox /\ inbox'[j] = inbox[j]
                               \/ j = Len(inbox) + 1 /\ inbox'[j] = r
  BY <1>2, <1>4 DEF CallsInv, TypeInv
<1>10. TypeInv'
  BY <1>5, <1>6 DEF TypeInv, CallsInv
<1>11. Known'
  BY <1>2, <1>5, <1>7 DEF Known, CallsInv, Order
<1>12. OneWaits'
  BY <1>1, <1>2, <1>4, <1>5 DEF OneWaits, CallsInv, Order
<1>13. \A j \in DOMAIN inbox : inbox[j].call \in Nat /\ inbox[j].call <= w
  BY <1>1 DEF CallsInv, Order, Known, Calls, TypeInv
<1>14. \A i \in DOMAIN written : written[i] \in Nat /\ written[i] <= w
  BY <1>1 DEF CallsInv, Order, Known, Calls, TypeInv
<1>15. Puts(r) => /\ \A j \in DOMAIN inbox : Puts(inbox[j]) => inbox[j].call < w
                  /\ \A i \in DOMAIN written : written[i] < w
  BY <1>1, <1>2, <1>13, <1>14 DEF CallsInv, Order, NotYetCommitted, Puts
<1>16. QueueInOrder'
  <2> SUFFICES ASSUME NEW i \in DOMAIN inbox', NEW j \in DOMAIN inbox', i < j
               PROVE  /\ inbox'[i].call <= inbox'[j].call
                      /\ Puts(inbox'[i]) /\ Puts(inbox'[j]) => inbox'[i].call < inbox'[j].call
    BY DEF QueueInOrder, Puts
  <2>1. i \in DOMAIN inbox /\ inbox'[i] = inbox[i]
    BY <1>4, <1>6, <1>7 DEF CallsInv, TypeInv
  <2>2. CASE j \in DOMAIN inbox /\ inbox'[j] = inbox[j]
    BY <2>1, <2>2 DEF CallsInv, Order, QueueInOrder
  <2>3. CASE inbox'[j] = r
    BY <2>1, <2>3, <1>2, <1>13, <1>15
  <2> QED BY <2>2, <2>3, <1>7
<1>17. WrittenBefore'
  BY <1>2, <1>7, <1>14, <1>15 DEF WrittenBefore, CallsInv, Order, Puts
<1>18. NotYetCommitted'
  <2> SUFFICES ASSUME NEW v \in Calls, writes'[v].waits.op \in {"begin", "chunk"}
               PROVE  /\ \A j \in DOMAIN inbox' : inbox'[j].call = v => ~Puts(inbox'[j])
                      /\ \A i \in DOMAIN written : written[i] # v
    BY <1>5 DEF NotYetCommitted, Puts
  <2>1. v = w
    BY <1>1, <1>5, NoRequestIs DEF CallsInv, Order, OneWaits
  <2>2. op = "chunk" /\ ~Puts(r)
    BY <2>1, <1>2, <1>5 DEF Puts
  <2>3. writes[w].waits.op \in {"begin", "chunk"}
    BY <2>2
  <2> QED BY <2>1, <2>2, <2>3, <1>7 DEF CallsInv, Order, NotYetCommitted
<1>19. LaterWriteWins'
  BY DEF LaterWriteWins, CallsInv, Order
<1> QED
  BY <1>10, <1>11, <1>12, <1>16, <1>17, <1>18, <1>19 DEF CallsInv, Order

(* Returning asks for nothing more.                                         *)
LEMMA ReturnKeepsOrder ==
  ASSUME CallsInv, NEW w \in Calls, NEW lost \in BOOLEAN,
         writes[w].waits # NoRequest,
         Returns(w, lost),
         pipe' \in Seq([request : Requests, ok : BOOLEAN]),
         \A i \in DOMAIN pipe' : pipe'[i].request.call \in Calls,
         written' = written
  PROVE  CallsInv'
<1>1. w = Len(writes)
  BY DEF CallsInv, Order, OneWaits
<1>2. Proceeds(w, NoRequest, lost) /\ inbox' = inbox
  BY DEF Returns
<1>3. /\ writes' \in Seq(Records) /\ Len(writes') = Len(writes) /\ Calls' = Calls
      /\ writes'[w].waits = NoRequest
      /\ \A v \in Calls : v # w => writes'[v] = writes[v]
  BY <1>2, OneCallChanges DEF CallsInv
<1>6. \A v \in Calls : writes'[v].waits = NoRequest
  BY <1>1, <1>3 DEF CallsInv, Order, OneWaits
<1>7. TypeInv' /\ Known'
  BY <1>2, <1>3 DEF CallsInv, Order, TypeInv, Known
<1>8. OneWaits' /\ NotYetCommitted'
  BY <1>3, <1>6, NoRequestIs DEF OneWaits, NotYetCommitted
<1>9. QueueInOrder' /\ WrittenBefore' /\ LaterWriteWins'
  BY <1>2 DEF CallsInv, Order, QueueInOrder, WrittenBefore, LaterWriteWins, Puts
<1> QED BY <1>7, <1>8, <1>9 DEF CallsInv, Order

LEMMA GiveUpKeepsOrder ==
  ASSUME CallsInv, NEW w \in Calls, NEW lost \in BOOLEAN,
         writes[w].waits # NoRequest,
         GivesUp(w, lost),
         pipe' \in Seq([request : Requests, ok : BOOLEAN]),
         \A i \in DOMAIN pipe' : pipe'[i].request.call \in Calls,
         written' = written
  PROVE  CallsInv'
<1>1. CASE writes[w].waits.op \in {"write", "abort"}
  BY <1>1, ReturnKeepsOrder DEF GivesUp
<1>2. CASE writes[w].waits.op \notin {"write", "abort"}
  BY <1>2, AskKeepsOrder DEF GivesUp
<1> QED BY <1>1, <1>2

(* A new call comes after everything under way.                             *)
LEMMA CallKeepsOrder ==
  ASSUME CallsInv, NEW shape \in Shapes, Call(shape)
  PROVE  CallsInv'
<1> DEFINE w == Len(writes) + 1
           op == IF shape = <<>> THEN "write" ELSE "begin"
           r == Request(w, op, 0)
           new == Awaiting(shape, r, FALSE)
<1>1. TypeInv /\ Len(writes) \in Nat /\ w \in Nat
  BY DEF CallsInv, TypeInv
<1>2. r \in Requests /\ r.call = w /\ r.op \in {"write", "begin"}
  BY <1>1, RequestType DEF Ops
<1>3. new \in Records /\ new.waits = r
  BY <1>2 DEF Records, Awaiting
<1>4. /\ ~active /\ active'
      /\ writes' = Append(writes, new) /\ inbox' = Append(inbox, r)
      /\ pipe' = pipe /\ written' = written
  BY DEF Call, MayStart
<1> HIDE DEF w, op, r, new
<1>5. /\ writes' \in Seq(Records) /\ Len(writes') = w /\ Calls' = Calls \cup {w} /\ w \notin Calls
      /\ writes'[w] = new
      /\ \A v \in Calls : writes'[v] = writes[v] /\ v < w
  BY <1>1, <1>3, <1>4 DEF TypeInv, Calls, w
<1>6. /\ inbox' \in Seq(Requests)
      /\ \A j \in DOMAIN inbox' : \/ j \in DOMAIN inbox /\ inbox'[j] = inbox[j]
                                  \/ j = Len(inbox) + 1 /\ inbox'[j] = r
      /\ DOMAIN inbox = 1..Len(inbox) /\ Len(inbox) \in Nat /\ DOMAIN inbox' = 1..(Len(inbox) + 1)
  BY <1>1, <1>2, <1>4 DEF TypeInv
<1>7. \A v \in Calls : writes'[v].waits = NoRequest
  BY <1>4, <1>5 DEF CallsInv, Order, OneWaits
<1>8. TypeInv'
  BY <1>1, <1>4, <1>5, <1>6 DEF TypeInv
<1>9. Known'
  BY <1>2, <1>4, <1>5, <1>6 DEF Known, CallsInv, Order
<1>10. OneWaits'
  BY <1>2, <1>3, <1>4, <1>5, <1>7 DEF OneWaits
<1>11. \A j \in DOMAIN inbox : inbox[j].call \in Nat /\ inbox[j].call < w
  BY <1>1, <1>5 DEF CallsInv, Order, Known, TypeInv, Calls
<1>12. \A i \in DOMAIN written : written[i] \in Nat /\ written[i] < w
  BY <1>1, <1>5 DEF CallsInv, Order, Known, TypeInv, Calls
<1>13. QueueInOrder'
  <2> SUFFICES ASSUME NEW i \in DOMAIN inbox', NEW j \in DOMAIN inbox', i < j
               PROVE  /\ inbox'[i].call <= inbox'[j].call
                      /\ Puts(inbox'[i]) /\ Puts(inbox'[j]) => inbox'[i].call < inbox'[j].call
    BY DEF QueueInOrder, Puts
  <2>1. i \in DOMAIN inbox /\ inbox'[i] = inbox[i]
    BY <1>6
  <2>2. CASE j \in DOMAIN inbox /\ inbox'[j] = inbox[j]
    BY <2>1, <2>2 DEF CallsInv, Order, QueueInOrder
  <2>3. CASE inbox'[j] = r
    BY <2>1, <2>3, <1>1, <1>2, <1>11
  <2> QED BY <2>2, <2>3, <1>6
<1>14. WrittenBefore'
  BY <1>1, <1>2, <1>4, <1>6, <1>12 DEF WrittenBefore, CallsInv, Order, Puts
<1>15. NotYetCommitted'
  <2> SUFFICES ASSUME NEW v \in Calls', writes'[v].waits.op \in {"begin", "chunk"}
               PROVE  /\ \A j \in DOMAIN inbox' : inbox'[j].call = v => ~Puts(inbox'[j])
                      /\ \A i \in DOMAIN written' : written'[i] # v
    BY DEF NotYetCommitted, Puts
  <2>1. v = w /\ r.op = "begin"
    BY <1>2, <1>3, <1>5, <1>7, NoRequestIs
  <2>2. ~Puts(r)
    BY <2>1 DEF Puts
  <2> QED BY <2>1, <2>2, <1>1, <1>4, <1>6, <1>11, <1>12
<1>16. LaterWriteWins'
  BY <1>4 DEF LaterWriteWins, CallsInv, Order
<1> QED BY <1>8, <1>9, <1>10, <1>13, <1>14, <1>15, <1>16 DEF CallsInv, Order

(* The agent serves the head of the queue, and may write it.                *)
LEMMA ServeKeepsOrder ==
  ASSUME CallsInv, inbox # <<>>, inbox' = Tail(inbox), NEW ok \in BOOLEAN,
         pipe' = Append(pipe, [request |-> Head(inbox), ok |-> ok]),
         UNCHANGED <<writes, active>>,
         \/ written' = written
         \/ Puts(Head(inbox)) /\ written' = Append(written, Head(inbox).call)
  PROVE  CallsInv'
<1> DEFINE r == Head(inbox)
<1>1. /\ TypeInv /\ inbox \in Seq(Requests) /\ Len(inbox) \in Nat /\ Len(inbox) > 0
      /\ r = inbox[1] /\ 1 \in DOMAIN inbox /\ r \in Requests /\ r.call \in Nat
  <2>1. TypeInv /\ inbox \in Seq(Requests)
    BY DEF CallsInv, TypeInv
  <2>2. r \in Requests /\ r = inbox[1] /\ Len(inbox) \in Nat /\ Len(inbox) > 0 /\ 1 \in DOMAIN inbox
    BY <2>1, HeadAndTail
  <2>3. r.call \in Nat
    BY <2>2 DEF Requests
  <2> QED BY <2>1, <2>2, <2>3
<1>2. /\ inbox' \in Seq(Requests)
      /\ \A j \in DOMAIN inbox' : j \in Nat /\ j + 1 \in DOMAIN inbox /\ inbox'[j] = inbox[j + 1]
                                  /\ 1 < j + 1
  BY <1>1, HeadAndTail
<1>3. r.call \in Calls
  BY <1>1 DEF CallsInv, Order, Known
<1> HIDE DEF r
<1>4. pipe' = Append(pipe, [request |-> r, ok |-> ok])
  BY DEF r
<1>5. /\ pipe' \in Seq([request : Requests, ok : BOOLEAN])
      /\ \A i \in DOMAIN pipe' : \/ i \in DOMAIN pipe /\ pipe'[i] = pipe[i]
                                 \/ pipe'[i].request = r
  BY <1>1, <1>4 DEF TypeInv
<1>6. /\ written' \in Seq(Nat)
      /\ \A i \in DOMAIN written' : \/ i \in DOMAIN written /\ written'[i] = written[i]
                                    \/ i = Len(written) + 1 /\ written'[i] = r.call /\ Puts(r)
      /\ DOMAIN written = 1..Len(written) /\ Len(written) \in Nat
  <2>1. written \in Seq(Nat) /\ DOMAIN written = 1..Len(written) /\ Len(written) \in Nat
    BY <1>1 DEF TypeInv
  <2>2. CASE written' = written
    BY <2>1, <2>2
  <2>3. CASE Puts(r) /\ written' = Append(written, r.call)
    <3> DEFINE c == r.call
    <3>1. c \in Nat
      BY <1>1
    <3>2. written' = Append(written, c)
      BY <2>3
    <3> HIDE DEF c
    <3>3. /\ written' \in Seq(Nat)
          /\ \A i \in DOMAIN written' :
               \/ i \in DOMAIN written /\ written'[i] = written[i]
               \/ i = Len(written) + 1 /\ written'[i] = c
      BY <2>1, <3>1, <3>2, Extend
    <3> QED BY <2>1, <2>3, <3>3 DEF c
  <2> QED BY <2>2, <2>3 DEF r
<1>7. TypeInv'
  BY <1>1, <1>2, <1>5, <1>6 DEF TypeInv
<1>8. Known'
  BY <1>2, <1>3, <1>5, <1>6 DEF Known, CallsInv, Order, Calls
<1>9. OneWaits'
  BY DEF OneWaits, CallsInv, Order, Calls
<1>10. QueueInOrder'
  <2> SUFFICES ASSUME NEW i \in DOMAIN inbox', NEW j \in DOMAIN inbox', i < j
               PROVE  /\ inbox'[i].call <= inbox'[j].call
                      /\ Puts(inbox'[i]) /\ Puts(inbox'[j]) => inbox'[i].call < inbox'[j].call
    BY DEF QueueInOrder, Puts
  <2>1. i + 1 < j + 1
    BY <1>2
  <2> QED BY <2>1, <1>2 DEF CallsInv, Order, QueueInOrder
<1>11. \A j \in DOMAIN inbox' : /\ r.call <= inbox'[j].call
                                /\ Puts(r) /\ Puts(inbox'[j]) => r.call < inbox'[j].call
  BY <1>1, <1>2 DEF CallsInv, Order, QueueInOrder
<1>12. WrittenBefore'
  BY <1>2, <1>6, <1>11 DEF WrittenBefore, CallsInv, Order, Puts
<1>13. NotYetCommitted'
  <2> SUFFICES ASSUME NEW v \in Calls, writes[v].waits.op \in {"begin", "chunk"}
               PROVE  /\ \A j \in DOMAIN inbox' : inbox'[j].call = v => ~Puts(inbox'[j])
                      /\ \A i \in DOMAIN written' : written'[i] # v
    BY DEF NotYetCommitted, Puts, Calls
  <2>1. /\ \A j \in DOMAIN inbox : inbox[j].call = v => ~Puts(inbox[j])
        /\ \A i \in DOMAIN written : written[i] # v
    BY DEF CallsInv, Order, NotYetCommitted
  <2> QED BY <2>1, <1>1, <1>2, <1>6
<1>14. Puts(r) => \A i \in DOMAIN written : written[i] < r.call
  BY <1>1 DEF CallsInv, Order, WrittenBefore
<1>15. LaterWriteWins'
  <2> SUFFICES ASSUME NEW i \in DOMAIN written', NEW j \in DOMAIN written', i < j
               PROVE  written'[i] < written'[j]
    BY DEF LaterWriteWins
  <2>1. i \in DOMAIN written /\ written'[i] = written[i]
    BY <1>6
  <2> QED BY <2>1, <1>6, <1>14 DEF CallsInv, Order, LaterWriteWins
<1> QED BY <1>7, <1>8, <1>9, <1>10, <1>12, <1>13, <1>15 DEF CallsInv, Order

(* After a crash nothing waits and nothing is queued.                       *)
LEMMA CrashKeepsOrder ==
  ASSUME CallsInv, Crash
  PROVE  CallsInv'
<1>1. \A w \in Calls : writes[w] \in Records
  BY DEF CallsInv, TypeInv, Calls
<1>2. \A w \in Calls : /\ writes'[w] \in Records
                       /\ writes'[w].waits = NoRequest
  BY <1>1 DEF Crash, Awaiting, Records
<1>3. writes' \in Seq(Records) /\ Len(writes') = Len(writes) /\ Calls' = Calls
  <2>1. writes' = [w \in 1..Len(writes) |-> writes'[w]] /\ Len(writes) \in Nat
        /\ Calls = 1..Len(writes)
    BY DEF Crash, Calls, CallsInv, TypeInv
  <2> QED BY <1>2, <2>1 DEF Calls
<1>4. inbox' = <<>> /\ written' = written
  BY DEF Crash
<1>5. PICK n \in 0..Len(pipe) : pipe' = SubSeq(pipe, 1, n)
  BY DEF Crash
<1>6. /\ pipe' \in Seq([request : Requests, ok : BOOLEAN])
      /\ \A i \in DOMAIN pipe' : i \in DOMAIN pipe /\ pipe'[i] = pipe[i]
  <2> DEFINE Lines == [request : Requests, ok : BOOLEAN]
  <2>1. pipe \in Seq(Lines)
    BY DEF CallsInv, TypeInv
  <2> HIDE DEF Lines
  <2>2. /\ pipe' \in Seq(Lines)
        /\ \A i \in DOMAIN pipe' : i \in DOMAIN pipe /\ pipe'[i] = pipe[i]
    BY <1>5, <2>1, Prefix
  <2> QED BY <2>2 DEF Lines
<1>7. TypeInv' /\ Known'
  BY <1>3, <1>4, <1>6 DEF TypeInv, Known, CallsInv, Order
<1>8. OneWaits' /\ NotYetCommitted' /\ QueueInOrder' /\ WrittenBefore' /\ LaterWriteWins'
  BY <1>2, <1>3, <1>4, NoRequestIs
     DEF OneWaits, NotYetCommitted, QueueInOrder, WrittenBefore, LaterWriteWins, CallsInv, Order
<1> QED BY <1>7, <1>8 DEF CallsInv, Order

-----------------------------------------------------------------------------
LEMMA CallsStep == CallsInv /\ [TransferNext]_transferVars => CallsInv'
<1> SUFFICES ASSUME CallsInv, [TransferNext]_transferVars
             PROVE  CallsInv'
  OBVIOUS
<1>1. ASSUME NEW shape \in Shapes, Call(shape)
      PROVE  CallsInv'
  BY <1>1, CallKeepsOrder
<1>2. CASE HostHears
  <2> DEFINE r == Head(pipe).request
             w == r.call
  <2>1. /\ pipe # <<>> /\ pipe' = Tail(pipe) /\ written' = written
        /\ IF writes[w].waits # r THEN UNCHANGED <<writes, active, inbox>>
           ELSE IF Head(pipe).ok /\ r.op \in {"begin", "chunk"} THEN GoesOn(w)
           ELSE IF Head(pipe).ok THEN Returns(w, FALSE)
           ELSE GivesUp(w, FALSE)
    BY <1>2 DEF HostHears
  <2>2. /\ r \in Requests /\ w \in Calls
        /\ pipe' \in Seq([request : Requests, ok : BOOLEAN])
        /\ \A i \in DOMAIN pipe' : pipe'[i].request.call \in Calls
    <3>1. pipe \in Seq([request : Requests, ok : BOOLEAN])
      BY DEF CallsInv, TypeInv
    <3>2. /\ Head(pipe) = pipe[1] /\ 1 \in DOMAIN pipe
          /\ Head(pipe) \in [request : Requests, ok : BOOLEAN]
          /\ pipe' \in Seq([request : Requests, ok : BOOLEAN])
          /\ \A j \in DOMAIN pipe' : j + 1 \in DOMAIN pipe /\ pipe'[j] = pipe[j + 1]
      BY <2>1, <3>1, HeadAndTail
    <3>3. \A j \in DOMAIN pipe : pipe[j].request.call \in Calls
      BY DEF CallsInv, Order, Known
    <3> QED BY <3>2, <3>3
  <2> HIDE DEF r, w
  <2>3. CASE writes[w].waits # r
    BY <2>1, <2>2, <2>3
       DEF CallsInv, Order, TypeInv, Known, OneWaits, QueueInOrder, WrittenBefore,
           NotYetCommitted, LaterWriteWins, Puts, Calls
  <2>4. CASE writes[w].waits = r
    <3>1. writes[w].waits # NoRequest
      BY <2>2, <2>4, NoRequestIs
    <3>2. CASE GoesOn(w) /\ r.op \in {"begin", "chunk"}
      <4>1. writes[w].waits.n + 1 \in Nat
        BY <2>2, <2>4 DEF Requests
      <4>2. \/ Asks(w, "chunk", writes[w].waits.n + 1)
            \/ Asks(w, "commit", 0)
            \/ GivesUp(w, FALSE)
        BY <3>2 DEF GoesOn
      <4> QED BY <4>1, <4>2, <3>1, <3>2, <2>1, <2>2, <2>4, AskKeepsOrder, GiveUpKeepsOrder
    <3>3. CASE Returns(w, FALSE)
      BY <3>1, <3>3, <2>1, <2>2, ReturnKeepsOrder
    <3>4. CASE GivesUp(w, FALSE)
      BY <3>1, <3>4, <2>1, <2>2, GiveUpKeepsOrder
    <3> QED BY <2>1, <2>4, <3>2, <3>3, <3>4
  <2> QED BY <2>3, <2>4
<1>3. ASSUME NEW w \in Calls, TimesOut(w)
      PROVE  CallsInv'
  <2>1. (writes[w].waits.op \in {"write", "abort"}) \in BOOLEAN
    OBVIOUS
  <2>2. /\ writes[w].waits # NoRequest
        /\ GivesUp(w, writes[w].waits.op \in {"write", "abort"})
        /\ pipe' = pipe /\ written' = written
    BY <1>3 DEF TimesOut
  <2> QED BY <2>1, <2>2, GiveUpKeepsOrder DEF CallsInv, Order, TypeInv, Known
<1>4. CASE WriteInline
  BY <1>4, ServeKeepsOrder DEF WriteInline, Takes, Answers, Served, Puts
<1>5. CASE Begin
  BY <1>5, ServeKeepsOrder DEF Begin, Takes, Answers, Served
<1>6. CASE AppendChunk
  BY <1>6, ServeKeepsOrder DEF AppendChunk, Takes, Answers, Served
<1>7. CASE Commit
  BY <1>7, ServeKeepsOrder DEF Commit, Takes, Answers, Served, Puts
<1>8. CASE Abort
  BY <1>8, ServeKeepsOrder DEF Abort, Takes, Answers, Served
<1>9. CASE Expire \/ UNCHANGED transferVars
  BY <1>9 DEF Expire, transferVars, CallsInv, Order, TypeInv, Known, OneWaits, QueueInOrder,
              WrittenBefore, NotYetCommitted, LaterWriteWins, Puts, Calls
<1>10. CASE Crash
  BY <1>10, CrashKeepsOrder
<1> QED
  BY <1>1, <1>2, <1>3, <1>4, <1>5, <1>6, <1>7, <1>8, <1>9, <1>10 DEF TransferNext

(* Items reach the pasteboard in the order of the calls and once each,      *)
(* however many calls there are, whatever they carry and whichever requests *)
(* are served late: one call at a time, one queue, and an abort behind      *)
(* every commit that was given up (the transport and Pasteboard.queue).     *)
THEOREM WritesInOrder == TransferSpec => []LaterWriteWins
<1>1. TransferSpec => []CallsInv
  BY CallsInit, CallsStep, PTL DEF TransferSpec
<1>2. CallsInv => LaterWriteWins
  BY DEF CallsInv, Order
<1> QED BY <1>1, <1>2, PTL

-----------------------------------------------------------------------------
(* What the host can do of its own accord or on an answer.                  *)
LEMMA HostMoves ==
  ASSUME CallsInv, HostHears \/ \E w \in Calls : TimesOut(w)
  PROVE  /\ UNCHANGED <<upload, written>>
         /\ \A i \in DOMAIN pipe' : \E j \in DOMAIN pipe : pipe'[i] = pipe[j]
         /\ \/ UNCHANGED <<writes, active, inbox>>
            \/ \E w \in Calls, op \in {"chunk", "commit", "abort"}, n \in Nat :
                 /\ writes[w].waits # NoRequest
                 /\ op # "abort" => writes[w].waits.op \in {"begin", "chunk"}
                 /\ Asks(w, op, n)
            \/ \E w \in Calls, lost \in BOOLEAN :
                 /\ writes[w].waits.op \in {"write", "commit", "abort"}
                 /\ Returns(w, lost)
                 /\ ~lost => \E i \in DOMAIN pipe : pipe[i].request = writes[w].waits
<1>1. CASE HostHears
  <2> DEFINE r == Head(pipe).request
             w == r.call
  <2>1. /\ pipe # <<>> /\ pipe' = Tail(pipe) /\ UNCHANGED <<upload, written>>
        /\ IF writes[w].waits # r THEN UNCHANGED <<writes, active, inbox>>
           ELSE IF Head(pipe).ok /\ r.op \in {"begin", "chunk"} THEN GoesOn(w)
           ELSE IF Head(pipe).ok THEN Returns(w, FALSE)
           ELSE GivesUp(w, FALSE)
    BY <1>1 DEF HostHears
  <2>2. /\ r \in Requests /\ w \in Calls /\ r.op \in Ops /\ \E i \in DOMAIN pipe : pipe[i].request = r
        /\ \A i \in DOMAIN pipe' : \E j \in DOMAIN pipe : pipe'[i] = pipe[j]
    <3>1. pipe \in Seq([request : Requests, ok : BOOLEAN])
      BY DEF CallsInv, TypeInv
    <3>2. /\ Head(pipe) = pipe[1] /\ 1 \in DOMAIN pipe
          /\ Head(pipe) \in [request : Requests, ok : BOOLEAN]
          /\ \A j \in DOMAIN pipe' : j + 1 \in DOMAIN pipe /\ pipe'[j] = pipe[j + 1]
      BY <2>1, <3>1, HeadAndTail
    <3>3. \A j \in DOMAIN pipe : pipe[j].request.call \in Calls
      BY DEF CallsInv, Order, Known
    <3>4. r \in Requests
      BY <3>2
    <3> QED BY <3>2, <3>3, <3>4 DEF Requests
  <2> HIDE DEF r, w
  <2>3. CASE writes[w].waits # r
    BY <2>1, <2>2, <2>3
  <2>4. CASE writes[w].waits = r
    <3>1. writes[w].waits # NoRequest
      BY <2>2, <2>4, NoRequestIs
    <3>2. CASE GoesOn(w) /\ r.op \in {"begin", "chunk"}
      <4>1. writes[w].waits.n + 1 \in Nat
        BY <2>2, <2>4 DEF Requests
      <4>2. \/ Asks(w, "chunk", writes[w].waits.n + 1)
            \/ Asks(w, "commit", 0)
            \/ Asks(w, "abort", 0)
        BY <3>2, <2>4 DEF GoesOn, GivesUp
      <4> QED BY <4>1, <4>2, <3>1, <3>2, <2>1, <2>2, <2>4
    <3>3. CASE Returns(w, FALSE) /\ r.op \notin {"begin", "chunk"}
      BY <3>1, <3>3, <2>1, <2>2, <2>4 DEF Ops
    <3>4. CASE GivesUp(w, FALSE)
      <4>1. CASE r.op \in {"write", "abort"}
        BY <3>4, <4>1, <2>1, <2>2, <2>4 DEF GivesUp
      <4>2. CASE r.op \notin {"write", "abort"}
        BY <3>1, <3>4, <4>2, <2>1, <2>2, <2>4 DEF GivesUp
      <4> QED BY <4>1, <4>2
    <3> QED BY <2>1, <2>4, <3>2, <3>3, <3>4
  <2> QED BY <2>3, <2>4
<1>2. ASSUME NEW w \in Calls, TimesOut(w)
      PROVE  /\ UNCHANGED <<upload, written, pipe>> /\ writes[w].waits # NoRequest
             /\ \/ writes[w].waits.op \in {"write", "abort"} /\ Returns(w, TRUE)
                \/ Asks(w, "abort", 0)
  BY <1>2 DEF TimesOut, GivesUp
<1> QED BY <1>1, <1>2

-----------------------------------------------------------------------------
(* The requests after which the host may take a call for ended.             *)
LastOfCall(r) == r.op \in {"write", "commit", "abort"}

(* A call that still uploads has asked for none of them.                    *)
NotYetEnding ==
  \A w \in Calls : writes[w].waits.op \in {"begin", "chunk"} =>
    /\ \A j \in DOMAIN inbox : inbox[j].call = w => ~LastOfCall(inbox[j])
    /\ \A i \in DOMAIN pipe : pipe[i].request.call = w => ~LastOfCall(pipe[i].request)

(* What puts an item on the pasteboard is behind nothing that ends its call.*)
EndsComeLast ==
  \A i, j \in DOMAIN inbox :
    i < j /\ LastOfCall(inbox[i]) /\ Puts(inbox[j]) => inbox[i].call # inbox[j].call

(* ... and is not in the queue any more when that has been answered,        *)
AnsweredLast ==
  \A i \in DOMAIN pipe, j \in DOMAIN inbox :
    LastOfCall(pipe[i].request) /\ Puts(inbox[j]) => pipe[i].request.call # inbox[j].call

(* ... so that an ended call has nothing in the queue that could.           *)
EndedPutsNothing ==
  \A w \in Calls : Ended(w) => \A j \in DOMAIN inbox : inbox[j].call = w => ~Puts(inbox[j])

EndInv == NotYetEnding /\ EndsComeLast /\ AnsweredLast /\ EndedPutsNothing

LEMMA CallKeepsEnd ==
  ASSUME CallsInv, EndInv, NEW shape \in Shapes, Call(shape)
  PROVE  EndInv'
<1> DEFINE w == Len(writes) + 1
           op == IF shape = <<>> THEN "write" ELSE "begin"
           r == Request(w, op, 0)
           new == Awaiting(shape, r, FALSE)
<1>1. TypeInv /\ Len(writes) \in Nat /\ w \in Nat
  BY DEF CallsInv, TypeInv
<1>2. r \in Requests /\ r.call = w /\ r.op \in {"write", "begin"}
  BY <1>1, RequestType DEF Ops
<1>3. new \in Records /\ new.waits = r
  BY <1>2 DEF Records, Awaiting
<1>4. writes' = Append(writes, new) /\ inbox' = Append(inbox, r) /\ pipe' = pipe
  BY DEF Call
<1>5. ~active
  BY DEF Call, MayStart
<1> HIDE DEF w, op, r, new
<1>6. /\ Calls' = Calls \cup {w} /\ w \notin Calls /\ writes'[w] = new
      /\ \A v \in Calls : writes'[v] = writes[v]
  BY <1>1, <1>3, <1>4 DEF TypeInv, Calls, w
<1>7. /\ DOMAIN inbox = 1..Len(inbox) /\ Len(inbox) \in Nat /\ DOMAIN inbox' = 1..(Len(inbox) + 1)
      /\ inbox'[Len(inbox) + 1] = r /\ \A j \in DOMAIN inbox : inbox'[j] = inbox[j]
  BY <1>1, <1>2, <1>4 DEF TypeInv
<1>8. /\ \A j \in DOMAIN inbox : inbox[j].call # w
      /\ \A i \in DOMAIN pipe : pipe[i].request.call # w
  BY <1>6 DEF CallsInv, Order, Known
<1>9. \A v \in Calls : writes[v].waits = NoRequest
  BY <1>5 DEF CallsInv, Order, OneWaits
<1>10. NotYetEnding'
  <2>1. \A v \in Calls : writes'[v].waits.op \notin {"begin", "chunk"}
    BY <1>6, <1>9, NoRequestIs
  <2>2. \A j \in DOMAIN inbox' : inbox'[j].call = w => inbox'[j] = r
    BY <1>7, <1>8
  <2>3. writes'[w].waits.op \in {"begin", "chunk"} => ~LastOfCall(r)
    BY <1>2, <1>3, <1>6 DEF LastOfCall
  <2> QED BY <1>4, <1>6, <1>8, <2>1, <2>2, <2>3 DEF NotYetEnding, LastOfCall
<1>11. EndsComeLast'
  <2> SUFFICES ASSUME NEW i \in DOMAIN inbox', NEW j \in DOMAIN inbox', i < j,
                      LastOfCall(inbox'[i]), Puts(inbox'[j])
               PROVE  inbox'[i].call # inbox'[j].call
    BY DEF EndsComeLast, LastOfCall, Puts
  <2>1. i \in DOMAIN inbox /\ inbox'[i] = inbox[i]
    BY <1>7
  <2>2. CASE j \in DOMAIN inbox
    BY <1>7, <2>1, <2>2 DEF EndInv, EndsComeLast
  <2>3. CASE j = Len(inbox) + 1
    BY <1>2, <1>7, <1>8, <2>1, <2>3
  <2> QED BY <1>7, <2>2, <2>3
<1>12. AnsweredLast'
  BY <1>2, <1>4, <1>7, <1>8 DEF EndInv, AnsweredLast, LastOfCall, Puts
<1>13. EndedPutsNothing'
  <2>1. \A v \in {w} : ~Ended(v)'
    BY <1>2, <1>3, <1>6, NoRequestIs DEF Ended
  <2>2. ASSUME NEW v \in Calls, Ended(v)', NEW j \in DOMAIN inbox', inbox'[j].call = v
        PROVE  ~Puts(inbox'[j])
    <3>1. j \in DOMAIN inbox /\ Ended(v)
      BY <1>2, <1>6, <1>7, <2>2 DEF Ended
    <3> QED BY <1>7, <2>2, <3>1 DEF EndInv, EndedPutsNothing
  <2> QED BY <1>6, <2>1, <2>2 DEF EndedPutsNothing, Puts
<1> QED BY <1>10, <1>11, <1>12, <1>13 DEF EndInv

(* The host asks for one thing more.                                        *)
LEMMA AskKeepsEnd ==
  ASSUME CallsInv, EndInv, NEW w \in Calls, NEW op \in {"chunk", "commit", "abort"}, NEW n \in Nat,
         writes[w].waits # NoRequest,
         op # "abort" => writes[w].waits.op \in {"begin", "chunk"},
         Asks(w, op, n),
         \A i \in DOMAIN pipe' : \E j \in DOMAIN pipe : pipe'[i] = pipe[j]
  PROVE  EndInv'
<1> DEFINE r == Request(w, op, n)
<1>1. w \in Nat /\ TypeInv
  BY DEF CallsInv, Calls, TypeInv
<1>2. r \in Requests /\ r.call = w /\ r.op = op /\ r # NoRequest
  BY <1>1, RequestType, NoRequestIs DEF Ops
<1>3. Proceeds(w, r, FALSE) /\ inbox' = Append(inbox, r)
  BY DEF Asks
<1> HIDE DEF r
<1>4. /\ Calls' = Calls /\ writes'[w].waits = r
      /\ \A v \in Calls : v # w => writes'[v] = writes[v]
  BY <1>1, <1>2, <1>3, OneCallChanges
<1>5. /\ DOMAIN inbox = 1..Len(inbox) /\ Len(inbox) \in Nat /\ DOMAIN inbox' = 1..(Len(inbox) + 1)
      /\ inbox'[Len(inbox) + 1] = r /\ \A j \in DOMAIN inbox : inbox'[j] = inbox[j]
  BY <1>1, <1>2, <1>3 DEF TypeInv
<1>6. op # "abort" => /\ \A j \in DOMAIN inbox : inbox[j].call = w => ~LastOfCall(inbox[j])
                      /\ \A i \in DOMAIN pipe : pipe[i].request.call = w => ~LastOfCall(pipe[i].request)
  BY DEF EndInv, NotYetEnding
<1>7. NotYetEnding'
  <2> SUFFICES ASSUME NEW v \in Calls, writes'[v].waits.op \in {"begin", "chunk"}
               PROVE  /\ \A j \in DOMAIN inbox' : inbox'[j].call = v => ~LastOfCall(inbox'[j])
                      /\ \A i \in DOMAIN pipe' : pipe'[i].request.call = v => ~LastOfCall(pipe'[i].request)
    BY <1>4 DEF NotYetEnding, LastOfCall
  <2>1. CASE v = w
    <3>1. op = "chunk" /\ ~LastOfCall(r)
      BY <1>2, <1>4, <2>1 DEF LastOfCall
    <3> QED BY <1>5, <1>6, <2>1, <3>1
  <2>2. CASE v # w
    <3>1. /\ \A j \in DOMAIN inbox : inbox[j].call = v => ~LastOfCall(inbox[j])
          /\ \A i \in DOMAIN pipe : pipe[i].request.call = v => ~LastOfCall(pipe[i].request)
      BY <1>4, <2>2 DEF EndInv, NotYetEnding
    <3> QED BY <1>2, <1>5, <2>2, <3>1
  <2> QED BY <2>1, <2>2
<1>8. Puts(r) => op # "abort"
  BY <1>2 DEF Puts
<1>9. EndsComeLast'
  <2> SUFFICES ASSUME NEW i \in DOMAIN inbox', NEW j \in DOMAIN inbox', i < j,
                      LastOfCall(inbox'[i]), Puts(inbox'[j])
               PROVE  inbox'[i].call # inbox'[j].call
    BY DEF EndsComeLast, LastOfCall, Puts
  <2>1. i \in DOMAIN inbox /\ inbox'[i] = inbox[i]
    BY <1>5
  <2>2. CASE j \in DOMAIN inbox
    BY <1>5, <2>1, <2>2 DEF EndInv, EndsComeLast
  <2>3. CASE j = Len(inbox) + 1
    BY <1>2, <1>5, <1>6, <1>8, <2>1, <2>3
  <2> QED BY <1>5, <2>2, <2>3
<1>10. AnsweredLast'
  <2> SUFFICES ASSUME NEW i \in DOMAIN pipe, NEW j \in DOMAIN inbox', LastOfCall(pipe[i].request), Puts(inbox'[j])
               PROVE  pipe[i].request.call # inbox'[j].call
    BY DEF AnsweredLast, LastOfCall, Puts
  <2>1. CASE j \in DOMAIN inbox
    BY <1>5, <2>1 DEF EndInv, AnsweredLast
  <2>2. CASE j = Len(inbox) + 1
    BY <1>2, <1>5, <1>6, <1>8, <2>2
  <2> QED BY <1>5, <2>1, <2>2
<1>11. EndedPutsNothing'
  <2> SUFFICES ASSUME NEW v \in Calls, Ended(v)', NEW j \in DOMAIN inbox', inbox'[j].call = v
               PROVE  ~Puts(inbox'[j])
    BY <1>4 DEF EndedPutsNothing, Puts
  <2>1. v # w
    BY <1>2, <1>4 DEF Ended
  <2>2. Ended(v) /\ j \in DOMAIN inbox
    BY <1>2, <1>4, <1>5, <2>1 DEF Ended
  <2> QED BY <1>5, <2>2 DEF EndInv, EndedPutsNothing
<1> QED BY <1>7, <1>9, <1>10, <1>11 DEF EndInv

(* The host takes the call for ended: it has the answer, or it has lost it. *)
LEMMA ReturnKeepsEnd ==
  ASSUME CallsInv, EndInv, NEW w \in Calls, NEW lost \in BOOLEAN,
         writes[w].waits.op \in {"write", "commit", "abort"},
         Returns(w, lost),
         ~lost => \E i \in DOMAIN pipe : pipe[i].request = writes[w].waits,
         \A i \in DOMAIN pipe' : \E j \in DOMAIN pipe : pipe'[i] = pipe[j]
  PROVE  EndInv'
<1>1. Proceeds(w, NoRequest, lost) /\ inbox' = inbox
  BY DEF Returns
<1>2. /\ Calls' = Calls /\ writes'[w].waits = NoRequest /\ writes'[w].lost = lost
      /\ \A v \in Calls : v # w => writes'[v] = writes[v]
  <2>1. writes'[w].lost = lost
    <3>1. writes \in Seq(Records) /\ w \in DOMAIN writes
      BY DEF CallsInv, TypeInv, Calls
    <3>2. writes'[w] = Awaiting(writes[w].shape, NoRequest, lost)
      BY <1>1, <3>1 DEF Proceeds
    <3> QED BY <3>2 DEF Awaiting
  <2> QED BY <1>1, <2>1, OneCallChanges DEF CallsInv
<1>3. NotYetEnding'
  <2>1. writes'[w].waits.op \notin {"begin", "chunk"}
    BY <1>2, NoRequestIs
  <2> QED BY <1>1, <1>2, <2>1 DEF EndInv, NotYetEnding, LastOfCall
<1>4. EndsComeLast' /\ AnsweredLast'
  BY <1>1 DEF EndInv, EndsComeLast, AnsweredLast, LastOfCall, Puts
<1>5. EndedPutsNothing'
  <2> SUFFICES ASSUME NEW v \in Calls, Ended(v)', NEW j \in DOMAIN inbox, inbox[j].call = v, Puts(inbox[j])
               PROVE  FALSE
    BY <1>1, <1>2 DEF EndedPutsNothing, Puts
  <2>1. CASE v = w
    <3>1. PICK i \in DOMAIN pipe : pipe[i].request = writes[w].waits
      BY <1>2, <2>1 DEF Ended
    <3>2. LastOfCall(pipe[i].request)
      BY <3>1 DEF LastOfCall
    <3>3. pipe[i].request.call = w
      BY <3>1, NoRequestIs DEF CallsInv, Order, OneWaits
    <3> QED BY <2>1, <3>2, <3>3 DEF EndInv, AnsweredLast
  <2>2. CASE v # w
    BY <1>2, <2>2 DEF EndInv, EndedPutsNothing, Ended
  <2> QED BY <2>1, <2>2
<1> QED BY <1>3, <1>4, <1>5 DEF EndInv

(* The agent serves a request.                                              *)
LEMMA ServeKeepsEnd ==
  ASSUME CallsInv, EndInv, inbox # <<>>, inbox' = Tail(inbox), NEW ok \in BOOLEAN,
         pipe' = Append(pipe, [request |-> Head(inbox), ok |-> ok]),
         UNCHANGED writes
  PROVE  EndInv'
<1> DEFINE r == Head(inbox)
           line == [request |-> r, ok |-> ok]
           Answer == [request : Requests, ok : BOOLEAN]
<1>1. /\ TypeInv /\ r = inbox[1] /\ 1 \in DOMAIN inbox /\ r \in Requests
      /\ \A j \in DOMAIN inbox' : j \in Nat /\ 1 < j + 1 /\ j + 1 \in DOMAIN inbox /\ inbox'[j] = inbox[j + 1]
  <2>1. TypeInv /\ inbox \in Seq(Requests)
    BY DEF CallsInv, TypeInv
  <2> QED BY <2>1, HeadAndTail
<1>2. line \in Answer /\ line.request = r /\ pipe \in Seq(Answer) /\ pipe' = Append(pipe, line)
  BY <1>1 DEF TypeInv
<1> HIDE DEF r, line, Answer
<1>3. \A i \in DOMAIN pipe' : \/ i \in DOMAIN pipe /\ pipe'[i] = pipe[i]
                              \/ pipe'[i].request = r
  BY <1>2, Extend
<1>4. NotYetEnding'
  <2> SUFFICES ASSUME NEW w \in Calls, writes[w].waits.op \in {"begin", "chunk"}
               PROVE  /\ \A j \in DOMAIN inbox' : inbox'[j].call = w => ~LastOfCall(inbox'[j])
                      /\ \A i \in DOMAIN pipe' : pipe'[i].request.call = w => ~LastOfCall(pipe'[i].request)
    BY DEF NotYetEnding, LastOfCall, Calls
  <2>1. /\ \A j \in DOMAIN inbox : inbox[j].call = w => ~LastOfCall(inbox[j])
        /\ \A i \in DOMAIN pipe : pipe[i].request.call = w => ~LastOfCall(pipe[i].request)
    BY DEF EndInv, NotYetEnding
  <2> QED BY <1>1, <1>3, <2>1
<1>5. EndsComeLast'
  <2> SUFFICES ASSUME NEW i \in DOMAIN inbox', NEW j \in DOMAIN inbox', i < j,
                      LastOfCall(inbox'[i]), Puts(inbox'[j])
               PROVE  inbox'[i].call # inbox'[j].call
    BY DEF EndsComeLast, LastOfCall, Puts
  <2>1. i + 1 < j + 1
    BY <1>1
  <2> QED BY <1>1, <2>1 DEF EndInv, EndsComeLast
<1>6. LastOfCall(r) => \A j \in DOMAIN inbox' : Puts(inbox'[j]) => r.call # inbox'[j].call
  BY <1>1 DEF EndInv, EndsComeLast
<1>7. AnsweredLast'
  <2> SUFFICES ASSUME NEW i \in DOMAIN pipe', NEW j \in DOMAIN inbox', LastOfCall(pipe'[i].request), Puts(inbox'[j])
               PROVE  pipe'[i].request.call # inbox'[j].call
    BY DEF AnsweredLast, LastOfCall, Puts
  <2>1. CASE pipe'[i].request = r
    BY <1>6, <2>1
  <2>2. CASE i \in DOMAIN pipe /\ pipe'[i] = pipe[i]
    BY <1>1, <2>2 DEF EndInv, AnsweredLast
  <2> QED BY <1>3, <2>1, <2>2
<1>8. EndedPutsNothing'
  BY <1>1 DEF EndInv, EndedPutsNothing, Ended, Calls, Puts
<1> QED BY <1>4, <1>5, <1>7, <1>8 DEF EndInv

LEMMA CrashKeepsEnd ==
  ASSUME CallsInv, EndInv, Crash
  PROVE  EndInv'
<1>1. inbox' = <<>>
  BY DEF Crash
<1>2. \A w \in Calls' : w \in Calls /\ writes'[w].waits = NoRequest
  BY DEF Crash, Calls, Awaiting
<1> QED BY <1>1, <1>2, NoRequestIs
        DEF EndInv, NotYetEnding, EndsComeLast, AnsweredLast, EndedPutsNothing

(* Everything the agent does with a request.                                *)
Serves ==
  /\ inbox # <<>> /\ inbox' = Tail(inbox) /\ UNCHANGED <<writes, active>>
  /\ \E ok \in BOOLEAN : pipe' = Append(pipe, [request |-> Head(inbox), ok |-> ok])

LEMMA AgentServes ==
  ASSUME CallsInv, WriteInline \/ Begin \/ AppendChunk \/ Commit \/ Abort
  PROVE  /\ Serves
         /\ \/ written' = written
            \/ Puts(Head(inbox)) /\ written' = Append(written, Head(inbox).call)
<1>1. CASE WriteInline
  BY <1>1 DEF WriteInline, Takes, Answers, Served, Serves, Puts
<1>2. CASE Begin
  BY <1>2 DEF Begin, Takes, Answers, Served, Serves
<1>3. CASE AppendChunk
  BY <1>3 DEF AppendChunk, Takes, Answers, Served, Serves, Found
<1>4. CASE Commit
  BY <1>4 DEF Commit, Takes, Answers, Served, Serves, Found, Puts
<1>5. CASE Abort
  BY <1>5 DEF Abort, Takes, Answers, Served, Serves
<1> QED BY <1>1, <1>2, <1>3, <1>4, <1>5

LEMMA EndStep == CallsInv /\ EndInv /\ [TransferNext]_transferVars => EndInv'
<1> SUFFICES ASSUME CallsInv, EndInv, [TransferNext]_transferVars
             PROVE  EndInv'
  OBVIOUS
<1>1. CASE \E shape \in Shapes : Call(shape)
  BY <1>1, CallKeepsEnd
<1>2. CASE HostHears \/ \E w \in Calls : TimesOut(w)
  <2>1. CASE UNCHANGED <<writes, active, inbox>>
    <3>1. \A i \in DOMAIN pipe' : \E j \in DOMAIN pipe : pipe'[i] = pipe[j]
      BY <1>2, HostMoves
    <3> QED BY <2>1, <3>1 DEF EndInv, NotYetEnding, EndsComeLast, AnsweredLast, EndedPutsNothing,
                              Ended, Calls, LastOfCall, Puts
  <2>2. CASE ~UNCHANGED <<writes, active, inbox>>
    BY <1>2, <2>2, HostMoves, AskKeepsEnd, ReturnKeepsEnd
  <2> QED BY <2>1, <2>2
<1>3. CASE WriteInline \/ Begin \/ AppendChunk \/ Commit \/ Abort
  BY <1>3, AgentServes, ServeKeepsEnd DEF Serves
<1>4. CASE Expire \/ UNCHANGED transferVars
  BY <1>4 DEF Expire, transferVars, EndInv, NotYetEnding, EndsComeLast, AnsweredLast, EndedPutsNothing,
              Ended, Calls, LastOfCall, Puts
<1>5. CASE Crash
  BY <1>5, CrashKeepsEnd
<1> QED BY <1>1, <1>2, <1>3, <1>4, <1>5 DEF TransferNext

(* A call the transport has reported on is over: if its item was not on the *)
(* pasteboard by then, it never gets there, as the abort stood behind       *)
(* whatever the call had still in the queue (the `finally' of the transport).*)
THEOREM NothingAfterTheEnd == TransferSpec => NoEffectAfterTheEnd
<1>1. TransferInit => EndInv
  BY DEF TransferInit, EndInv, NotYetEnding, EndsComeLast, AnsweredLast, EndedPutsNothing, Calls
<1>2. TransferSpec => []CallsInv
  BY CallsInit, CallsStep, PTL DEF TransferSpec
<1>3. TransferSpec => []EndInv
  BY <1>1, <1>2, EndStep, PTL DEF TransferSpec
<1>4. CallsInv /\ EndInv /\ [TransferNext]_transferVars =>
        [\A w \in Calls : Ended(w) /\ w \notin ToSet(written) => w \notin ToSet(written')]_transferVars
  <2> SUFFICES ASSUME CallsInv, EndInv, [TransferNext]_transferVars, NEW w \in Calls, Ended(w),
                      w \notin ToSet(written), w \in ToSet(written')
               PROVE  FALSE
    OBVIOUS
  <2>1. written' # written
    OBVIOUS
  <2>2. WriteInline \/ Begin \/ AppendChunk \/ Commit \/ Abort
    BY <2>1, HostMoves DEF TransferNext, Call, Expire, Crash, transferVars
  <2>3. Serves /\ Puts(Head(inbox)) /\ written' = Append(written, Head(inbox).call)
    BY <2>1, <2>2, AgentServes
  <2>4. Head(inbox) = inbox[1] /\ 1 \in DOMAIN inbox /\ Head(inbox).call \in Nat /\ written \in Seq(Nat)
    <3>1. inbox \in Seq(Requests) /\ inbox # <<>> /\ written \in Seq(Nat)
      BY <2>3 DEF Serves, CallsInv, TypeInv
    <3>2. Head(inbox) = inbox[1] /\ 1 \in DOMAIN inbox /\ Head(inbox) \in Requests
      BY <3>1, HeadAndTail
    <3> QED BY <3>1, <3>2 DEF Requests
  <2>5. Head(inbox).call = w
    BY <2>3, <2>4, Extend DEF ToSet
  <2> QED BY <2>3, <2>4, <2>5 DEF EndInv, EndedPutsNothing
<1> QED BY <1>2, <1>3, <1>4, PTL DEF NoEffectAfterTheEnd, TransferSpec

-----------------------------------------------------------------------------
(* What ends the agent's hold on the upload of a call.                      *)
Closes(r, w) == r.op \in {"commit", "abort"} /\ r.call = w

UploadTypes ==
  /\ upload = [call |-> upload.call, sequences |-> upload.sequences]
  /\ upload # NoUpload => upload.call \in Calls

(* Whatever the agent holds or will begin of a call, something behind it in *)
(* the queue closes.                                                        *)
ClosingAhead(w) ==
  /\ \A i \in DOMAIN inbox : inbox[i].op = "begin" /\ inbox[i].call = w =>
       \E j \in DOMAIN inbox : i < j /\ Closes(inbox[j], w)
  /\ upload.call = w => \E j \in DOMAIN inbox : Closes(inbox[j], w)

(* That is so of every call that no longer uploads,                         *)
LeavesNothing ==
  \A w \in Calls : writes[w].waits.op \notin {"begin", "chunk"} => ClosingAhead(w)

(* ... and in front of every later `begin'.                                 *)
ClearedFirst ==
  \A k \in DOMAIN inbox : inbox[k].op = "begin" =>
    /\ \A i \in DOMAIN inbox : i < k /\ inbox[i].op = "begin" =>
         \E j \in DOMAIN inbox : i < j /\ j < k /\ Closes(inbox[j], inbox[i].call)
    /\ upload # NoUpload => \E j \in DOMAIN inbox : j < k /\ Closes(inbox[j], upload.call)

UploadInv == UploadTypes /\ LeavesNothing /\ ClearedFirst

(* A request at the end of the queue opens nothing for the others.          *)
LEMMA CallKeepsUpload ==
  ASSUME CallsInv, UploadInv, NEW shape \in Shapes, Call(shape)
  PROVE  UploadInv'
<1> DEFINE w == Len(writes) + 1
           op == IF shape = <<>> THEN "write" ELSE "begin"
           r == Request(w, op, 0)
           new == Awaiting(shape, r, FALSE)
<1>1. TypeInv /\ Len(writes) \in Nat /\ w \in Nat
  BY DEF CallsInv, TypeInv
<1>2. r \in Requests /\ r.call = w /\ r.op \in {"write", "begin"} /\ r.op = op
  BY <1>1, RequestType DEF Ops
<1>3. new \in Records /\ new.waits = r
  BY <1>2 DEF Records, Awaiting
<1>4. writes' = Append(writes, new) /\ inbox' = Append(inbox, r) /\ upload' = upload
  BY DEF Call
<1>5. ~active
  BY DEF Call, MayStart
<1> HIDE DEF w, op, r, new
<1>6. /\ Calls' = Calls \cup {w} /\ w \notin Calls /\ writes'[w] = new /\ w # 0
      /\ \A v \in Calls : writes'[v] = writes[v]
  BY <1>1, <1>3, <1>4 DEF TypeInv, Calls, w
<1>7. /\ DOMAIN inbox = 1..Len(inbox) /\ Len(inbox) \in Nat /\ DOMAIN inbox' = 1..(Len(inbox) + 1)
      /\ inbox'[Len(inbox) + 1] = r /\ \A j \in DOMAIN inbox : inbox'[j] = inbox[j] /\ inbox[j].call # w
  BY <1>1, <1>2, <1>4, <1>6 DEF TypeInv, CallsInv, Order, Known
<1>8. upload = NoUpload \/ upload.call \in Calls
  BY DEF UploadInv, UploadTypes
<1>9. UploadTypes'
  BY <1>4, <1>6 DEF UploadInv, UploadTypes
<1>10. \A v \in Calls : ClosingAhead(v)
  BY <1>5, NoRequestIs DEF CallsInv, Order, OneWaits, UploadInv, LeavesNothing
<1>11. \A v \in Calls : ClosingAhead(v)'
  <2> SUFFICES ASSUME NEW v \in Calls
               PROVE  ClosingAhead(v)'
    OBVIOUS
  <2>1. ClosingAhead(v) /\ v # w
    BY <1>6, <1>10
  <2> QED BY <1>2, <1>4, <1>7, <2>1 DEF ClosingAhead, Closes
<1>12. r.op = "write" => \A v \in {w} : ClosingAhead(v)'
  <2>1. upload.call # w
    BY <1>6, <1>8 DEF NoUpload
  <2> QED BY <1>2, <1>4, <1>7, <2>1 DEF ClosingAhead
<1>13. LeavesNothing'
  BY <1>2, <1>3, <1>6, <1>11, <1>12 DEF LeavesNothing
<1>14. ClearedFirst'
  <2> SUFFICES ASSUME NEW k \in DOMAIN inbox', inbox'[k].op = "begin"
               PROVE  /\ \A i \in DOMAIN inbox' : i < k /\ inbox'[i].op = "begin" =>
                           \E j \in DOMAIN inbox' : i < j /\ j < k /\ Closes(inbox'[j], inbox'[i].call)
                      /\ upload # NoUpload => \E j \in DOMAIN inbox' : j < k /\ Closes(inbox'[j], upload.call)
    BY <1>4 DEF ClearedFirst, Closes
  <2>1. CASE k \in DOMAIN inbox
    BY <1>7, <2>1 DEF UploadInv, ClearedFirst
  <2>2. CASE k = Len(inbox) + 1
    <3>1. ASSUME NEW i \in DOMAIN inbox, inbox[i].op = "begin"
          PROVE  \E j \in DOMAIN inbox : i < j /\ Closes(inbox[j], inbox[i].call)
      <4>1. inbox[i].call \in Calls
        BY DEF CallsInv, Order, Known
      <4> QED BY <1>10, <3>1, <4>1 DEF ClosingAhead
    <3>2. upload # NoUpload => \E j \in DOMAIN inbox : Closes(inbox[j], upload.call)
      BY <1>8, <1>10 DEF ClosingAhead
    <3> QED BY <1>7, <2>2, <3>1, <3>2
  <2> QED BY <1>7, <2>1, <2>2
<1> QED BY <1>9, <1>13, <1>14 DEF UploadInv

LEMMA AskKeepsUpload ==
  ASSUME CallsInv, UploadInv, NEW w \in Calls, NEW op \in {"chunk", "commit", "abort"}, NEW n \in Nat,
         Asks(w, op, n), UNCHANGED upload
  PROVE  UploadInv'
<1> DEFINE r == Request(w, op, n)
<1>1. w \in Nat /\ TypeInv
  BY DEF CallsInv, Calls, TypeInv
<1>2. r \in Requests /\ r.call = w /\ r.op = op
  BY <1>1, RequestType DEF Ops
<1>3. Proceeds(w, r, FALSE) /\ inbox' = Append(inbox, r)
  BY DEF Asks
<1> HIDE DEF r
<1>4. /\ Calls' = Calls /\ writes'[w].waits = r
      /\ \A v \in Calls : v # w => writes'[v] = writes[v]
  BY <1>1, <1>2, <1>3, OneCallChanges
<1>5. /\ DOMAIN inbox = 1..Len(inbox) /\ Len(inbox) \in Nat /\ DOMAIN inbox' = 1..(Len(inbox) + 1)
      /\ inbox'[Len(inbox) + 1] = r /\ \A j \in DOMAIN inbox : inbox'[j] = inbox[j]
  BY <1>1, <1>2, <1>3 DEF TypeInv
<1>6. UploadTypes'
  BY <1>4 DEF UploadInv, UploadTypes
<1>7. LeavesNothing'
  <2> SUFFICES ASSUME NEW v \in Calls, writes'[v].waits.op \notin {"begin", "chunk"}
               PROVE  ClosingAhead(v)'
    BY <1>4 DEF LeavesNothing
  <2>1. CASE v = w
    <3>1. Closes(r, w)
      BY <1>2, <1>4, <2>1 DEF Closes
    <3> QED BY <1>2, <1>5, <2>1, <3>1 DEF ClosingAhead, Closes
  <2>2. CASE v # w
    <3>1. ClosingAhead(v)
      BY <1>4, <2>2 DEF UploadInv, LeavesNothing
    <3> QED BY <1>2, <1>5, <2>2, <3>1 DEF ClosingAhead, Closes
  <2> QED BY <2>1, <2>2
<1>8. ClearedFirst'
  <2>1. \A k \in DOMAIN inbox' : inbox'[k].op = "begin" => k \in DOMAIN inbox
    BY <1>2, <1>5
  <2> QED BY <1>5, <2>1 DEF UploadInv, ClearedFirst, Closes
<1> QED BY <1>6, <1>7, <1>8 DEF UploadInv

LEMMA ReturnKeepsUpload ==
  ASSUME CallsInv, UploadInv, NEW w \in Calls, NEW lost \in BOOLEAN,
         writes[w].waits.op \in {"write", "commit", "abort"},
         Returns(w, lost), UNCHANGED upload
  PROVE  UploadInv'
<1>1. Proceeds(w, NoRequest, lost) /\ inbox' = inbox
  BY DEF Returns
<1>2. Calls' = Calls /\ \A v \in Calls : v # w => writes'[v] = writes[v]
  BY <1>1, OneCallChanges DEF CallsInv
<1>3. \A v : ClosingAhead(v)' = ClosingAhead(v)
  BY <1>1 DEF ClosingAhead, Closes
<1>4. LeavesNothing'
  BY <1>2, <1>3 DEF UploadInv, LeavesNothing
<1> QED BY <1>1, <1>2, <1>4 DEF UploadInv, UploadTypes, ClearedFirst, Closes

(* What serving a request does to the upload.                               *)
LEMMA ServedUpload ==
  ASSUME CallsInv, UploadInv, WriteInline \/ Begin \/ AppendChunk \/ Commit \/ Abort
  PROVE  /\ UploadTypes'
         /\ \/ upload' = NoUpload
            \/ /\ upload # NoUpload /\ upload'.call = upload.call
               /\ ~Closes(Head(inbox), upload.call)
            \/ /\ upload = NoUpload /\ Head(inbox).op = "begin"
               /\ upload'.call = Head(inbox).call
<1>1. /\ upload = [call |-> upload.call, sequences |-> upload.sequences]
      /\ upload # NoUpload => upload.call \in Calls
  BY DEF UploadInv, UploadTypes
<1>2. Calls' = Calls /\ Head(inbox).call \in Calls
  <2>1. Serves /\ inbox \in Seq(Requests)
    BY AgentServes DEF CallsInv, TypeInv
  <2> QED BY <2>1, HeadAndTail DEF Serves, Calls, CallsInv, Order, Known
<1>3. CASE WriteInline
  BY <1>1, <1>2, <1>3 DEF WriteInline, Takes, Served, Closes, UploadTypes
<1>4. CASE Begin
  BY <1>1, <1>2, <1>4 DEF Begin, Takes, Served, Closes, UploadTypes
<1>5. CASE AppendChunk
  <2>1. Head(inbox).op = "chunk"
    BY <1>5 DEF AppendChunk, Takes, Served
  <2>2. \/ upload' = NoUpload \/ upload' = upload
        \/ Found(Head(inbox)) /\ \E rep : upload' = [upload EXCEPT !.sequences[rep] = @ + 1]
    BY <1>5 DEF AppendChunk, Served
  <2>3. ASSUME NEW rep, upload' = [upload EXCEPT !.sequences[rep] = @ + 1]
        PROVE  upload' = [call |-> upload.call, sequences |-> upload'.sequences]
    BY <1>1, <2>3
  <2>4. Found(Head(inbox)) => upload # NoUpload
    BY <1>2 DEF Found, NoUpload, Calls, CallsInv, TypeInv
  <2> QED BY <1>1, <1>2, <2>1, <2>2, <2>3, <2>4 DEF Closes, UploadTypes, NoUpload
<1>6. CASE Commit \/ Abort
  <2>1. upload' = IF Found(Head(inbox)) THEN NoUpload ELSE upload
    BY <1>6 DEF Commit, Abort, Served
  <2>2. UploadTypes'
    BY <1>1, <1>2, <2>1 DEF UploadTypes, NoUpload
  <2>3. ~Found(Head(inbox)) => ~Closes(Head(inbox), upload.call)
    BY DEF Found, Closes
  <2> QED BY <2>1, <2>2, <2>3
<1> QED BY <1>3, <1>4, <1>5, <1>6

LEMMA ServeKeepsUpload ==
  ASSUME CallsInv, UploadInv, WriteInline \/ Begin \/ AppendChunk \/ Commit \/ Abort
  PROVE  UploadInv'
<1>1. inbox # <<>> /\ inbox' = Tail(inbox) /\ UNCHANGED writes /\ inbox \in Seq(Requests)
  BY AgentServes DEF Serves, CallsInv, TypeInv
<1>2. /\ Head(inbox) = inbox[1] /\ 1 \in DOMAIN inbox
      /\ \A j \in DOMAIN inbox' : j \in Nat /\ j + 1 \in DOMAIN inbox /\ inbox'[j] = inbox[j + 1]
                                  /\ 1 < j + 1
      /\ \A j \in DOMAIN inbox : j \in Nat /\ j >= 1
                                 /\ (j # 1 => j - 1 \in DOMAIN inbox' /\ inbox'[j - 1] = inbox[j])
  <2>1. \A j \in DOMAIN inbox : j # 1 => j - 1 \in DOMAIN inbox' /\ inbox'[j - 1] = inbox[j]
    BY <1>1
  <2> QED BY <1>1, <2>1, HeadAndTail
<1>3. \A j \in DOMAIN inbox : j \in Nat /\ j >= 1 /\ (j # 1 =>
        \E i \in DOMAIN inbox' : i + 1 = j /\ inbox'[i] = inbox[j])
  <2> SUFFICES ASSUME NEW j \in DOMAIN inbox, j # 1
               PROVE  \E i \in DOMAIN inbox' : i + 1 = j /\ inbox'[i] = inbox[j]
    BY <1>2
  <2>1. j - 1 \in DOMAIN inbox' /\ (j - 1) + 1 = j /\ inbox'[j - 1] = inbox[j]
    BY <1>2
  <2> QED BY <2>1
<1>4. LeavesNothing'
  <2> SUFFICES ASSUME NEW w \in Calls, ClosingAhead(w)
               PROVE  ClosingAhead(w)'
    BY <1>1 DEF UploadInv, LeavesNothing, Calls
  <2>1. ASSUME NEW i \in DOMAIN inbox', inbox'[i].op = "begin", inbox'[i].call = w
        PROVE  \E j \in DOMAIN inbox' : i < j /\ Closes(inbox'[j], w)
    <3>1. PICK k \in DOMAIN inbox : i + 1 < k /\ Closes(inbox[k], w)
      BY <1>2, <2>1 DEF ClosingAhead
    <3>2. PICK j \in DOMAIN inbox' : j + 1 = k /\ inbox'[j] = inbox[k]
      BY <1>2, <1>3, <3>1
    <3> QED BY <1>2, <3>1, <3>2
  <2>2. ASSUME upload'.call = w
        PROVE  \E j \in DOMAIN inbox' : Closes(inbox'[j], w)
    <3>1. \E k \in DOMAIN inbox : k # 1 /\ Closes(inbox[k], w)
      <4>1. upload' # NoUpload
        BY <2>2 DEF NoUpload, Calls, CallsInv, TypeInv
      <4>2. CASE upload.call = w /\ ~Closes(Head(inbox), w)
        BY <1>2, <4>2 DEF ClosingAhead
      <4>3. CASE Head(inbox).op = "begin" /\ Head(inbox).call = w
        BY <1>2, <4>3 DEF ClosingAhead
      <4> QED BY <2>2, <4>1, <4>2, <4>3, ServedUpload
    <3> QED BY <1>3, <3>1
  <2> QED BY <2>1, <2>2 DEF ClosingAhead, Closes
<1>5. ClearedFirst'
  <2> SUFFICES ASSUME NEW k \in DOMAIN inbox', inbox'[k].op = "begin"
               PROVE  /\ \A i \in DOMAIN inbox' : i < k /\ inbox'[i].op = "begin" =>
                           \E j \in DOMAIN inbox' : i < j /\ j < k /\ Closes(inbox'[j], inbox'[i].call)
                      /\ upload' # NoUpload => \E j \in DOMAIN inbox' : j < k /\ Closes(inbox'[j], upload'.call)
    BY DEF ClearedFirst, Closes
  <2>1. /\ \A i \in DOMAIN inbox : i < k + 1 /\ inbox[i].op = "begin" =>
             \E j \in DOMAIN inbox : i < j /\ j < k + 1 /\ Closes(inbox[j], inbox[i].call)
        /\ upload # NoUpload => \E j \in DOMAIN inbox : j < k + 1 /\ Closes(inbox[j], upload.call)
    BY <1>2 DEF UploadInv, ClearedFirst
  <2>2. ASSUME NEW i \in DOMAIN inbox', i < k, inbox'[i].op = "begin"
        PROVE  \E j \in DOMAIN inbox' : i < j /\ j < k /\ Closes(inbox'[j], inbox'[i].call)
    <3>1. PICK m \in DOMAIN inbox : i + 1 < m /\ m < k + 1 /\ Closes(inbox[m], inbox'[i].call)
      BY <1>2, <2>1, <2>2
    <3>2. PICK j \in DOMAIN inbox' : j + 1 = m /\ inbox'[j] = inbox[m]
      BY <1>2, <1>3, <3>1
    <3> QED BY <1>2, <3>1, <3>2
  <2>3. ASSUME upload' # NoUpload
        PROVE  \E j \in DOMAIN inbox' : j < k /\ Closes(inbox'[j], upload'.call)
    <3>1. \E m \in DOMAIN inbox : m # 1 /\ m < k + 1 /\ Closes(inbox[m], upload'.call)
      <4>1. CASE upload # NoUpload /\ upload'.call = upload.call /\ ~Closes(Head(inbox), upload.call)
        BY <1>2, <2>1, <4>1
      <4>2. CASE Head(inbox).op = "begin" /\ upload'.call = Head(inbox).call
        BY <1>2, <2>1, <4>2
      <4> QED BY <2>3, <4>1, <4>2, ServedUpload
    <3>2. PICK m \in DOMAIN inbox : m # 1 /\ m < k + 1 /\ Closes(inbox[m], upload'.call)
      BY <3>1
    <3>3. PICK j \in DOMAIN inbox' : j + 1 = m /\ inbox'[j] = inbox[m]
      BY <1>3, <3>2
    <3> QED BY <1>2, <3>2, <3>3
  <2> QED BY <2>2, <2>3
<1> QED BY <1>4, <1>5, ServedUpload DEF UploadInv

LEMMA UploadStep == CallsInv /\ UploadInv /\ [TransferNext]_transferVars => UploadInv'
<1> SUFFICES ASSUME CallsInv, UploadInv, [TransferNext]_transferVars
             PROVE  UploadInv'
  OBVIOUS
<1>1. CASE \E shape \in Shapes : Call(shape)
  BY <1>1, CallKeepsUpload
<1>2. CASE HostHears \/ \E w \in Calls : TimesOut(w)
  <2>1. CASE UNCHANGED <<writes, active, inbox>>
    <3>1. UNCHANGED upload
      BY <1>2, HostMoves
    <3> QED BY <2>1, <3>1 DEF UploadInv, UploadTypes, LeavesNothing, ClosingAhead, ClearedFirst,
                              Closes, Calls
  <2>2. CASE ~UNCHANGED <<writes, active, inbox>>
    BY <1>2, <2>2, HostMoves, AskKeepsUpload, ReturnKeepsUpload
  <2> QED BY <2>1, <2>2
<1>3. CASE WriteInline \/ Begin \/ AppendChunk \/ Commit \/ Abort
  BY <1>3, ServeKeepsUpload
<1>4. CASE UNCHANGED transferVars
  BY <1>4 DEF transferVars, UploadInv, UploadTypes, LeavesNothing, ClosingAhead, ClearedFirst, Closes, Calls
<1>5. CASE Expire
  <2>1. UNCHANGED <<writes, inbox>> /\ upload' = NoUpload
    BY <1>5 DEF Expire
  <2>2. \A w \in Calls : ClosingAhead(w) => ClosingAhead(w)'
    BY <2>1 DEF ClosingAhead, Closes, NoUpload, Calls, CallsInv, TypeInv
  <2> QED BY <2>1, <2>2 DEF UploadInv, UploadTypes, LeavesNothing, ClearedFirst, Closes, Calls, NoUpload
<1>6. CASE Crash
  <2>1. inbox' = <<>> /\ upload' = NoUpload /\ Calls' = Calls
    BY <1>6 DEF Crash, Calls
  <2>2. \A w \in Calls : w # 0
    BY DEF Calls, CallsInv, TypeInv
  <2> QED BY <2>1, <2>2 DEF UploadInv, UploadTypes, LeavesNothing, ClosingAhead, ClearedFirst, NoUpload
<1> QED BY <1>1, <1>2, <1>3, <1>4, <1>5, <1>6 DEF TransferNext

(* An upload is never refused because of an earlier one, for any number of  *)
(* calls, late or lost: what the agent still holds is closed by something   *)
(* in front of the `begin'.                                                 *)
THEOREM BeginsAreTaken == TransferSpec => []NeverTurnedAway
<1>1. TransferInit => UploadInv
  BY DEF TransferInit, UploadInv, UploadTypes, LeavesNothing, ClearedFirst, NoUpload, Calls
<1>2. TransferSpec => []UploadInv
  BY <1>1, CallsInit, CallsStep, UploadStep, PTL DEF TransferSpec
<1>3. CallsInv /\ UploadInv => NeverTurnedAway
  <2> SUFFICES ASSUME CallsInv, UploadInv, inbox # <<>>, Served.op = "begin", upload # NoUpload
               PROVE  FALSE
    BY DEF NeverTurnedAway
  <2>1. Head(inbox) = inbox[1] /\ 1 \in DOMAIN inbox /\ \A j \in DOMAIN inbox : ~(j < 1)
    BY HeadAndTail DEF CallsInv, TypeInv
  <2> QED BY <2>1 DEF UploadInv, ClearedFirst, Served
<1> QED BY <1>2, <1>3, CallsInit, CallsStep, PTL DEF TransferSpec
=============================================================================
