--------------------------- MODULE Palette_proofs ---------------------------
(***************************************************************************)
(* What holds of the renderer for any items, list, window and number of    *)
(* gestures.  Its operators take a state s = [ui, asked, inbox] to the     *)
(* next; so does this module: the parts of the invariant are predicates on *)
(* such a state, and there is a lemma for each operator.                   *)
(***************************************************************************)
EXTENDS Palette, FiniteSetTheorems, SequenceTheorems, TLAPS

-----------------------------------------------------------------------------
(* Sequences.                                                              *)
IsSeq(q) == q \in Seq(ToSet(q))

LEMMA SeqIs ==
  ASSUME NEW q, IsSeq(q)
  PROVE  /\ Len(q) \in Nat /\ DOMAIN q = 1 .. Len(q)
         /\ q = [k \in 1 .. Len(q) |-> q[k]]
BY DEF IsSeq

LEMMA SeqHas ==
  ASSUME NEW q, NEW n \in Nat, q = [k \in 1 .. n |-> q[k]]
  PROVE  IsSeq(q) /\ Len(q) = n /\ DOMAIN q = 1 .. n
<1>1. DOMAIN q = 1 .. n
  OBVIOUS
<1>2. \A k \in 1 .. n : q[k] \in ToSet(q)
  BY <1>1 DEF ToSet
<1>3. q \in Seq(ToSet(q)) /\ Len(q) = n
  BY <1>1, <1>2
<1> QED BY <1>1, <1>3 DEF IsSeq

LEMMA SameLen ==
  ASSUME NEW m \in Nat, NEW n \in Nat, 1 .. m = 1 .. n
  PROVE  m = n
OBVIOUS

LEMMA SeqLike ==
  ASSUME NEW q, IsSeq(q), NEW r, r = [k \in DOMAIN q |-> r[k]]
  PROVE  IsSeq(r) /\ DOMAIN r = DOMAIN q
<1>1. Len(q) \in Nat /\ DOMAIN q = 1 .. Len(q)
  BY SeqIs
<1>2. r = [k \in 1 .. Len(q) |-> r[k]]
  BY <1>1
<1> QED BY <1>1, <1>2, SeqHas

LEMMA SeqFrom ==
  ASSUME NEW S, NEW q, q \in Seq(S)
  PROVE  IsSeq(q)
<1>1. Len(q) \in Nat /\ DOMAIN q = 1 .. Len(q) /\ q \in [1 .. Len(q) -> S]
  BY LenProperties
<1>2. q \in [1 .. Len(q) -> ToSet(q)]
  BY <1>1 DEF ToSet
<1>3. q = [k \in 1 .. Len(q) |-> q[k]]
  BY <1>1
<1> QED BY <1>1, <1>3, SeqHas

LEMMA SeqIn ==
  ASSUME NEW S, NEW q, IsSeq(q), \A k \in DOMAIN q : q[k] \in S
  PROVE  q \in Seq(S)
<1>1. Len(q) \in Nat /\ DOMAIN q = 1 .. Len(q) /\ q = [k \in 1 .. Len(q) |-> q[k]]
  BY SeqIs
<1> QED BY <1>1

LEMMA AppendIs ==
  ASSUME NEW q, IsSeq(q), NEW x
  PROVE  /\ IsSeq(Append(q, x)) /\ Len(Append(q, x)) = Len(q) + 1
         /\ DOMAIN Append(q, x) = 1 .. Len(q) + 1 /\ DOMAIN q = 1 .. Len(q)
         /\ \A k \in DOMAIN q : Append(q, x)[k] = q[k]
         /\ Append(q, x)[Len(q) + 1] = x
<1> DEFINE S == ToSet(q) \cup {x}
<1>1. Len(q) \in Nat /\ DOMAIN q = 1 .. Len(q)
  BY SeqIs
<1>2. q \in Seq(S)
  <2>1. \A k \in DOMAIN q : q[k] \in S
    BY DEF ToSet
  <2> QED BY <2>1, SeqIn
<1>3. x \in S
  OBVIOUS
<1> HIDE DEF S
<1>4. Append(q, x) \in Seq(S)
  BY <1>2, <1>3
<1>5. IsSeq(Append(q, x))
  BY <1>4, SeqFrom
<1> QED BY <1>1, <1>2, <1>3, <1>5

LEMMA TailIs ==
  ASSUME NEW q, IsSeq(q), q # <<>>
  PROVE  /\ IsSeq(Tail(q)) /\ Len(Tail(q)) = Len(q) - 1
         /\ Len(q) >= 1 /\ DOMAIN q = 1 .. Len(q)
         /\ DOMAIN Tail(q) = 1 .. Len(q) - 1
         /\ \A k \in 1 .. Len(q) - 1 : Tail(q)[k] = q[k + 1]
         /\ Head(q) = q[1] /\ 1 \in DOMAIN q
<1> DEFINE S == ToSet(q)
<1>1. q \in Seq(S) /\ Len(q) \in Nat /\ DOMAIN q = 1 .. Len(q)
  BY SeqIs DEF IsSeq
<1> HIDE DEF S
<1>2. Len(q) >= 1
  BY <1>1
<1>3. /\ Tail(q) \in Seq(S) /\ Len(Tail(q)) = Len(q) - 1 /\ DOMAIN Tail(q) = 1 .. Len(q) - 1
      /\ \A k \in 1 .. Len(q) - 1 : Tail(q)[k] = q[k + 1]
      /\ Head(q) = q[1]
  BY <1>1, <1>2
<1>4. IsSeq(Tail(q))
  BY <1>3, SeqFrom
<1> QED BY <1>1, <1>2, <1>3, <1>4

LEMMA ConcatIs ==
  ASSUME NEW p, IsSeq(p), NEW q, IsSeq(q)
  PROVE  /\ IsSeq(p \o q) /\ Len(p \o q) = Len(p) + Len(q)
         /\ Len(p) \in Nat /\ Len(q) \in Nat
         /\ DOMAIN p = 1 .. Len(p) /\ DOMAIN q = 1 .. Len(q)
         /\ DOMAIN (p \o q) = 1 .. Len(p) + Len(q)
         /\ \A k \in 1 .. Len(p) : (p \o q)[k] = p[k]
         /\ \A k \in 1 .. Len(q) : (p \o q)[Len(p) + k] = q[k]
<1> DEFINE S == ToSet(p) \cup ToSet(q)
<1>1. /\ Len(p) \in Nat /\ DOMAIN p = 1 .. Len(p)
      /\ Len(q) \in Nat /\ DOMAIN q = 1 .. Len(q)
  BY SeqIs
<1>2. p \in Seq(S) /\ q \in Seq(S)
  <2>1. (\A k \in DOMAIN p : p[k] \in S) /\ (\A k \in DOMAIN q : q[k] \in S)
    BY DEF ToSet
  <2> QED BY <2>1, SeqIn
<1> HIDE DEF S
<1>3. /\ p \o q \in Seq(S) /\ Len(p \o q) = Len(p) + Len(q)
      /\ \A k \in 1 .. Len(p) + Len(q) :
           (p \o q)[k] = IF k <= Len(p) THEN p[k] ELSE q[k - Len(p)]
  BY <1>2, ConcatProperties
<1>4. IsSeq(p \o q) /\ DOMAIN (p \o q) = 1 .. Len(p) + Len(q)
  BY <1>3, SeqFrom, SeqIs
<1>5. \A k \in 1 .. Len(p) : (p \o q)[k] = p[k]
  BY <1>1, <1>3
<1>6. ASSUME NEW k \in 1 .. Len(q)
      PROVE  (p \o q)[Len(p) + k] = q[k]
  <2>1. Len(p) + k \in 1 .. Len(p) + Len(q) /\ ~(Len(p) + k <= Len(p)) /\ Len(p) + k - Len(p) = k
    BY <1>1
  <2> QED BY <1>3, <2>1
<1> QED BY <1>1, <1>3, <1>4, <1>5, <1>6

LEMMA RemoveAtIs ==
  ASSUME NEW q, IsSeq(q), NEW i \in DOMAIN q
  PROVE  /\ IsSeq(RemoveAt(q, i)) /\ Len(RemoveAt(q, i)) = Len(q) - 1
         /\ DOMAIN q = 1 .. Len(q) /\ Len(q) \in Nat \ {0}
         /\ DOMAIN RemoveAt(q, i) = 1 .. Len(q) - 1
         /\ \A k \in 1 .. Len(q) - 1 : RemoveAt(q, i)[k] = q[IF k < i THEN k ELSE k + 1]
<1> DEFINE a == SubSeq(q, 1, i - 1)
           b == SubSeq(q, i + 1, Len(q))
           S == ToSet(q)
<1>1. /\ q \in Seq(S) /\ Len(q) \in Nat /\ DOMAIN q = 1 .. Len(q)
      /\ i \in Nat /\ i >= 1 /\ i <= Len(q)
  BY SeqIs DEF IsSeq
<1> HIDE DEF S
<1>2. a \in Seq(S) /\ Len(a) = i - 1 /\ \A k \in 1 .. i - 1 : a[k] = q[k]
  BY <1>1
<1>3. b \in Seq(S) /\ Len(b) = Len(q) - i /\ \A k \in 1 .. Len(q) - i : b[k] = q[k + i]
  BY <1>1
<1>4. RemoveAt(q, i) = a \o b
  BY DEF RemoveAt
<1> HIDE DEF a, b
<1>5. IsSeq(a) /\ IsSeq(b)
  BY <1>2, <1>3, SeqFrom
<1>6. /\ IsSeq(a \o b) /\ Len(a \o b) = Len(a) + Len(b)
      /\ DOMAIN (a \o b) = 1 .. Len(a) + Len(b)
      /\ \A k \in 1 .. Len(a) : (a \o b)[k] = a[k]
      /\ \A k \in 1 .. Len(b) : (a \o b)[Len(a) + k] = b[k]
  BY <1>5, ConcatIs
<1>7. ASSUME NEW k \in 1 .. Len(q) - 1
      PROVE  (a \o b)[k] = q[IF k < i THEN k ELSE k + 1]
  <2>1. CASE k < i
    <3>1. k \in 1 .. i - 1
      BY <1>1, <2>1
    <3> QED BY <1>2, <1>6, <2>1, <3>1
  <2>2. CASE ~(k < i)
    <3>1. /\ k - (i - 1) \in 1 .. Len(q) - i /\ i - 1 + (k - (i - 1)) = k
          /\ k - (i - 1) + i = k + 1
      BY <1>1, <2>2
    <3>2. (a \o b)[i - 1 + (k - (i - 1))] = b[k - (i - 1)]
      BY <1>2, <1>3, <1>6, <3>1
    <3> QED BY <1>3, <2>2, <3>1, <3>2
  <2> QED BY <2>1, <2>2
<1>8. Len(a) + Len(b) = Len(q) - 1
  BY <1>1, <1>2, <1>3
<1>9. /\ IsSeq(a \o b) /\ Len(a \o b) = Len(q) - 1
      /\ DOMAIN (a \o b) = 1 .. Len(q) - 1
  BY <1>6, <1>8
<1>10. Len(q) \in Nat \ {0}
  BY <1>1
<1> QED BY <1>1, <1>4, <1>7, <1>9, <1>10

-----------------------------------------------------------------------------
(* Induction over the natural numbers, for a set instead of a predicate:   *)
(* of the intervals up to a number that is not in it one is the smallest.  *)
LEMMA Induction ==
  ASSUME NEW S, 0 \in S, \A n \in Nat : n \in S => n + 1 \in S
  PROVE  \A n \in Nat : n \in S
<1> SUFFICES ASSUME NEW n \in Nat, n \notin S PROVE FALSE
  OBVIOUS
<1> DEFINE T == {0 .. m : m \in {k \in Nat : k \notin S}}
<1>1. T \in SUBSET FiniteSubsetsOf(Nat) /\ T # {}
  <2>1. \A m \in Nat : 0 .. m \in FiniteSubsetsOf(Nat)
    BY FS_Interval DEF FiniteSubsetsOf
  <2> QED BY <2>1
<1>2. PICK x \in T : \A y \in T : ~(<<y, x>> \in StrictSubsetOrdering(Nat))
  <2> HIDE DEF T
  <2> QED BY <1>1, FS_StrictSubsetOrderingWellFounded, WFMin
<1>3. PICK m \in Nat : m \notin S /\ x = 0 .. m
  BY <1>2
<1>4. m - 1 \in Nat /\ m - 1 \notin S
  <2>1. m # 0
    BY <1>3
  <2>2. m - 1 \in Nat /\ (m - 1) + 1 = m
    BY <2>1
  <2> QED BY <1>3, <2>2
<1>5. 0 .. m - 1 \in T
  BY <1>4
<1>6. <<0 .. m - 1, 0 .. m>> \in StrictSubsetOrdering(Nat)
  <2>1. 0 .. m - 1 \in SUBSET Nat /\ 0 .. m \in SUBSET Nat
    BY <1>4
  <2>2. 0 .. m - 1 \subseteq 0 .. m /\ m \in 0 .. m /\ m \notin 0 .. m - 1
    BY <1>4
  <2> QED BY <2>1, <2>2 DEF StrictSubsetOrdering
<1> QED BY <1>2, <1>3, <1>5, <1>6

-----------------------------------------------------------------------------
(* What Only keeps of a list.                                              *)
Distinct(rows) == \A j, k \in DOMAIN rows : rows[j].id = rows[k].id => j = k

Kept(before, row, S) == IF row \in S THEN Append(before, row) ELSE before

Keeps(rows, S, n, f) ==
  f = [k \in 0 .. n |-> IF k = 0 THEN <<>> ELSE Kept(f[k - 1], rows[k], S)]

LEMMA KeepsExists ==
  ASSUME NEW rows, NEW S, NEW m \in Nat
  PROVE  \E f : Keeps(rows, S, m, f)
<1> DEFINE none == <<>>
           Steps(f, n) == f[0] = none /\ \A k \in 1 .. n : f[k] = Kept(f[k - 1], rows[k], S)
           Good == {n \in Nat : \E f : f = [k \in 0 .. n |-> f[k]] /\ Steps(f, n)}
<1> HIDE DEF none
<1>1. 0 \in Good
  <2> DEFINE f == [k \in 0 .. 0 |-> none]
  <2>1. f = [k \in 0 .. 0 |-> f[k]] /\ f[0] = none /\ 1 .. 0 = {}
    OBVIOUS
  <2> QED BY <2>1
<1>2. ASSUME NEW n \in Nat, n \in Good
      PROVE  n + 1 \in Good
  <2>1. PICK f : f = [k \in 0 .. n |-> f[k]] /\ Steps(f, n)
    BY <1>2
  <2> DEFINE g == [k \in 0 .. n + 1 |->
                     IF k = n + 1 THEN Kept(f[n], rows[n + 1], S) ELSE f[k]]
  <2>2. /\ g = [k \in 0 .. n + 1 |-> g[k]] /\ g[n + 1] = Kept(f[n], rows[n + 1], S)
        /\ \A k \in 0 .. n : g[k] = f[k]
    OBVIOUS
  <2> HIDE DEF g
  <2>3. g[0] = none
    BY <2>1, <2>2
  <2>4. ASSUME NEW k \in 1 .. n + 1
        PROVE  g[k] = Kept(g[k - 1], rows[k], S)
    <3>1. k - 1 \in 0 .. n /\ g[k - 1] = f[k - 1]
      BY <2>2, SMTT(30)
    <3>2. CASE k = n + 1
      BY <2>2, <3>1, <3>2
    <3>3. CASE k # n + 1
      <4>1. k \in 1 .. n /\ k \in 0 .. n
        BY <3>3
      <4> QED BY <2>1, <2>2, <3>1, <4>1
    <3> QED BY <3>2, <3>3
  <2>5. Steps(g, n + 1)
    BY <2>3, <2>4
  <2>6. \E h : h = [k \in 0 .. n + 1 |-> h[k]] /\ Steps(h, n + 1)
    <3> HIDE DEF Steps
    <3> QED BY <2>2, <2>5
  <2>7. n + 1 \in Nat
    OBVIOUS
  <2> HIDE DEF Steps
  <2> QED BY <2>6, <2>7
<1> HIDE DEF Good
<1>3. m \in Good
  BY <1>1, <1>2, Induction
<1>4. PICK f : f = [k \in 0 .. m |-> f[k]] /\ Steps(f, m)
  BY <1>3 DEF Good
<1> DEFINE body(k) == IF k = 0 THEN none ELSE Kept(f[k - 1], rows[k], S)
<1>5. \A k \in 0 .. m : f[k] = body(k)
  <2>1. \A k \in 0 .. m : k = 0 \/ k \in 1 .. m
    OBVIOUS
  <2> QED BY <1>4, <2>1
<1> HIDE DEF body
<1>6. f = [k \in 0 .. m |-> body(k)]
  BY <1>4, <1>5
<1> QED BY <1>6 DEF body, Keeps, none

(* What has been kept of the first k rows.                                 *)
KeptOf(rows, S, k, q) ==
  /\ IsSeq(q)
  /\ \A i \in DOMAIN q : q[i] \in S /\ \E j \in 1 .. k : q[i] = rows[j]
  /\ \A j \in 1 .. k : rows[j] \in S => \E i \in DOMAIN q : q[i] = rows[j]
  /\ Distinct(rows) => Distinct(q)

LEMMA KeptIs ==
  ASSUME NEW rows, NEW S, NEW k \in Nat, k + 1 \in DOMAIN rows, 1 .. k \subseteq DOMAIN rows,
         NEW q, KeptOf(rows, S, k, q)
  PROVE  KeptOf(rows, S, k + 1, Kept(q, rows[k + 1], S))
<1> DEFINE row == rows[k + 1]
<1>0. \A j \in 1 .. k + 1 : j \in 1 .. k \/ j = k + 1
  OBVIOUS
<1>1. CASE row \notin S
  <2>1. \A j \in 1 .. k : j \in 1 .. k + 1
    OBVIOUS
  <2> QED BY <1>0, <1>1, <2>1 DEF KeptOf, Kept
<1>2. CASE row \in S
  <2> DEFINE t == Append(q, row)
  <2>1. /\ IsSeq(t) /\ DOMAIN t = 1 .. Len(q) + 1 /\ DOMAIN q = 1 .. Len(q)
        /\ Len(q) \in Nat /\ t[Len(q) + 1] = row /\ \A i \in DOMAIN q : t[i] = q[i]
    BY AppendIs, SeqIs DEF KeptOf
  <2>2. \A i \in DOMAIN t : i \in DOMAIN q \/ i = Len(q) + 1
    BY <2>1
  <2> HIDE DEF t
  <2>3. ASSUME NEW i \in DOMAIN t
        PROVE  t[i] \in S /\ \E j \in 1 .. k + 1 : t[i] = rows[j]
    <3>1. CASE i \in DOMAIN q
      <4>1. PICK j \in 1 .. k : q[i] = rows[j]
        BY <3>1 DEF KeptOf
      <4>2. j \in 1 .. k + 1
        OBVIOUS
      <4> QED BY <2>1, <3>1, <4>1, <4>2 DEF KeptOf
    <3>2. CASE i = Len(q) + 1
      <4>1. k + 1 \in 1 .. k + 1
        OBVIOUS
      <4> QED BY <1>2, <2>1, <3>2, <4>1
    <3> QED BY <2>2, <3>1, <3>2
  <2>4. ASSUME Distinct(rows), NEW i \in DOMAIN t, NEW j \in DOMAIN t, t[i].id = t[j].id
        PROVE  i = j
    <3>1. ASSUME NEW h \in DOMAIN q PROVE q[h].id # row.id
      <4>1. PICK g \in 1 .. k : q[h] = rows[g]
        BY DEF KeptOf
      <4>2. g \in DOMAIN rows /\ g # k + 1
        OBVIOUS
      <4> QED BY <2>4, <4>1, <4>2 DEF Distinct
    <3>2. Distinct(q)
      BY <2>4 DEF KeptOf
    <3> QED BY <2>1, <2>2, <2>4, <3>1, <3>2 DEF Distinct
  <2>5. Distinct(rows) => Distinct(t)
    BY <2>4 DEF Distinct
  <2>6. Kept(q, row, S) = t
    BY <1>2 DEF Kept, t
  <2>7. ASSUME NEW j \in 1 .. k + 1, rows[j] \in S
        PROVE  \E i \in DOMAIN t : t[i] = rows[j]
    <3>1. CASE j \in 1 .. k
      <4>1. PICK i \in DOMAIN q : q[i] = rows[j]
        BY <2>7, <3>1 DEF KeptOf
      <4>2. i \in DOMAIN t
        BY <2>1
      <4> QED BY <2>1, <4>1, <4>2
    <3>2. CASE j = k + 1
      <4>1. Len(q) + 1 \in DOMAIN t
        BY <2>1
      <4> QED BY <2>1, <3>2, <4>1
    <3> QED BY <1>0, <3>1, <3>2
  <2> QED BY <2>1, <2>3, <2>5, <2>6, <2>7 DEF KeptOf
<1> QED BY <1>1, <1>2

LEMMA OnlyIs ==
  ASSUME NEW V, NEW rows, rows \in Seq(V), NEW S
  PROVE  /\ Only(rows, S) \in Seq(V)
         /\ \A i \in DOMAIN Only(rows, S) :
              Only(rows, S)[i] \in S /\ \E j \in DOMAIN rows : Only(rows, S)[i] = rows[j]
         /\ \A j \in DOMAIN rows :
              rows[j] \in S => \E i \in DOMAIN Only(rows, S) : Only(rows, S)[i] = rows[j]
         /\ Distinct(rows) => Distinct(Only(rows, S))
<1> DEFINE n == Len(rows)
           f == CHOOSE g : Keeps(rows, S, n, g)
<1>1. n \in Nat /\ DOMAIN rows = 1 .. n /\ \A j \in 1 .. n : rows[j] \in V
  OBVIOUS
<1>2. Keeps(rows, S, n, f)
  BY <1>1, KeepsExists
<1>3. Only(rows, S) = f[n]
  BY DEF Only, Keeps, Kept
<1> HIDE DEF f, n
<1>4. f[0] = <<>> /\ \A k \in 1 .. n : f[k] = Kept(f[k - 1], rows[k], S)
  <2> DEFINE body(k) == IF k = 0 THEN <<>> ELSE Kept(f[k - 1], rows[k], S)
  <2>1. f = [k \in 0 .. n |-> body(k)]
    BY <1>2 DEF Keeps
  <2>2. \A k \in 0 .. n : f[k] = body(k)
    <3> HIDE DEF body
    <3> QED BY <2>1
  <2> QED BY <1>1, <2>2
<1> DEFINE Good == {k \in Nat : k <= n => KeptOf(rows, S, k, f[k])}
<1>5. 0 \in Good
  <2>1. DOMAIN <<>> = {} /\ <<>> \in Seq({}) /\ 1 .. 0 = {}
    OBVIOUS
  <2>2. f[0] = <<>> /\ IsSeq(<<>>)
    BY <1>4, <2>1, SeqFrom
  <2>3. KeptOf(rows, S, 0, <<>>)
    BY <2>1, <2>2 DEF KeptOf, Distinct
  <2> QED BY <2>2, <2>3
<1>6. ASSUME NEW k \in Nat, k \in Good
      PROVE  k + 1 \in Good
  <2> SUFFICES ASSUME k + 1 <= n
               PROVE  KeptOf(rows, S, k + 1, f[k + 1])
    OBVIOUS
  <2>1. /\ k + 1 \in 1 .. n /\ (k + 1) - 1 = k /\ KeptOf(rows, S, k, f[k])
        /\ 1 .. k \subseteq DOMAIN rows /\ k + 1 \in DOMAIN rows
    BY <1>1, <1>6
  <2>2. f[k + 1] = Kept(f[k], rows[k + 1], S)
    BY <1>4, <2>1
  <2> QED BY <2>1, <2>2, KeptIs
<1> HIDE DEF Good
<1>7. n \in Good
  BY <1>1, <1>5, <1>6, Induction
<1>8. KeptOf(rows, S, n, f[n])
  BY <1>1, <1>7 DEF Good
<1>9. \A i \in DOMAIN f[n] : f[n][i] \in V
  BY <1>1, <1>8 DEF KeptOf
<1>10. f[n] \in Seq(V)
  BY <1>8, <1>9, SeqIn DEF KeptOf
<1> QED BY <1>1, <1>3, <1>8, <1>10 DEF KeptOf

-----------------------------------------------------------------------------
(* Types.                                                                  *)
Waiters == {"keep", "tag"}
CallKinds == {"list", "search", "preview", "copy", "pin", "remove", "tag", "title", "createTab",
              "removeTab", "close"}
EventKinds == {"changed", "shown", "hidden"}

ListRows == [id : Items, titled : BOOLEAN, pinned : BOOLEAN, tags : SUBSET Tabs]
Some == Items \cup {None}

Carries(c, fields) == fields \subseteq DOMAIN c

CallOK(c) ==
  /\ Carries(c, {"kind", "live"}) /\ c.kind \in CallKinds /\ c.live \in BOOLEAN
  /\ c.kind \in {"list", "search", "preview"} => Carries(c, {"done"}) /\ c.done \subseteq Waiters
  /\ c.kind = "list" =>
       /\ Carries(c, {"offset", "limit", "filter", "reload", "sel", "preview"})
       /\ c.offset \in Nat /\ c.limit \in Nat /\ c.limit >= FetchSpan
       /\ c.reload \in BOOLEAN /\ c.preview \in BOOLEAN /\ c.sel \in Some
  /\ c.kind = "search" => Carries(c, {"filter"})
  /\ c.kind \in {"preview", "copy", "pin", "remove", "tag", "title"} =>
       Carries(c, {"id"}) /\ c.id \in Items
  /\ c.kind = "pin" => Carries(c, {"pinned"}) /\ c.pinned \in BOOLEAN
  /\ c.kind \in {"tag", "createTab", "removeTab"} => Carries(c, {"tab"}) /\ c.tab \in Tabs
  /\ c.kind = "tag" => Carries(c, {"tagged"}) /\ c.tagged \in BOOLEAN
  /\ c.kind = "title" => Carries(c, {"titled"}) /\ c.titled \in BOOLEAN

AnswerOK(m) ==
  /\ CallOK(m) /\ m.kind # "close" /\ Carries(m, {"ok"}) /\ m.ok \in BOOLEAN
  /\ m.kind = "list" /\ m.ok =>
       /\ Carries(m, {"rows", "total", "tabs", "asOf"})
       /\ m.rows \in Seq(ListRows) /\ m.total \in Nat /\ m.tabs \subseteq Tabs
       /\ m.asOf \subseteq Secrets
  /\ m.kind = "search" /\ m.ok =>
       /\ Carries(m, {"rows", "tabs", "asOf"})
       /\ m.rows \in Seq(ListRows) /\ m.tabs \subseteq Tabs /\ m.asOf \subseteq Secrets

MessageOK(m) == (Carries(m, {"kind", "live"}) /\ m.kind \in EventKinds) \/ AnswerOK(m)

EditorOK(e) ==
  /\ e \in [kind : {"none"} \cup AllEditors, id : Some, tags : SUBSET Tabs, saving : BOOLEAN]
  /\ e.kind \in {"tagging", "titling"} <=> e.id # None

UiFields == {"active", "query", "mode", "filter", "sel", "start", "height", "rows", "offset",
             "total", "tabs", "failed", "preview", "revealed", "keep", "editor", "dialog", "drag",
             "removing"}

UiOK(u) ==
  /\ DOMAIN u = UiFields
  /\ u.active \in BOOLEAN /\ u.query \in BOOLEAN /\ u.failed \in BOOLEAN
  /\ u.mode \in {"recent", "search"} /\ u.filter \in Filters
  /\ u.sel \in Nat /\ u.start \in Nat /\ u.height \in Heights
  /\ u.rows \in Seq(ListRows) /\ u.offset \in Nat /\ u.total \in Nat /\ u.tabs \subseteq Tabs
  /\ u.preview \in Some /\ u.revealed \in Some /\ u.keep \in Some /\ u.drag \in Some
  /\ EditorOK(u.editor) /\ u.dialog \in Tabs \cup {None} /\ u.removing \in Tabs \cup {None}

(* v is u but for these fields.                                            *)
But(u, v, fields) == DOMAIN v = DOMAIN u /\ \A x \in DOMAIN u \ fields : v[x] = u[x]

-----------------------------------------------------------------------------
(* Calls in flight, in the order main answers them: those answered (the    *)
(* inbox) before those asked.                                              *)
Live(c, kinds) == c.kind \in kinds /\ c.live

NoneLive(s, kinds) ==
  /\ \A k \in DOMAIN s.asked : ~Live(s.asked[k], kinds)
  /\ \A k \in DOMAIN s.inbox : ~Live(s.inbox[k], kinds)

(* Two live calls that are not in flight together, c before d: two lists   *)
(* or searches, a preview before a search, a preview with a reload.        *)
Clash(c, d) ==
  \/ Live(c, {"list", "search"}) /\ Live(d, {"list", "search"})
  \/ Live(c, {"preview"}) /\ Live(d, {"search"})
  \/ Live(c, {"preview"}) /\ Live(d, {"list"}) /\ d.reload
  \/ Live(d, {"preview"}) /\ Live(c, {"list"}) /\ c.reload

Orderly(s) ==
  /\ \A i, j \in DOMAIN s.asked : i < j => ~Clash(s.asked[i], s.asked[j])
  /\ \A i, j \in DOMAIN s.inbox : i < j => ~Clash(s.inbox[i], s.inbox[j])
  /\ \A i \in DOMAIN s.inbox, j \in DOMAIN s.asked : ~Clash(s.inbox[i], s.asked[j])

Calls(s) ==
  /\ IsSeq(s.asked) /\ \A k \in DOMAIN s.asked : CallOK(s.asked[k])
  /\ IsSeq(s.inbox) /\ \A k \in DOMAIN s.inbox : MessageOK(s.inbox[k])
  /\ Orderly(s)

(* What a live call says of the renderer's state.                          *)
Fits(c, u) ==
  /\ Live(c, {"list"}) =>
       /\ u.mode = "recent" /\ c.filter = u.filter
       /\ c.reload => c.offset = u.offset /\ u.rows = <<>> /\ u.preview = None
       /\ ~c.reload /\ u.total = 0 => c.offset = 0
  /\ Live(c, {"search"}) => u.mode = "search" /\ c.filter = u.filter /\ u.preview = None

AllFit(s) ==
  /\ \A k \in DOMAIN s.asked : Fits(s.asked[k], s.ui)
  /\ \A k \in DOMAIN s.inbox : Fits(s.inbox[k], s.ui)

Blank(u) ==
  /\ u.rows = <<>> /\ u.tabs = {} /\ u.total = 0 /\ ~u.failed
  /\ u.preview = None /\ u.revealed = None /\ u.keep = None /\ u.editor.id = None

(* While the palette is hidden nothing is there, and nothing is coming.    *)
Quiet(s) ==
  ~s.ui.active => Blank(s.ui) /\ NoneLive(s, {"list", "search", "preview", "removeTab"})

IsState(s) == Carries(s, {"ui", "asked", "inbox"})

Base(s) ==
  /\ IsState(s) /\ UiOK(s.ui) /\ Calls(s) /\ AllFit(s) /\ Quiet(s)
  /\ s.ui.active => s.ui.mode = (IF s.ui.query THEN "search" ELSE "recent")

-----------------------------------------------------------------------------
(* A call stays what it is; it may become stale, and what is to follow its *)
(* answer may change.                                                      *)
Softer(c, d) ==
  /\ DOMAIN d = DOMAIN c
  /\ \A x \in DOMAIN c \ {"live", "sel", "preview", "done"} : d[x] = c[x]
  /\ d.live => c.live
  /\ CallOK(c) => CallOK(d)

AllSofter(s, t) ==
  /\ IsSeq(t.asked) /\ DOMAIN t.asked = DOMAIN s.asked
  /\ IsSeq(t.inbox) /\ DOMAIN t.inbox = DOMAIN s.inbox
  /\ \A k \in DOMAIN s.asked : Softer(s.asked[k], t.asked[k])
  /\ \A k \in DOMAIN s.inbox : Softer(s.inbox[k], t.inbox[k])

LEMMA SofterOK ==
  ASSUME NEW c, NEW d, Softer(c, d), Carries(c, {"kind"})
  PROVE  /\ d.kind = c.kind
         /\ MessageOK(c) => MessageOK(d)
         /\ \A K : Live(d, K) => Live(c, K)
<1>1. d.kind = c.kind
  BY DEF Softer, Carries
<1>2. \A K : Live(d, K) => Live(c, K)
  BY <1>1 DEF Live, Softer
<1>3. ASSUME AnswerOK(c) PROVE AnswerOK(d)
  <2>1. CallOK(d) /\ DOMAIN d = DOMAIN c
    BY <1>3 DEF Softer, AnswerOK
  <2>2. d.ok = c.ok
    BY <1>3 DEF Softer, AnswerOK, Carries
  <2>3. Carries(c, {"rows"}) => d.rows = c.rows
    BY DEF Softer, Carries
  <2>4. Carries(c, {"total"}) => d.total = c.total
    BY DEF Softer, Carries
  <2>5. Carries(c, {"tabs"}) => d.tabs = c.tabs
    BY DEF Softer, Carries
  <2>6. Carries(c, {"asOf"}) => d.asOf = c.asOf
    BY DEF Softer, Carries
  <2> QED BY <1>1, <1>3, <2>1, <2>2, <2>3, <2>4, <2>5, <2>6 DEF AnswerOK, Carries
<1> QED BY <1>1, <1>2, <1>3 DEF MessageOK, Carries, Softer

LEMMA SofterTransitive ==
  ASSUME NEW s, NEW t, NEW r, AllSofter(s, t), AllSofter(t, r)
  PROVE  AllSofter(s, r)
<1>1. ASSUME NEW c, NEW d, NEW e, Softer(c, d), Softer(d, e)
      PROVE  Softer(c, e)
  BY <1>1 DEF Softer
<1> QED BY <1>1 DEF AllSofter

LEMMA SofterCalls ==
  ASSUME NEW s, NEW t, Calls(s), AllSofter(s, t)
  PROVE  /\ Calls(t)
         /\ \A K : NoneLive(s, K) => NoneLive(t, K)
<1>1. \A k \in DOMAIN s.asked : Carries(s.asked[k], {"kind"})
  BY DEF Calls, CallOK, Carries
<1>2. \A k \in DOMAIN s.inbox : Carries(s.inbox[k], {"kind"})
  BY DEF Calls, CallOK, Carries, MessageOK, AnswerOK
<1>3. /\ \A k \in DOMAIN s.asked : \A K : Live(t.asked[k], K) => Live(s.asked[k], K)
      /\ \A k \in DOMAIN s.inbox : \A K : Live(t.inbox[k], K) => Live(s.inbox[k], K)
  BY <1>1, <1>2, SofterOK DEF AllSofter
<1>4. \A K : NoneLive(s, K) => NoneLive(t, K)
  BY <1>3 DEF NoneLive, AllSofter
<1>5. /\ \A k \in DOMAIN s.asked : Live(s.asked[k], {"list"}) => t.asked[k].reload = s.asked[k].reload
      /\ \A k \in DOMAIN s.inbox : Live(s.inbox[k], {"list"}) => t.inbox[k].reload = s.inbox[k].reload
  BY SMTT(30) DEF AllSofter, Softer, Live, Calls, CallOK, MessageOK, AnswerOK, Carries, EventKinds
<1>6. Orderly(t)
  BY <1>3, <1>5 DEF Orderly, Clash, AllSofter, Calls
<1>7. \A k \in DOMAIN t.asked : CallOK(t.asked[k])
  BY DEF Calls, AllSofter, Softer
<1>8. \A k \in DOMAIN t.inbox : MessageOK(t.inbox[k])
  BY <1>2, SofterOK DEF Calls, AllSofter
<1> QED BY <1>4, <1>6, <1>7, <1>8 DEF Calls, AllSofter

-----------------------------------------------------------------------------
(* What the operators on the calls in flight do to one call.               *)
Marked(c) == Carries(c, {"kind", "live"})

LEMMA AllMarked ==
  ASSUME NEW s, Calls(s)
  PROVE  /\ \A k \in DOMAIN s.asked : Marked(s.asked[k])
         /\ \A k \in DOMAIN s.inbox : Marked(s.inbox[k])
BY DEF Calls, CallOK, Carries, MessageOK, AnswerOK, Marked

LEMMA StaleIs ==
  ASSUME NEW c, Marked(c), NEW K
  PROVE  /\ Softer(c, Stale(c, K))
         /\ ~Live(Stale(c, K), K)
         /\ c.kind \notin K => Stale(c, K) = c
<1>1. CASE c.kind \notin K
  BY <1>1 DEF Stale, Softer, Live
<1>2. CASE c.kind \in K
  <2> DEFINE d == [c EXCEPT !.live = FALSE]
  <2>1. /\ DOMAIN d = DOMAIN c /\ \A x \in DOMAIN c \ {"live"} : d[x] = c[x]
        /\ d.live = FALSE
    BY DEF Marked, Carries
  <2>2. d = Stale(c, K)
    BY <1>2 DEF Stale
  <2> HIDE DEF d
  <2>3. CallOK(c) => CallOK(d)
    BY <2>1 DEF CallOK, Carries
  <2> QED BY <1>2, <2>1, <2>2, <2>3 DEF Softer, Live
<1> QED BY <1>1, <1>2

LEMMA WithoutIs ==
  ASSUME NEW c, Marked(c), NEW W
  PROVE  LET d == WithoutWaiters(c, W)
         IN  /\ Softer(c, d)
             /\ DOMAIN d = DOMAIN c
             /\ \A x \in DOMAIN c \ {"done"} : d[x] = c[x]
             /\ "done" \in DOMAIN c => d.done = c.done \ W
<1>1. CASE "done" \notin DOMAIN c
  BY <1>1 DEF WithoutWaiters, Softer
<1>2. CASE "done" \in DOMAIN c
  <2> DEFINE d == [c EXCEPT !.done = c.done \ W]
  <2>1. /\ DOMAIN d = DOMAIN c /\ \A x \in DOMAIN c \ {"done"} : d[x] = c[x]
        /\ d.done = c.done \ W
    BY <1>2
  <2>2. d = WithoutWaiters(c, W)
    BY <1>2 DEF WithoutWaiters
  <2> HIDE DEF d
  <2>3. CallOK(c) => CallOK(d)
    BY <2>1 DEF CallOK, Carries
  <2>4. d.live = c.live
    BY <2>1 DEF Marked, Carries
  <2> QED BY <2>1, <2>2, <2>3, <2>4 DEF Softer
<1> QED BY <1>1, <1>2

LEMMA UnselectIs ==
  ASSUME NEW c, Marked(c)
  PROVE  LET d == Unselect(c)
         IN  /\ Softer(c, d)
             /\ DOMAIN d = DOMAIN c
             /\ \A x \in DOMAIN c \ {"sel"} : d[x] = c[x]
             /\ c.kind # "list" => d = c
<1>1. CASE c.kind # "list"
  BY <1>1 DEF Unselect, Softer
<1>2. CASE c.kind = "list"
  <2> DEFINE d == [c EXCEPT !.sel = None]
  <2>1. /\ DOMAIN d = DOMAIN c /\ \A x \in DOMAIN c \ {"sel"} : d[x] = c[x]
        /\ "sel" \in DOMAIN c => d.sel = None
    OBVIOUS
  <2>2. d = Unselect(c)
    BY <1>2 DEF Unselect
  <2> HIDE DEF d
  <2>3. CallOK(c) => CallOK(d)
    BY <2>1 DEF CallOK, Carries, Some
  <2>4. d.live = c.live
    BY <2>1 DEF Marked, Carries
  <2> QED BY <1>2, <2>1, <2>2, <2>3, <2>4 DEF Softer
<1> QED BY <1>1, <1>2

LEMMA JoinedIs ==
  ASSUME NEW c, Marked(c), NEW preview \in BOOLEAN, NEW W \in SUBSET Waiters
  PROVE  LET d == Joined(c, preview, W)
         IN  /\ Softer(c, d)
             /\ DOMAIN d = DOMAIN c
             /\ \A x \in DOMAIN c \ {"preview", "done"} : d[x] = c[x]
             /\ ~Live(c, {"list"}) => d = c
<1>1. CASE ~Live(c, {"list"})
  <2>1. ~(c.kind = "list" /\ c.live)
    BY <1>1 DEF Live
  <2> QED BY <1>1, <2>1 DEF Joined, Softer
<1>2. CASE Live(c, {"list"})
  <2> DEFINE d == [c EXCEPT !.preview = c.preview \/ preview, !.done = c.done \cup W]
  <2>1. /\ DOMAIN d = DOMAIN c /\ \A x \in DOMAIN c \ {"preview", "done"} : d[x] = c[x]
        /\ "preview" \in DOMAIN c => d.preview = (c.preview \/ preview)
        /\ "done" \in DOMAIN c => d.done = c.done \cup W
    OBVIOUS
  <2>2. d = Joined(c, preview, W)
    BY <1>2 DEF Joined, Live
  <2> HIDE DEF d
  <2>3. c.kind = "list"
    BY <1>2 DEF Live
  <2>4. CallOK(c) => CallOK(d)
    BY <2>1, <2>3 DEF CallOK, Carries, Waiters
  <2>5. d.live = c.live
    BY <2>1 DEF Marked, Carries
  <2> QED BY <1>2, <2>1, <2>2, <2>4, <2>5 DEF Softer
<1> QED BY <1>1, <1>2

-----------------------------------------------------------------------------
(* And to a state.  Pre is what Base says of a state however its calls fit *)
(* the renderer.                                                           *)
Pre(s) == IsState(s) /\ UiOK(s.ui) /\ Calls(s)

LEMMA OutdateIs ==
  ASSUME NEW s, IsState(s), Calls(s), NEW K
  PROVE  LET t == Outdate(s, K)
         IN  /\ IsState(t) /\ t.ui = s.ui /\ AllSofter(s, t) /\ Calls(t) /\ NoneLive(t, K)
             /\ \A k \in DOMAIN s.asked : t.asked[k] = Stale(s.asked[k], K)
             /\ \A k \in DOMAIN s.inbox : t.inbox[k] = Stale(s.inbox[k], K)
<1> DEFINE t == Outdate(s, K)
<1>1. /\ IsState(t) /\ t.ui = s.ui
      /\ t.asked = [k \in DOMAIN s.asked |-> Stale(s.asked[k], K)]
      /\ t.inbox = [k \in DOMAIN s.inbox |-> Stale(s.inbox[k], K)]
  BY DEF Outdate, MapCalls, IsState, Carries
<1> HIDE DEF t
<1>2. /\ IsSeq(t.asked) /\ DOMAIN t.asked = DOMAIN s.asked
      /\ IsSeq(t.inbox) /\ DOMAIN t.inbox = DOMAIN s.inbox
  <2>1. IsSeq(s.asked) /\ IsSeq(s.inbox)
    BY DEF Calls
  <2>2. /\ t.asked = [k \in DOMAIN s.asked |-> t.asked[k]]
        /\ t.inbox = [k \in DOMAIN s.inbox |-> t.inbox[k]]
    BY <1>1
  <2> QED BY <2>1, <2>2, SeqLike
<1>3. /\ \A k \in DOMAIN s.asked : t.asked[k] = Stale(s.asked[k], K)
      /\ \A k \in DOMAIN s.inbox : t.inbox[k] = Stale(s.inbox[k], K)
  BY <1>1
<1>4. AllSofter(s, t)
  BY <1>2, <1>3, AllMarked, StaleIs DEF AllSofter
<1>5. NoneLive(t, K)
  BY <1>2, <1>3, AllMarked, StaleIs DEF NoneLive
<1> QED BY <1>1, <1>3, <1>4, <1>5, SofterCalls DEF t

LEMMA ForgetIs ==
  ASSUME NEW s, IsState(s), Calls(s), NEW W
  PROVE  LET t == Forget(s, W)
         IN  /\ IsState(t) /\ t.ui = s.ui /\ AllSofter(s, t) /\ Calls(t)
             /\ \A k \in DOMAIN s.asked : t.asked[k] = WithoutWaiters(s.asked[k], W)
             /\ \A k \in DOMAIN s.inbox : t.inbox[k] = WithoutWaiters(s.inbox[k], W)
<1> DEFINE t == Forget(s, W)
<1>1. /\ IsState(t) /\ t.ui = s.ui
      /\ t.asked = [k \in DOMAIN s.asked |-> WithoutWaiters(s.asked[k], W)]
      /\ t.inbox = [k \in DOMAIN s.inbox |-> WithoutWaiters(s.inbox[k], W)]
  BY DEF Forget, MapCalls, IsState, Carries
<1> HIDE DEF t
<1>2. /\ IsSeq(t.asked) /\ DOMAIN t.asked = DOMAIN s.asked
      /\ IsSeq(t.inbox) /\ DOMAIN t.inbox = DOMAIN s.inbox
  <2>1. IsSeq(s.asked) /\ IsSeq(s.inbox)
    BY DEF Calls
  <2>2. /\ t.asked = [k \in DOMAIN s.asked |-> t.asked[k]]
        /\ t.inbox = [k \in DOMAIN s.inbox |-> t.inbox[k]]
    BY <1>1
  <2> QED BY <2>1, <2>2, SeqLike
<1>3. /\ \A k \in DOMAIN s.asked : t.asked[k] = WithoutWaiters(s.asked[k], W)
      /\ \A k \in DOMAIN s.inbox : t.inbox[k] = WithoutWaiters(s.inbox[k], W)
  BY <1>1
<1>4. AllSofter(s, t)
  BY <1>2, <1>3, AllMarked, WithoutIs DEF AllSofter
<1> QED BY <1>1, <1>3, <1>4, SofterCalls DEF t

LEMMA ResetIs ==
  ASSUME NEW s, Pre(s)
  PROVE  LET t == ResetRefreshSelection(s)
         IN  /\ IsState(t) /\ t.ui = [s.ui EXCEPT !.keep = None] /\ AllSofter(s, t) /\ Calls(t)
             /\ \A k \in DOMAIN s.asked : t.asked[k] = Unselect(s.asked[k])
             /\ \A k \in DOMAIN s.inbox : t.inbox[k] = Unselect(s.inbox[k])
<1> DEFINE t == ResetRefreshSelection(s)
<1>1. /\ IsState(t) /\ t.ui = [s.ui EXCEPT !.keep = None]
      /\ t.asked = [k \in DOMAIN s.asked |-> Unselect(s.asked[k])]
      /\ t.inbox = [k \in DOMAIN s.inbox |-> Unselect(s.inbox[k])]
  BY DEF ResetRefreshSelection, MapCalls, IsState, Pre, Carries
<1> HIDE DEF t
<1>2. /\ IsSeq(t.asked) /\ DOMAIN t.asked = DOMAIN s.asked
      /\ IsSeq(t.inbox) /\ DOMAIN t.inbox = DOMAIN s.inbox
  <2>1. IsSeq(s.asked) /\ IsSeq(s.inbox)
    BY DEF Calls, Pre
  <2>2. /\ t.asked = [k \in DOMAIN s.asked |-> t.asked[k]]
        /\ t.inbox = [k \in DOMAIN s.inbox |-> t.inbox[k]]
    BY <1>1
  <2> QED BY <2>1, <2>2, SeqLike
<1>3. /\ \A k \in DOMAIN s.asked : t.asked[k] = Unselect(s.asked[k])
      /\ \A k \in DOMAIN s.inbox : t.inbox[k] = Unselect(s.inbox[k])
  BY <1>1
<1>4. AllSofter(s, t)
  BY <1>2, <1>3, AllMarked, UnselectIs DEF AllSofter, Pre
<1> QED BY <1>1, <1>3, <1>4, SofterCalls DEF t, Pre

LEMMA JoinIs ==
  ASSUME NEW s, IsState(s), Calls(s), NEW preview \in BOOLEAN, NEW W \in SUBSET Waiters
  PROVE  LET t == MapCalls(s, LAMBDA c : Joined(c, preview, W))
         IN  /\ IsState(t) /\ t.ui = s.ui /\ AllSofter(s, t) /\ Calls(t)
             /\ \A k \in DOMAIN s.asked : t.asked[k] = Joined(s.asked[k], preview, W)
             /\ \A k \in DOMAIN s.inbox : t.inbox[k] = Joined(s.inbox[k], preview, W)
<1> DEFINE t == MapCalls(s, LAMBDA c : Joined(c, preview, W))
<1>1. /\ IsState(t) /\ t.ui = s.ui
      /\ t.asked = [k \in DOMAIN s.asked |-> Joined(s.asked[k], preview, W)]
      /\ t.inbox = [k \in DOMAIN s.inbox |-> Joined(s.inbox[k], preview, W)]
  BY DEF MapCalls, IsState, Carries
<1> HIDE DEF t
<1>2. /\ IsSeq(t.asked) /\ DOMAIN t.asked = DOMAIN s.asked
      /\ IsSeq(t.inbox) /\ DOMAIN t.inbox = DOMAIN s.inbox
  <2>1. IsSeq(s.asked) /\ IsSeq(s.inbox)
    BY DEF Calls
  <2>2. /\ t.asked = [k \in DOMAIN s.asked |-> t.asked[k]]
        /\ t.inbox = [k \in DOMAIN s.inbox |-> t.inbox[k]]
    BY <1>1
  <2> QED BY <2>1, <2>2, SeqLike
<1>3. /\ \A k \in DOMAIN s.asked : t.asked[k] = Joined(s.asked[k], preview, W)
      /\ \A k \in DOMAIN s.inbox : t.inbox[k] = Joined(s.inbox[k], preview, W)
  BY <1>1
<1>4. AllSofter(s, t)
  BY <1>2, <1>3, AllMarked, JoinedIs DEF AllSofter
<1> QED BY <1>1, <1>3, <1>4, SofterCalls DEF t

LEMMA AskIs ==
  ASSUME NEW s, IsState(s), Calls(s), NEW c, CallOK(c),
         \A k \in DOMAIN s.asked : ~Clash(s.asked[k], c),
         \A k \in DOMAIN s.inbox : ~Clash(s.inbox[k], c)
  PROVE  LET t == Ask(s, c)
         IN  /\ IsState(t) /\ t.ui = s.ui /\ t.inbox = s.inbox /\ Calls(t)
             /\ t.asked = Append(s.asked, c)
             /\ DOMAIN t.asked = 1 .. Len(s.asked) + 1 /\ DOMAIN s.asked = 1 .. Len(s.asked)
             /\ Len(s.asked) \in Nat
             /\ \A k \in DOMAIN s.asked : t.asked[k] = s.asked[k]
             /\ t.asked[Len(s.asked) + 1] = c
             /\ \A K : ~Live(c, K) /\ NoneLive(s, K) => NoneLive(t, K)
<1> DEFINE t == Ask(s, c)
           n == Len(s.asked)
<1>1. IsState(t) /\ t.ui = s.ui /\ t.inbox = s.inbox /\ t.asked = Append(s.asked, c)
  BY DEF Ask, IsState, Carries
<1>2. IsSeq(s.asked) /\ IsSeq(s.inbox)
  BY DEF Calls
<1> HIDE DEF t
<1>3. /\ IsSeq(t.asked) /\ DOMAIN t.asked = 1 .. n + 1 /\ DOMAIN s.asked = 1 .. n /\ n \in Nat
      /\ \A k \in DOMAIN s.asked : t.asked[k] = s.asked[k]
      /\ t.asked[n + 1] = c
  BY <1>1, <1>2, AppendIs, SeqIs
<1> HIDE DEF n
<1>4. \A k \in DOMAIN t.asked : k \in DOMAIN s.asked \/ k = n + 1
  BY <1>3
<1>5. \A K : ~Live(c, K) /\ NoneLive(s, K) => NoneLive(t, K)
  BY <1>1, <1>3, <1>4 DEF NoneLive
<1>6. \A i, j \in DOMAIN t.asked : i < j => ~Clash(t.asked[i], t.asked[j])
  <2> SUFFICES ASSUME NEW i \in DOMAIN t.asked, NEW j \in DOMAIN t.asked, i < j
               PROVE  ~Clash(t.asked[i], t.asked[j])
    OBVIOUS
  <2>1. i \in DOMAIN s.asked
    BY <1>3
  <2>2. CASE j = n + 1
    BY <1>3, <2>1, <2>2
  <2>3. CASE j \in DOMAIN s.asked
    BY <1>3, <2>1, <2>3 DEF Calls, Orderly
  <2> QED BY <1>4, <2>2, <2>3
<1>7. Orderly(t)
  BY <1>1, <1>3, <1>4, <1>6 DEF Orderly, Calls
<1>8. Calls(t)
  BY <1>1, <1>2, <1>3, <1>4, <1>7 DEF Calls
<1> QED BY <1>1, <1>3, <1>5, <1>8 DEF t, n

(* The fields of the renderer's state that no answer is about.             *)
AsideFields == {"keep", "editor", "drag", "dialog", "removing"}

LEMMA AsideUi ==
  ASSUME NEW u, UiOK(u), NEW v, But(u, v, AsideFields), v.keep \in Some, v.drag \in Some,
         EditorOK(v.editor), v.dialog \in Tabs \cup {None}, v.removing \in Tabs \cup {None}
  PROVE  /\ UiOK(v)
         /\ \A x \in UiFields \ AsideFields : v[x] = u[x]
<1>1. DOMAIN v = UiFields /\ \A x \in UiFields \ AsideFields : v[x] = u[x]
  BY DEF But, UiOK
<1> QED BY <1>1 DEF UiOK, UiFields, AsideFields

LEMMA DoneIs ==
  ASSUME NEW s, Pre(s), NEW W
  PROVE  LET t == Done(s, W)
         IN  /\ Pre(t) /\ t.asked = s.asked /\ t.inbox = s.inbox
             /\ But(s.ui, t.ui, {"keep", "editor"})
             /\ t.ui.keep = (IF "keep" \in W THEN None ELSE s.ui.keep)
             /\ t.ui.editor.id = s.ui.editor.id
<1> DEFINE t == Done(s, W)
           keep == IF "keep" \in W THEN None ELSE s.ui.keep
           saving == IF "tag" \in W THEN FALSE ELSE s.ui.editor.saving
           editor == [s.ui.editor EXCEPT !.saving = saving]
<1>1. /\ IsState(t) /\ t.asked = s.asked /\ t.inbox = s.inbox
      /\ t.ui = [s.ui EXCEPT !.keep = keep, !.editor = editor]
  BY DEF Done, IsState, Pre, UiOK, UiFields, Carries
<1>2. EditorOK(s.ui.editor) /\ DOMAIN s.ui = UiFields /\ s.ui.keep \in Some /\ s.ui.drag \in Some
      /\ s.ui.dialog \in Tabs \cup {None} /\ s.ui.removing \in Tabs \cup {None}
  BY DEF Pre, UiOK
<1>3. keep \in Some
  BY <1>2 DEF Some
<1>4. EditorOK(editor) /\ editor.id = s.ui.editor.id
  <2>1. saving \in BOOLEAN
    BY <1>2 DEF EditorOK
  <2> HIDE DEF saving
  <2> QED BY <1>2, <2>1 DEF EditorOK
<1> HIDE DEF t, keep, editor
<1>5. But(s.ui, t.ui, {"keep", "editor"}) /\ t.ui.keep = keep /\ t.ui.editor = editor
  BY <1>1, <1>2 DEF But, UiFields
<1>6. But(s.ui, t.ui, AsideFields) /\ t.ui.drag = s.ui.drag /\ t.ui.dialog = s.ui.dialog
      /\ t.ui.removing = s.ui.removing
  BY <1>2, <1>5 DEF But, AsideFields, UiFields
<1>7. UiOK(t.ui)
  BY <1>2, <1>3, <1>4, <1>5, <1>6, AsideUi DEF Pre
<1>8. Calls(t)
  BY <1>1 DEF Pre, Calls, Orderly
<1> QED BY <1>1, <1>4, <1>5, <1>7, <1>8 DEF Pre, t, keep

LEMMA HidePreviewIs ==
  ASSUME NEW s, Pre(s)
  PROVE  LET t == HidePreview(s)
         IN  /\ Pre(t) /\ AllSofter(s, t) /\ NoneLive(t, {"preview"})
             /\ But(s.ui, t.ui, {"preview", "revealed"})
             /\ t.ui.preview = None /\ t.ui.revealed = None
             /\ \A k \in DOMAIN s.asked : t.asked[k] = Stale(s.asked[k], {"preview"})
             /\ \A k \in DOMAIN s.inbox : t.inbox[k] = Stale(s.inbox[k], {"preview"})
<1> DEFINE r == [s EXCEPT !.ui.revealed = None, !.ui.preview = None]
<1>1. /\ IsState(r) /\ r.asked = s.asked /\ r.inbox = s.inbox
      /\ r.ui = [s.ui EXCEPT !.revealed = None, !.preview = None]
  BY DEF IsState, Pre, Carries
<1>2. HidePreview(s) = Outdate(r, {"preview"})
  BY DEF HidePreview
<1> HIDE DEF r
<1>3. DOMAIN s.ui = UiFields
  BY DEF Pre, UiOK
<1>4. /\ But(s.ui, r.ui, {"preview", "revealed"}) /\ r.ui.preview = None /\ r.ui.revealed = None
  BY <1>1, <1>3 DEF But, UiFields
<1>5. UiOK(r.ui)
  <2>1. DOMAIN r.ui = UiFields /\ \A x \in UiFields \ {"preview", "revealed"} : r.ui[x] = s.ui[x]
    BY <1>3, <1>4 DEF But
  <2> QED BY <1>4, <2>1 DEF UiOK, Pre, UiFields, Some
<1>6. Calls(r)
  BY <1>1 DEF Pre, Calls, Orderly
<1> DEFINE t == Outdate(r, {"preview"})
<1>7. /\ IsState(t) /\ t.ui = r.ui /\ AllSofter(r, t) /\ Calls(t) /\ NoneLive(t, {"preview"})
      /\ \A k \in DOMAIN r.asked : t.asked[k] = Stale(r.asked[k], {"preview"})
      /\ \A k \in DOMAIN r.inbox : t.inbox[k] = Stale(r.inbox[k], {"preview"})
  BY <1>1, <1>6, OutdateIs
<1> HIDE DEF t
<1>8. AllSofter(s, t)
  BY <1>1, <1>7 DEF AllSofter
<1> QED BY <1>1, <1>2, <1>4, <1>5, <1>7, <1>8 DEF Pre, t

(* A call that concerns neither the list nor the preview.                  *)
Beside(c, d) ==
  /\ Softer(c, d)
  /\ c.kind \in {"list", "search", "preview"} => d.live = c.live
  /\ c.kind = "list" /\ CallOK(c) => d.sel = c.sel /\ d.preview = c.preview
  /\ "done" \in DOMAIN c => d.done \subseteq c.done

AllBeside(s, t) ==
  /\ IsSeq(t.asked) /\ DOMAIN t.asked = DOMAIN s.asked
  /\ IsSeq(t.inbox) /\ DOMAIN t.inbox = DOMAIN s.inbox
  /\ \A k \in DOMAIN s.asked : Beside(s.asked[k], t.asked[k])
  /\ \A k \in DOMAIN s.inbox : Beside(s.inbox[k], t.inbox[k])

LEMMA ClosedIs ==
  ASSUME NEW c, Marked(c)
  PROVE  Beside(c, WithoutWaiters(Stale(c, {"tag", "createTab", "title"}), {"tag"}))
<1> DEFINE K == {"tag", "createTab", "title"}
           d == Stale(c, K)
           e == WithoutWaiters(d, {"tag"})
<1>1. Softer(c, d)
  BY StaleIs
<1>2. Marked(d)
  BY <1>1 DEF Softer, Marked, Carries
<1>3. /\ Softer(d, e) /\ DOMAIN e = DOMAIN d
      /\ \A x \in DOMAIN d \ {"done"} : e[x] = d[x]
      /\ "done" \in DOMAIN d => e.done = d.done \ {"tag"}
  BY <1>2, WithoutIs
<1>4. Softer(c, e)
  BY <1>1, <1>3 DEF Softer
<1>5. "done" \in DOMAIN c => d.done = c.done
  BY DEF Stale
<1>6. e.live = d.live
  BY <1>2, <1>3 DEF Marked, Carries
<1>7. c.kind \in {"list", "search", "preview"} => d = c
  BY StaleIs
<1> HIDE DEF d, e
<1>8. c.kind \in {"list", "search", "preview"} => e.live = c.live
  BY <1>6, <1>7
<1>9. c.kind = "list" /\ CallOK(c) => e.sel = c.sel /\ e.preview = c.preview
  <2> SUFFICES ASSUME c.kind = "list", CallOK(c) PROVE e.sel = c.sel /\ e.preview = c.preview
    OBVIOUS
  <2>1. d = c
    BY <1>7
  <2> QED BY <1>3, <2>1 DEF CallOK, Carries
<1>10. "done" \in DOMAIN c => e.done \subseteq c.done
  BY <1>1, <1>3, <1>5 DEF Softer
<1> QED BY <1>4, <1>8, <1>9, <1>10 DEF Beside, d, e

LEMMA BesideSofter ==
  ASSUME NEW s, NEW t, AllBeside(s, t)
  PROVE  AllSofter(s, t)
BY DEF AllBeside, AllSofter, Beside

LEMMA BesideSame ==
  ASSUME NEW s, Calls(s), NEW t, t.asked = s.asked, t.inbox = s.inbox
  PROVE  AllBeside(s, t)
BY DEF AllBeside, Beside, Softer, Calls

LEMMA CloseEditorsIs ==
  ASSUME NEW s, Pre(s), NEW kinds
  PROVE  LET t == CloseEditors(s, kinds)
         IN  /\ Pre(t) /\ AllBeside(s, t)
             /\ But(s.ui, t.ui, {"editor"})
             /\ t.ui.editor \in {NoEditor, s.ui.editor}
             /\ AllEditors \subseteq kinds => t.ui.editor.id = None
<1> DEFINE r == [s EXCEPT !.ui.editor = NoEditor]
           o == Outdate(r, {"tag", "createTab", "title"})
           t == Forget(o, {"tag"})
<1>1. CASE s.ui.editor.kind \notin kinds
  <2>1. CloseEditors(s, kinds) = s
    BY <1>1 DEF CloseEditors
  <2>2. AllEditors \subseteq kinds => s.ui.editor.id = None
    BY <1>1 DEF Pre, UiOK, EditorOK, AllEditors
  <2>3. AllBeside(s, s)
    BY BesideSame DEF Pre
  <2> QED BY <2>1, <2>2, <2>3 DEF But
<1>2. CASE s.ui.editor.kind \in kinds
  <2>1. CloseEditors(s, kinds) = t
    BY <1>2 DEF CloseEditors
  <2>2. /\ IsState(r) /\ r.asked = s.asked /\ r.inbox = s.inbox
        /\ r.ui = [s.ui EXCEPT !.editor = NoEditor]
    BY DEF IsState, Pre, Carries
  <2> HIDE DEF r
  <2>3. But(s.ui, r.ui, {"editor"}) /\ r.ui.editor = NoEditor
    BY <2>2 DEF But, Pre, UiOK, UiFields
  <2>4. UiOK(r.ui)
    <3>1. EditorOK(NoEditor)
      BY DEF EditorOK, NoEditor, Some
    <3>2. DOMAIN s.ui = UiFields
      BY DEF Pre, UiOK
    <3>3. /\ But(s.ui, r.ui, AsideFields) /\ r.ui.keep = s.ui.keep /\ r.ui.drag = s.ui.drag
          /\ r.ui.dialog = s.ui.dialog /\ r.ui.removing = s.ui.removing
      BY <2>3, <3>2 DEF But, AsideFields, UiFields
    <3>4. /\ UiOK(s.ui) /\ r.ui.keep \in Some /\ r.ui.drag \in Some
          /\ r.ui.dialog \in Tabs \cup {None} /\ r.ui.removing \in Tabs \cup {None}
      BY <3>3 DEF Pre, UiOK
    <3> QED BY <2>3, <3>1, <3>3, <3>4, AsideUi
  <2>5. Calls(r)
    BY <2>2 DEF Pre, Calls, Orderly
  <2>6. /\ IsState(o) /\ o.ui = r.ui /\ Calls(o) /\ AllSofter(r, o)
        /\ \A k \in DOMAIN r.asked : o.asked[k] = Stale(r.asked[k], {"tag", "createTab", "title"})
        /\ \A k \in DOMAIN r.inbox : o.inbox[k] = Stale(r.inbox[k], {"tag", "createTab", "title"})
    BY <2>2, <2>5, OutdateIs
  <2> HIDE DEF o
  <2>7. /\ IsState(t) /\ t.ui = o.ui /\ AllSofter(o, t) /\ Calls(t)
        /\ \A k \in DOMAIN o.asked : t.asked[k] = WithoutWaiters(o.asked[k], {"tag"})
        /\ \A k \in DOMAIN o.inbox : t.inbox[k] = WithoutWaiters(o.inbox[k], {"tag"})
    BY <2>6, ForgetIs
  <2> HIDE DEF t
  <2>8. AllBeside(s, t)
    BY <2>2, <2>5, <2>6, <2>7, AllMarked, ClosedIs DEF AllBeside, AllSofter
  <2>9. NoEditor.id = None
    BY DEF NoEditor
  <2> QED BY <2>1, <2>3, <2>4, <2>6, <2>7, <2>8, <2>9 DEF Pre
<1> QED BY <1>1, <1>2

-----------------------------------------------------------------------------
(* When Base stays true: a step that takes nothing from a call in flight,  *)
(* and one more call.                                                      *)
FreeFields == AsideFields \cup {"preview", "revealed", "sel", "start", "height"}

LEMMA SofterFits ==
  ASSUME NEW c, MessageOK(c) \/ CallOK(c), NEW d, Softer(c, d), NEW u, NEW v, Fits(c, u),
         v.mode = u.mode, v.filter = u.filter, v.rows = u.rows, v.offset = u.offset,
         v.total = u.total, v.preview \in {None, u.preview}
  PROVE  Fits(d, v)
<1>1. Carries(c, {"kind"}) /\ \A K : Live(d, K) => Live(c, K)
  <2>1. Carries(c, {"kind"})
    BY DEF MessageOK, AnswerOK, CallOK, Carries
  <2> QED BY <2>1, SofterOK
<1>2. ASSUME Live(d, {"list"})
      PROVE  /\ v.mode = "recent" /\ d.filter = v.filter
             /\ d.reload => d.offset = v.offset /\ v.rows = <<>> /\ v.preview = None
             /\ ~d.reload /\ v.total = 0 => d.offset = 0
  <2>1. Live(c, {"list"})
    BY <1>1, <1>2
  <2>2. CallOK(c)
    BY <2>1 DEF MessageOK, AnswerOK, Live, EventKinds
  <2>3. d.filter = c.filter /\ d.reload = c.reload /\ d.offset = c.offset
    BY <2>1, <2>2 DEF Softer, CallOK, Carries, Live
  <2> QED BY <2>1, <2>3 DEF Fits
<1>3. ASSUME Live(d, {"search"})
      PROVE  v.mode = "search" /\ d.filter = v.filter /\ v.preview = None
  <2>1. Live(c, {"search"})
    BY <1>1, <1>3
  <2>2. CallOK(c)
    BY <2>1 DEF MessageOK, AnswerOK, Live, EventKinds
  <2>3. d.filter = c.filter
    BY <2>1, <2>2 DEF Softer, CallOK, Carries, Live
  <2> QED BY <2>1, <2>3 DEF Fits
<1> QED BY <1>2, <1>3 DEF Fits

LEMMA BaseStays ==
  ASSUME NEW s, Base(s), NEW t, Pre(t), AllSofter(s, t), But(s.ui, t.ui, FreeFields),
         t.ui.preview \in {None, s.ui.preview},
         ~s.ui.active => /\ t.ui.preview = None /\ t.ui.revealed = None
                         /\ t.ui.keep = None /\ t.ui.editor.id = None
  PROVE  Base(t)
<1>1. /\ UiOK(s.ui) /\ UiOK(t.ui) /\ Calls(s) /\ AllFit(s)
      /\ DOMAIN s.ui = UiFields
  BY DEF Base, UiOK, Pre
<1>2. /\ t.ui.active = s.ui.active /\ t.ui.mode = s.ui.mode /\ t.ui.query = s.ui.query
      /\ t.ui.filter = s.ui.filter /\ t.ui.rows = s.ui.rows /\ t.ui.offset = s.ui.offset
      /\ t.ui.total = s.ui.total /\ t.ui.tabs = s.ui.tabs /\ t.ui.failed = s.ui.failed
  BY <1>1 DEF But, FreeFields, AsideFields, UiFields
<1>3. AllFit(t)
  <2>1. \A k \in DOMAIN t.asked : Fits(t.asked[k], t.ui)
    BY <1>1, <1>2, SofterFits DEF AllFit, AllSofter, Calls
  <2>2. \A k \in DOMAIN t.inbox : Fits(t.inbox[k], t.ui)
    BY <1>1, <1>2, SofterFits DEF AllFit, AllSofter, Calls
  <2> QED BY <2>1, <2>2 DEF AllFit
<1>4. Quiet(t)
  <2> SUFFICES ASSUME ~t.ui.active
               PROVE  Blank(t.ui) /\ NoneLive(t, {"list", "search", "preview", "removeTab"})
    BY DEF Quiet
  <2>1. Blank(s.ui) /\ NoneLive(s, {"list", "search", "preview", "removeTab"})
    BY <1>2 DEF Base, Quiet
  <2>2. NoneLive(t, {"list", "search", "preview", "removeTab"})
    BY <1>1, <2>1, SofterCalls
  <2> QED BY <1>2, <2>1, <2>2 DEF Blank
<1> QED BY <1>2, <1>3, <1>4 DEF Base, Pre

LEMMA BaseAsk ==
  ASSUME NEW s, Base(s), NEW c, CallOK(c), Fits(c, s.ui),
         \A k \in DOMAIN s.asked : ~Clash(s.asked[k], c),
         \A k \in DOMAIN s.inbox : ~Clash(s.inbox[k], c),
         ~s.ui.active => ~Live(c, {"list", "search", "preview", "removeTab"})
  PROVE  Base(Ask(s, c))
<1> DEFINE t == Ask(s, c)
           n == Len(s.asked)
<1>1. /\ IsState(t) /\ t.ui = s.ui /\ t.inbox = s.inbox /\ Calls(t)
      /\ DOMAIN t.asked = 1 .. n + 1 /\ DOMAIN s.asked = 1 .. n /\ n \in Nat
      /\ \A k \in DOMAIN s.asked : t.asked[k] = s.asked[k]
      /\ t.asked[n + 1] = c
      /\ \A K : ~Live(c, K) /\ NoneLive(s, K) => NoneLive(t, K)
  BY AskIs DEF Base
<1> HIDE DEF t, n
<1>2. \A k \in DOMAIN t.asked : k \in DOMAIN s.asked \/ k = n + 1
  BY <1>1
<1>3. AllFit(t)
  BY <1>1, <1>2 DEF AllFit, Base
<1>4. Quiet(t)
  BY <1>1 DEF Quiet, Base
<1>5. Base(t)
  BY <1>1, <1>3, <1>4 DEF Base
<1> QED BY <1>5 DEF t

(* A call that is no read goes with everything.                            *)
LEMMA BaseAskAside ==
  ASSUME NEW s, Base(s), NEW c, CallOK(c), c.kind \notin {"list", "search", "preview"},
         ~s.ui.active => ~Live(c, {"removeTab"})
  PROVE  Base(Ask(s, c))
<1>1. ~Live(c, {"list"}) /\ ~Live(c, {"search"}) /\ ~Live(c, {"preview"})
      /\ ~Live(c, {"list", "search"})
  BY DEF Live
<1>2. Fits(c, s.ui)
  BY <1>1 DEF Fits
<1>3. \A d : ~Clash(d, c)
  BY <1>1 DEF Clash
<1>4. Live(c, {"list", "search", "preview", "removeTab"}) => Live(c, {"removeTab"})
  BY DEF Live
<1> QED BY <1>2, <1>3, <1>4, BaseAsk

LEMMA RowAtIs ==
  ASSUME NEW s, UiOK(s.ui), NEW i \in Nat
  PROVE  /\ RowAt(s, i).id # None =>
              /\ i - s.ui.offset + 1 \in DOMAIN s.ui.rows
              /\ RowAt(s, i) = s.ui.rows[i - s.ui.offset + 1]
         /\ i - s.ui.offset + 1 \in DOMAIN s.ui.rows =>
              /\ RowAt(s, i) = s.ui.rows[i - s.ui.offset + 1] /\ RowAt(s, i) \in ListRows
              /\ RowAt(s, i).id # None
         /\ RowAt(s, i).id # None => s.ui.rows # <<>> /\ RowAt(s, i) \in ListRows
         /\ RowAt(s, i).id \in Some /\ RowAt(s, i).titled \in BOOLEAN
         /\ RowAt(s, i).tags \in SUBSET Tabs
<1>1. /\ s.ui.rows \in Seq(ListRows) /\ s.ui.offset \in Nat
      /\ Len(s.ui.rows) \in Nat /\ DOMAIN s.ui.rows = 1 .. Len(s.ui.rows)
      /\ \A k \in DOMAIN s.ui.rows : s.ui.rows[k] \in ListRows
  BY DEF UiOK
<1>2. \A row \in ListRows : row.id # None /\ row.id \in Some /\ row.titled \in BOOLEAN
                            /\ row.tags \in SUBSET Tabs
  BY PaletteAssumption DEF ListRows, Some
<1>3. /\ NoRow.id = None /\ NoRow.titled = FALSE /\ NoRow.id \in Some /\ NoRow.titled \in BOOLEAN
      /\ NoRow.tags \in SUBSET Tabs
  BY DEF NoRow, Row, Some
<1> DEFINE n == i - s.ui.offset
<1>4. n \in 0 .. Len(s.ui.rows) - 1 <=> n + 1 \in DOMAIN s.ui.rows
  BY <1>1, SMTT(30)
<1>5. RowAt(s, i) = IF n + 1 \in DOMAIN s.ui.rows THEN s.ui.rows[n + 1] ELSE NoRow
  BY <1>4 DEF RowAt
<1>6. s.ui.rows = <<>> => DOMAIN s.ui.rows = {}
  BY <1>1
<1> HIDE DEF n
<1>7. CASE n + 1 \in DOMAIN s.ui.rows
  BY <1>1, <1>2, <1>5, <1>6, <1>7 DEF n
<1>8. CASE n + 1 \notin DOMAIN s.ui.rows
  BY <1>3, <1>5, <1>8 DEF n
<1> QED BY <1>7, <1>8

LEMMA SelectedIs ==
  ASSUME NEW s, UiOK(s.ui)
  PROVE  /\ Selected(s).id # None => s.ui.rows # <<>> /\ Selected(s).id \in Items
         /\ Selected(s).id # None =>
              /\ s.ui.sel - s.ui.offset + 1 \in DOMAIN s.ui.rows
              /\ Selected(s) = s.ui.rows[s.ui.sel - s.ui.offset + 1]
         /\ Selected(s).id \in Some /\ Selected(s).titled \in BOOLEAN
         /\ Selected(s).tags \in SUBSET Tabs
<1>1. s.ui.sel \in Nat
  BY DEF UiOK
<1> QED BY <1>1, RowAtIs DEF Selected, Some

LEMMA BaseDone ==
  ASSUME NEW s, Base(s), NEW W
  PROVE  Base(Done(s, W))
<1> DEFINE t == Done(s, W)
<1>1. Pre(s)
  BY DEF Base, Pre
<1>2. /\ Pre(t) /\ t.asked = s.asked /\ t.inbox = s.inbox
      /\ But(s.ui, t.ui, {"keep", "editor"})
      /\ t.ui.keep = (IF "keep" \in W THEN None ELSE s.ui.keep)
      /\ t.ui.editor.id = s.ui.editor.id
  BY <1>1, DoneIs
<1> HIDE DEF t
<1>3. AllSofter(s, t)
  BY <1>1, <1>2, BesideSame, BesideSofter DEF Pre
<1>4. /\ But(s.ui, t.ui, FreeFields) /\ t.ui.preview = s.ui.preview /\ t.ui.active = s.ui.active
      /\ t.ui.revealed = s.ui.revealed
  BY <1>1, <1>2 DEF Pre, UiOK, But, FreeFields, AsideFields, UiFields
<1>5. ~s.ui.active => /\ t.ui.preview = None /\ t.ui.revealed = None
                      /\ t.ui.keep = None /\ t.ui.editor.id = None
  BY <1>2, <1>4 DEF Base, Quiet, Blank
<1>6. Base(t)
  BY <1>2, <1>3, <1>4, <1>5, BaseStays
<1> QED BY <1>6 DEF t

LEMMA BaseHidePreview ==
  ASSUME NEW s, Base(s)
  PROVE  Base(HidePreview(s))
<1> DEFINE t == HidePreview(s)
<1>1. Pre(s)
  BY DEF Base, Pre
<1>2. /\ Pre(t) /\ AllSofter(s, t) /\ But(s.ui, t.ui, {"preview", "revealed"})
      /\ t.ui.preview = None /\ t.ui.revealed = None
  BY <1>1, HidePreviewIs
<1> HIDE DEF t
<1>3. But(s.ui, t.ui, FreeFields) /\ t.ui.keep = s.ui.keep /\ t.ui.editor = s.ui.editor
  BY <1>1, <1>2 DEF Pre, UiOK, But, FreeFields, UiFields
<1>4. Base(t)
  BY <1>2, <1>3, BaseStays DEF Base, Quiet, Blank
<1> QED BY <1>4 DEF t

LEMMA BaseCloseEditors ==
  ASSUME NEW s, Base(s), NEW kinds
  PROVE  Base(CloseEditors(s, kinds))
<1> DEFINE t == CloseEditors(s, kinds)
<1>1. Pre(s)
  BY DEF Base, Pre
<1>2. /\ Pre(t) /\ AllBeside(s, t) /\ But(s.ui, t.ui, {"editor"})
      /\ t.ui.editor \in {NoEditor, s.ui.editor}
  BY <1>1, CloseEditorsIs
<1> HIDE DEF t
<1>3. /\ But(s.ui, t.ui, FreeFields) /\ t.ui.keep = s.ui.keep /\ t.ui.preview = s.ui.preview
      /\ t.ui.revealed = s.ui.revealed
  BY <1>1, <1>2 DEF Pre, UiOK, But, FreeFields, AsideFields, UiFields
<1>4. AllSofter(s, t)
  BY <1>2, BesideSofter
<1>5. NoEditor.id = None
  BY DEF NoEditor
<1>6. ~s.ui.active => t.ui.editor.id = None
  BY <1>2, <1>5 DEF Base, Quiet, Blank
<1>7. Base(t)
  BY <1>2, <1>3, <1>4, <1>6, BaseStays DEF Base, Quiet, Blank
<1> QED BY <1>7 DEF t

LEMMA BaseReset ==
  ASSUME NEW s, Base(s)
  PROVE  Base(ResetRefreshSelection(s))
<1> DEFINE t == ResetRefreshSelection(s)
<1>1. Pre(s)
  BY DEF Base, Pre
<1>2. /\ IsState(t) /\ t.ui = [s.ui EXCEPT !.keep = None] /\ AllSofter(s, t) /\ Calls(t)
  BY <1>1, ResetIs
<1> HIDE DEF t
<1>3. /\ But(s.ui, t.ui, AsideFields) /\ But(s.ui, t.ui, FreeFields) /\ t.ui.keep = None
      /\ t.ui.preview = s.ui.preview /\ t.ui.revealed = s.ui.revealed
      /\ t.ui.editor = s.ui.editor /\ t.ui.drag = s.ui.drag /\ t.ui.dialog = s.ui.dialog
      /\ t.ui.removing = s.ui.removing
  BY <1>1, <1>2 DEF Pre, UiOK, But, FreeFields, AsideFields, UiFields
<1>4. UiOK(t.ui)
  <2>1. UiOK(s.ui)
    BY <1>1 DEF Pre
  <2> QED BY <1>3, <2>1, AsideUi DEF UiOK, Some
<1>5. Pre(t)
  BY <1>2, <1>4 DEF Pre
<1>6. ~s.ui.active => /\ t.ui.preview = None /\ t.ui.revealed = None
                      /\ t.ui.keep = None /\ t.ui.editor.id = None
  BY <1>3 DEF Base, Quiet, Blank
<1>7. AllSofter(s, t) /\ But(s.ui, t.ui, FreeFields) /\ t.ui.preview \in {None, s.ui.preview}
  BY <1>2, <1>3
<1>8. Base(t)
  BY <1>5, <1>6, <1>7, BaseStays
<1> QED BY <1>8 DEF t

LEMMA BaseOutdate ==
  ASSUME NEW s, Base(s), NEW K
  PROVE  Base(Outdate(s, K))
<1> DEFINE t == Outdate(s, K)
<1>1. IsState(t) /\ t.ui = s.ui /\ AllSofter(s, t) /\ Calls(t)
  BY OutdateIs DEF Base
<1> HIDE DEF t
<1>2. Pre(t) /\ But(s.ui, t.ui, FreeFields)
  BY <1>1 DEF Pre, Base, But
<1>3. Base(t)
  BY <1>1, <1>2, BaseStays DEF Base, Quiet, Blank
<1> QED BY <1>3 DEF t

-----------------------------------------------------------------------------
(* The operators that look at the list and ask for more.                   *)
PreviewCall(s, W) == [kind |-> "preview", live |-> TRUE, id |-> Selected(s).id, done |-> W]

LEMMA SetPreview ==
  ASSUME NEW s, Pre(s), NEW x \in Some
  PROVE  LET t == [s EXCEPT !.ui.preview = x]
         IN  /\ Pre(t) /\ t.asked = s.asked /\ t.inbox = s.inbox
             /\ But(s.ui, t.ui, {"preview"}) /\ t.ui.preview = x
<1> DEFINE t == [s EXCEPT !.ui.preview = x]
<1>1. /\ IsState(t) /\ t.asked = s.asked /\ t.inbox = s.inbox
      /\ t.ui = [s.ui EXCEPT !.preview = x]
  BY DEF IsState, Pre, Carries
<1> HIDE DEF t
<1>2. DOMAIN s.ui = UiFields /\ UiOK(s.ui)
  BY DEF Pre, UiOK
<1>3. But(s.ui, t.ui, {"preview"}) /\ t.ui.preview = x
  BY <1>1, <1>2 DEF But, UiFields
<1>4. UiOK(t.ui)
  <2>1. DOMAIN t.ui = UiFields /\ \A y \in UiFields \ {"preview"} : t.ui[y] = s.ui[y]
    BY <1>2, <1>3 DEF But
  <2> QED BY <1>2, <1>3, <2>1 DEF UiOK, UiFields
<1>5. Calls(t)
  BY <1>1 DEF Pre, Calls, Orderly
<1> QED BY <1>1, <1>3, <1>4, <1>5 DEF Pre, t

LEMMA LoadPreviewIs ==
  ASSUME NEW s, Base(s), NEW W \in SUBSET Waiters
  PROVE  LET o == Outdate(s, {"preview"})
             p == [o EXCEPT !.ui.preview = None]
             c == PreviewCall(s, W)
         IN  \/ /\ LoadPreview(s, W) = Done(p, W)
                /\ Base(p) /\ p.asked = o.asked /\ p.inbox = o.inbox
                /\ But(s.ui, p.ui, {"preview"}) /\ p.ui.preview = None
                /\ Base(LoadPreview(s, W))
             \/ /\ s.ui.active /\ Selected(s).id \in Items /\ ~ContentHidden(s)
                /\ LoadPreview(s, W) = Ask(o, c)
                /\ CallOK(c) /\ c.id = Selected(s).id /\ c.done = W /\ ~Live(c, {"list", "search"})
                /\ \A k \in DOMAIN o.asked : ~Clash(o.asked[k], c)
                /\ \A k \in DOMAIN o.inbox : ~Clash(o.inbox[k], c)
                /\ Base(LoadPreview(s, W))
<1> DEFINE o == Outdate(s, {"preview"})
           p == [o EXCEPT !.ui.preview = None]
           c == PreviewCall(s, W)
<1>1. IsState(o) /\ o.ui = s.ui /\ AllSofter(s, o) /\ Calls(o)
  BY OutdateIs DEF Base
<1>2. Base(o)
  BY BaseOutdate
<1> HIDE DEF o
<1>3. Pre(o)
  BY <1>2 DEF Base, Pre
<1>4. CASE ~s.ui.active \/ Selected(s).id = None \/ ContentHidden(s)
  <2>1. LoadPreview(s, W) = Done(p, W)
    BY <1>4 DEF LoadPreview, o
  <2>2. /\ Pre(p) /\ p.asked = o.asked /\ p.inbox = o.inbox
        /\ But(o.ui, p.ui, {"preview"}) /\ p.ui.preview = None
    BY <1>3, SetPreview DEF Some
  <2> HIDE DEF p
  <2>3. AllSofter(o, p)
    BY <1>1, <2>2, BesideSame, BesideSofter
  <2>4. /\ But(o.ui, p.ui, FreeFields) /\ p.ui.revealed = o.ui.revealed /\ p.ui.keep = o.ui.keep
        /\ p.ui.editor = o.ui.editor
    BY <1>3, <2>2 DEF Pre, UiOK, But, FreeFields, UiFields
  <2>5. ~o.ui.active => /\ p.ui.preview = None /\ p.ui.revealed = None
                        /\ p.ui.keep = None /\ p.ui.editor.id = None
    BY <1>2, <2>2, <2>4 DEF Base, Quiet, Blank
  <2>6. Base(p)
    BY <1>2, <2>2, <2>3, <2>4, <2>5, BaseStays
  <2>7. Base(Done(p, W))
    BY <2>6, BaseDone
  <2> QED BY <1>1, <2>1, <2>2, <2>6, <2>7 DEF p, o
<1>5. CASE ~(~s.ui.active \/ Selected(s).id = None \/ ContentHidden(s))
  <2>1. LoadPreview(s, W) = Ask(o, c)
    BY <1>5 DEF LoadPreview, o, PreviewCall
  <2>2. s.ui.rows # <<>> /\ Selected(s).id \in Items
    BY <1>5, SelectedIs DEF Base
  <2>3. /\ CallOK(c) /\ Live(c, {"preview"}) /\ c.id = Selected(s).id /\ c.done = W
        /\ ~Live(c, {"list", "search"}) /\ ~Live(c, {"list"}) /\ ~Live(c, {"search"})
    BY <2>2 DEF PreviewCall, CallOK, Carries, Live, CallKinds
  <2> HIDE DEF c
  <2>4. \A d : Fits(d, o.ui) => ~Clash(d, c)
    BY <1>1, <2>2, <2>3 DEF Fits, Clash
  <2>5. /\ \A k \in DOMAIN o.asked : ~Clash(o.asked[k], c)
        /\ \A k \in DOMAIN o.inbox : ~Clash(o.inbox[k], c)
    BY <1>2, <2>4 DEF Base, AllFit
  <2>6. Fits(c, o.ui)
    BY <2>3 DEF Fits
  <2>7. Base(Ask(o, c))
    BY <1>1, <1>2, <1>5, <2>3, <2>5, <2>6, BaseAsk
  <2> QED BY <1>5, <2>1, <2>2, <2>3, <2>5, <2>7 DEF c, o
<1> QED BY <1>4, <1>5

LEMMA BaseLoadPreview ==
  ASSUME NEW s, Base(s), NEW W \in SUBSET Waiters
  PROVE  Base(LoadPreview(s, W))
BY LoadPreviewIs

LEMMA BaseGoOn ==
  ASSUME NEW s, Base(s), NEW preview \in BOOLEAN, NEW W \in SUBSET Waiters
  PROVE  Base(GoOn(s, preview, W))
BY BaseLoadPreview, BaseDone DEF GoOn

(* The window is where the list is: not below its end.                     *)
Placed(u) == u.start <= MaxOf(0, u.total - u.height)

LEMMA RangeIs ==
  ASSUME NEW s, UiOK(s.ui)
  PROVE  /\ RangeStart(s) \in Nat /\ RangeEnd(s) \in Nat
         /\ RangeStart(s) <= s.ui.start /\ RangeStart(s) <= RangeEnd(s)
         /\ s.ui.height \in Nat \ {0}
         /\ s.ui.start \in Nat /\ s.ui.total \in Nat /\ s.ui.offset \in Nat /\ s.ui.sel \in Nat
         /\ RangeEnd(s) >= MinOf(s.ui.total, s.ui.start + s.ui.height)
         /\ RangeEnd(s) <= RangeStart(s) + s.ui.height + 2 * Overscan
         /\ Placed(s.ui) /\ s.ui.total = 0 => s.ui.start = 0 /\ RangeStart(s) = 0
<1>1. /\ s.ui.height \in Nat \ {0}
      /\ s.ui.start \in Nat /\ s.ui.total \in Nat /\ s.ui.offset \in Nat /\ s.ui.sel \in Nat
      /\ Overscan \in Nat
  BY PaletteAssumption DEF UiOK
<1> QED BY <1>1 DEF RangeStart, RangeEnd, MaxOf, MinOf, Placed

Then(reload, sel, preview, W) == [reload |-> reload, sel |-> sel, preview |-> preview, done |-> W]

ListCall(s, offset, reload, sel, preview, W) ==
  [kind |-> "list", live |-> TRUE, offset |-> offset,
   limit |-> MaxOf(FetchSpan, s.ui.height + 2 * Overscan), filter |-> s.ui.filter,
   reload |-> reload, sel |-> sel, preview |-> preview, done |-> W]

LEMMA ListCallIs ==
  ASSUME NEW s, UiOK(s.ui), NEW offset \in Nat, NEW reload \in BOOLEAN, NEW sel \in Some,
         NEW preview \in BOOLEAN, NEW W \in SUBSET Waiters
  PROVE  LET c == ListCall(s, offset, reload, sel, preview, W)
         IN  /\ CallOK(c) /\ Live(c, {"list"}) /\ Live(c, {"list", "search"})
             /\ ~Live(c, {"preview"}) /\ ~Live(c, {"search"})
             /\ c.limit \in Nat /\ c.limit >= FetchSpan /\ c.limit >= s.ui.height + 2 * Overscan
<1> DEFINE limit == MaxOf(FetchSpan, s.ui.height + 2 * Overscan)
<1>1. limit \in Nat /\ limit >= FetchSpan /\ limit >= s.ui.height + 2 * Overscan
  <2>1. FetchSpan \in Nat /\ s.ui.height \in Nat /\ Overscan \in Nat
    BY PaletteAssumption DEF UiOK
  <2> QED BY <2>1 DEF MaxOf
<1> HIDE DEF limit
<1> DEFINE c == [kind |-> "list", live |-> TRUE, offset |-> offset, limit |-> limit,
                 filter |-> s.ui.filter, reload |-> reload, sel |-> sel, preview |-> preview,
                 done |-> W]
<1>2. /\ c.kind = "list" /\ c.live = TRUE /\ c.offset = offset /\ c.limit = limit
      /\ c.filter = s.ui.filter /\ c.reload = reload /\ c.sel = sel
      /\ c.preview = preview /\ c.done = W
      /\ DOMAIN c = {"kind", "live", "offset", "limit", "filter", "reload", "sel", "preview", "done"}
  OBVIOUS
<1>3. c = ListCall(s, offset, reload, sel, preview, W)
  BY DEF ListCall, limit
<1> HIDE DEF c
<1>4. CallOK(c)
  BY <1>1, <1>2 DEF CallOK, Carries, CallKinds
<1> QED BY <1>1, <1>2, <1>3, <1>4 DEF Live

LEMMA ListCallHas ==
  ASSUME NEW s, NEW offset, NEW reload, NEW sel, NEW preview, NEW W
  PROVE  LET c == ListCall(s, offset, reload, sel, preview, W)
         IN  /\ c.kind = "list" /\ c.filter = s.ui.filter /\ c.offset = offset
             /\ c.reload = reload /\ c.sel = sel /\ c.preview = preview /\ c.done = W
BY DEF ListCall

LEMMA FetchWindowIs ==
  ASSUME NEW s, Pre(s), NEW offset \in Nat, NEW reload \in BOOLEAN, NEW sel \in Some,
         NEW preview \in BOOLEAN, NEW W \in SUBSET Waiters,
         reload => NoneLive(s, {"preview"})
  PROVE  LET o == Outdate(s, {"list", "search"})
             c == ListCall(s, offset, reload, sel, preview, W)
         IN  /\ FetchWindow(s, offset, Then(reload, sel, preview, W)) = Ask(o, c)
             /\ \A k \in DOMAIN o.asked : ~Clash(o.asked[k], c)
             /\ \A k \in DOMAIN o.inbox : ~Clash(o.inbox[k], c)
<1> DEFINE o == Outdate(s, {"list", "search"})
           c == ListCall(s, offset, reload, sel, preview, W)
<1>1. FetchWindow(s, offset, Then(reload, sel, preview, W)) = Ask(o, c)
  BY DEF FetchWindow, Then, ListCall
<1>2. AllSofter(s, o) /\ NoneLive(o, {"list", "search"})
  BY OutdateIs DEF Pre
<1>3. reload => NoneLive(o, {"preview"})
  BY <1>2, SofterCalls DEF Pre
<1>4. ~Live(c, {"preview"}) /\ ~Live(c, {"search"}) /\ c.reload = reload
  <2>1. UiOK(s.ui)
    BY DEF Pre
  <2> QED BY <2>1, ListCallIs, ListCallHas
<1> HIDE DEF o, c
<1>5. \A d : ~Live(d, {"list", "search"}) /\ (reload => ~Live(d, {"preview"})) => ~Clash(d, c)
  BY <1>4 DEF Clash
<1>6. /\ \A k \in DOMAIN o.asked : ~Clash(o.asked[k], c)
      /\ \A k \in DOMAIN o.inbox : ~Clash(o.inbox[k], c)
  BY <1>2, <1>3, <1>5 DEF NoneLive
<1> QED BY <1>1, <1>6 DEF o, c

(* What EnsureLoaded does: nothing but what follows, wait for the page     *)
(* that is being read, or ask for one.                                     *)
LEMMA EnsureLoadedIs ==
  ASSUME NEW s, Base(s), Placed(s.ui), NEW preview \in BOOLEAN, NEW W \in SUBSET Waiters
  PROVE  LET t == EnsureLoaded(s, preview, W)
             o == Outdate(s, {"list", "search"})
             j == MapCalls(s, LAMBDA c : Joined(c, preview, W))
             d == ListCall(s, RangeStart(s), FALSE, None, preview, W)
         IN  \/ /\ ~s.ui.active \/ s.ui.mode # "recent"
                /\ t = GoOn(s, preview, W)
             \/ /\ s.ui.active /\ s.ui.mode = "recent"
                /\ Spans(s, s.ui.offset, Len(s.ui.rows))
                /\ \/ /\ \E c \in Fetching(s) : ~Spans(s, c.offset, c.limit)
                      /\ t = GoOn(o, preview, W)
                   \/ /\ \A c \in Fetching(s) : Spans(s, c.offset, c.limit)
                      /\ t = GoOn(s, preview, W)
             \/ /\ s.ui.active /\ s.ui.mode = "recent"
                /\ ~Spans(s, s.ui.offset, Len(s.ui.rows))
                /\ \/ /\ \E c \in Fetching(s) : Spans(s, c.offset, c.limit)
                      /\ t = j
                   \/ /\ \A c \in Fetching(s) : ~Spans(s, c.offset, c.limit)
                      /\ t = Ask(o, d) /\ CallOK(d) /\ Live(d, {"list"})
                      /\ \A k \in DOMAIN o.asked : ~Clash(o.asked[k], d)
                      /\ \A k \in DOMAIN o.inbox : ~Clash(o.inbox[k], d)
<1> DEFINE o == Outdate(s, {"list", "search"})
           j == MapCalls(s, LAMBDA c : Joined(c, preview, W))
           d == ListCall(s, RangeStart(s), FALSE, None, preview, W)
<1>1. UiOK(s.ui) /\ Pre(s)
  BY DEF Base, Pre
<1>2. RangeStart(s) \in Nat /\ None \in Some
  BY <1>1, RangeIs DEF Some
<1>3. /\ FetchWindow(s, RangeStart(s), Then(FALSE, None, preview, W)) = Ask(o, d)
      /\ \A k \in DOMAIN o.asked : ~Clash(o.asked[k], d)
      /\ \A k \in DOMAIN o.inbox : ~Clash(o.inbox[k], d)
  BY <1>1, <1>2, FetchWindowIs
<1>4. CallOK(d) /\ Live(d, {"list"})
  BY <1>1, <1>2, ListCallIs
<1>5. EnsureLoaded(s, preview, W) =
        IF ~s.ui.active \/ s.ui.mode # "recent"
        THEN GoOn(s, preview, W)
        ELSE IF Spans(s, s.ui.offset, Len(s.ui.rows))
        THEN GoOn(IF \E c \in Fetching(s) : ~Spans(s, c.offset, c.limit) THEN o ELSE s, preview, W)
        ELSE IF \E c \in Fetching(s) : Spans(s, c.offset, c.limit) THEN j ELSE Ask(o, d)
  BY <1>3 DEF EnsureLoaded, Then
<1> HIDE DEF o, j, d
<1>6. CASE ~s.ui.active \/ s.ui.mode # "recent"
  BY <1>5, <1>6 DEF o, j, d
<1>7. CASE /\ s.ui.active /\ s.ui.mode = "recent"
           /\ Spans(s, s.ui.offset, Len(s.ui.rows))
  BY <1>5, <1>7 DEF o, j, d
<1>8. CASE /\ s.ui.active /\ s.ui.mode = "recent"
           /\ ~Spans(s, s.ui.offset, Len(s.ui.rows))
  BY <1>3, <1>4, <1>5, <1>8 DEF o, j, d
<1> QED BY <1>1, <1>6, <1>7, <1>8 DEF UiOK

LEMMA BaseEnsureLoaded ==
  ASSUME NEW s, Base(s), Placed(s.ui), NEW preview \in BOOLEAN, NEW W \in SUBSET Waiters
  PROVE  Base(EnsureLoaded(s, preview, W))
<1> DEFINE t == EnsureLoaded(s, preview, W)
           o == Outdate(s, {"list", "search"})
           j == MapCalls(s, LAMBDA c : Joined(c, preview, W))
           d == ListCall(s, RangeStart(s), FALSE, None, preview, W)
<1>1. Base(o) /\ o.ui = s.ui
  BY BaseOutdate, OutdateIs DEF Base
<1>2. Base(j)
  <2>1. IsState(j) /\ j.ui = s.ui /\ AllSofter(s, j) /\ Calls(j)
    BY JoinIs DEF Base
  <2> HIDE DEF j
  <2>2. Pre(j) /\ But(s.ui, j.ui, FreeFields)
    BY <2>1 DEF Pre, Base, But
  <2> QED BY <2>1, <2>2, BaseStays DEF Base, Quiet, Blank
<1>3. ASSUME s.ui.active, s.ui.mode = "recent", CallOK(d),
             \A k \in DOMAIN o.asked : ~Clash(o.asked[k], d),
             \A k \in DOMAIN o.inbox : ~Clash(o.inbox[k], d)
      PROVE  Base(Ask(o, d))
  <2>1. UiOK(s.ui)
    BY DEF Base
  <2>2. RangeStart(s) \in Nat /\ None \in Some /\ (s.ui.total = 0 => RangeStart(s) = 0)
    BY <2>1, RangeIs DEF Some
  <2>3. /\ ~Live(d, {"search"}) /\ d.reload = FALSE /\ d.filter = s.ui.filter
        /\ d.offset = RangeStart(s)
    <3>1. ~Live(d, {"search"})
      BY <2>1, <2>2, ListCallIs
    <3>2. d.reload = FALSE /\ d.filter = s.ui.filter /\ d.offset = RangeStart(s)
      BY DEF ListCall
    <3> QED BY <3>1, <3>2
  <2> HIDE DEF o, d
  <2>4. Fits(d, o.ui)
    BY <1>1, <1>3, <2>2, <2>3 DEF Fits
  <2> QED BY <1>1, <1>3, <2>4, BaseAsk
<1>4. Base(GoOn(s, preview, W)) /\ Base(GoOn(o, preview, W))
  BY <1>1, BaseGoOn
<1>5. \/ t = GoOn(s, preview, W) \/ t = GoOn(o, preview, W) \/ t = j
      \/ /\ t = Ask(o, d) /\ CallOK(d) /\ s.ui.active /\ s.ui.mode = "recent"
         /\ \A k \in DOMAIN o.asked : ~Clash(o.asked[k], d)
         /\ \A k \in DOMAIN o.inbox : ~Clash(o.inbox[k], d)
  BY EnsureLoadedIs
<1> HIDE DEF t, o, j, d
<1>6. Base(t)
  BY <1>2, <1>3, <1>4, <1>5
<1> QED BY <1>6 DEF t

-----------------------------------------------------------------------------
(* The view is read anew: nothing else that is being read counts, and one  *)
(* call is asked.                                                          *)
Reads == {"list", "search", "preview"}

Staler(c, d) == Softer(c, d) /\ ("done" \in DOMAIN c => d.done \subseteq c.done)

Followed(s, t, c) ==
  /\ Len(s.asked) \in Nat /\ DOMAIN s.asked = 1 .. Len(s.asked)
  /\ DOMAIN t.asked = 1 .. Len(s.asked) + 1 /\ t.asked[Len(s.asked) + 1] = c
  /\ \A k \in DOMAIN s.asked : Staler(s.asked[k], t.asked[k]) /\ ~Live(t.asked[k], Reads)
  /\ DOMAIN t.inbox = DOMAIN s.inbox
  /\ \A k \in DOMAIN s.inbox : Staler(s.inbox[k], t.inbox[k]) /\ ~Live(t.inbox[k], Reads)

LEMMA StaleStaler ==
  ASSUME NEW c, Marked(c), NEW K
  PROVE  Staler(c, Stale(c, K))
<1>1. "done" \in DOMAIN c => Stale(c, K).done \subseteq c.done
  BY DEF Stale
<1> QED BY <1>1, StaleIs DEF Staler

LEMMA StalerTransitive ==
  ASSUME NEW c, NEW d, NEW e, Staler(c, d), Staler(d, e)
  PROVE  Staler(c, e)
BY DEF Staler, Softer

(* Of two steps that make everything that is read stale.                   *)
LEMMA FollowedIs ==
  ASSUME NEW s, Pre(s), NEW o, AllSofter(s, o), Calls(o), NoneLive(o, {"preview"}),
         \A k \in DOMAIN s.asked : Staler(s.asked[k], o.asked[k]),
         \A k \in DOMAIN s.inbox : Staler(s.inbox[k], o.inbox[k]),
         NEW p, AllSofter(o, p), NoneLive(p, {"list", "search"}), IsState(p), Calls(p),
         \A k \in DOMAIN o.asked : p.asked[k] = Stale(o.asked[k], {"list", "search"}),
         \A k \in DOMAIN o.inbox : p.inbox[k] = Stale(o.inbox[k], {"list", "search"}),
         NEW c, CallOK(c),
         \A k \in DOMAIN p.asked : ~Clash(p.asked[k], c),
         \A k \in DOMAIN p.inbox : ~Clash(p.inbox[k], c)
  PROVE  /\ Followed(s, Ask(p, c), c)
         /\ IsState(Ask(p, c)) /\ Calls(Ask(p, c)) /\ Ask(p, c).ui = p.ui
<1> DEFINE t == Ask(p, c)
<1>1. /\ IsState(t) /\ t.ui = p.ui /\ t.inbox = p.inbox /\ Calls(t)
      /\ DOMAIN t.asked = 1 .. Len(p.asked) + 1 /\ DOMAIN p.asked = 1 .. Len(p.asked)
      /\ Len(p.asked) \in Nat
      /\ \A k \in DOMAIN p.asked : t.asked[k] = p.asked[k]
      /\ t.asked[Len(p.asked) + 1] = c
  BY AskIs
<1> HIDE DEF t
<1>2. /\ \A k \in DOMAIN s.asked : Staler(s.asked[k], p.asked[k])
      /\ \A k \in DOMAIN s.inbox : Staler(s.inbox[k], p.inbox[k])
  <2>1. ASSUME NEW k \in DOMAIN s.asked PROVE Staler(s.asked[k], p.asked[k])
    <3>1. Marked(o.asked[k]) /\ k \in DOMAIN o.asked
      BY AllMarked DEF AllSofter
    <3>2. Staler(o.asked[k], p.asked[k])
      BY <3>1, StaleStaler
    <3> QED BY <3>2, StalerTransitive
  <2>2. ASSUME NEW k \in DOMAIN s.inbox PROVE Staler(s.inbox[k], p.inbox[k])
    <3>1. Marked(o.inbox[k]) /\ k \in DOMAIN o.inbox
      BY AllMarked DEF AllSofter
    <3>2. Staler(o.inbox[k], p.inbox[k])
      BY <3>1, StaleStaler
    <3> QED BY <3>2, StalerTransitive
  <2> QED BY <2>1, <2>2
<1>3. NoneLive(p, {"preview"})
  BY SofterCalls
<1>4. \A d : ~Live(d, {"preview"}) /\ ~Live(d, {"list", "search"}) => ~Live(d, Reads)
  BY DEF Live, Reads
<1>5. /\ \A k \in DOMAIN p.asked : ~Live(p.asked[k], Reads)
      /\ \A k \in DOMAIN p.inbox : ~Live(p.inbox[k], Reads)
  BY <1>3, <1>4 DEF NoneLive
<1>6. /\ DOMAIN p.asked = DOMAIN s.asked /\ DOMAIN p.inbox = DOMAIN s.inbox
      /\ Len(s.asked) \in Nat /\ DOMAIN s.asked = 1 .. Len(s.asked)
  <2>1. IsSeq(s.asked)
    BY DEF Pre, Calls
  <2> QED BY <2>1, SeqIs DEF AllSofter
<1>7. Len(p.asked) = Len(s.asked)
  BY <1>1, <1>6
<1>8. Followed(s, t, c)
  BY <1>1, <1>2, <1>5, <1>6, <1>7 DEF Followed
<1> QED BY <1>1, <1>8 DEF t

(* With no live read but the last, what is asked fits if that one does.    *)
LEMMA FollowedBase ==
  ASSUME NEW s, NEW t, NEW c, IsState(t), UiOK(t.ui), Calls(t), Followed(s, t, c), Fits(c, t.ui),
         t.ui.active, t.ui.mode = (IF t.ui.query THEN "search" ELSE "recent")
  PROVE  Base(t)
<1>1. \A d : ~Live(d, Reads) => Fits(d, t.ui)
  BY DEF Fits, Live, Reads
<1>2. \A k \in DOMAIN t.asked : k \in DOMAIN s.asked \/ t.asked[k] = c
  BY DEF Followed
<1>3. AllFit(t)
  BY <1>1, <1>2 DEF AllFit, Followed
<1> QED BY <1>3 DEF Base, Quiet

LEMMA ReloadIs ==
  ASSUME NEW s, Pre(s), s.ui.active, ~s.ui.query, NEW sel \in Some, NEW W \in SUBSET Waiters
  PROVE  LET t == Reload(s, sel, W)
             c == t.asked[Len(s.asked) + 1]
         IN  /\ Base(t) /\ Followed(s, t, c)
             /\ But(s.ui, t.ui, {"mode", "rows", "offset", "preview", "revealed"})
             /\ t.ui.mode = "recent" /\ t.ui.rows = <<>> /\ t.ui.offset = RangeStart(s)
             /\ t.ui.preview = None /\ t.ui.revealed = None
             /\ Live(c, {"list"}) /\ c.reload = TRUE /\ c.sel = sel /\ c.done = W
             /\ c.offset = RangeStart(s) /\ c.limit \in Nat
             /\ c.limit >= s.ui.height + 2 * Overscan
<1> DEFINE start == RangeStart(s)
           b == [s EXCEPT !.ui.mode = "recent", !.ui.rows = <<>>, !.ui.offset = start]
           blank == HidePreview(b)
           o == Outdate(blank, {"list", "search"})
           c == ListCall(blank, start, TRUE, sel, FALSE, W)
           t == Ask(o, c)
<1>1. start \in Nat /\ UiOK(s.ui) /\ DOMAIN s.ui = UiFields
  BY RangeIs DEF Pre, UiOK
<1> HIDE DEF start
<1>2. /\ IsState(b) /\ b.asked = s.asked /\ b.inbox = s.inbox
      /\ b.ui = [s.ui EXCEPT !.mode = "recent", !.rows = <<>>, !.offset = start]
  BY DEF IsState, Pre, Carries
<1>3. Reload(s, sel, W) = FetchWindow(blank, start, Then(TRUE, sel, FALSE, W))
  BY DEF Reload, Then, start
<1> HIDE DEF b
<1>4. /\ But(s.ui, b.ui, {"mode", "rows", "offset"})
      /\ b.ui.mode = "recent" /\ b.ui.rows = <<>> /\ b.ui.offset = start
  BY <1>1, <1>2 DEF But, UiFields
<1>5. Pre(b)
  <2>1. DOMAIN b.ui = UiFields /\ \A x \in UiFields \ {"mode", "rows", "offset"} : b.ui[x] = s.ui[x]
    BY <1>1, <1>4 DEF But
  <2>2. <<>> \in Seq(ListRows)
    OBVIOUS
  <2>3. UiOK(b.ui)
    BY <1>1, <1>4, <2>1, <2>2 DEF UiOK, UiFields
  <2>4. Calls(b)
    BY <1>2 DEF Pre, Calls, Orderly
  <2> QED BY <1>2, <2>3, <2>4 DEF Pre
<1>6. /\ Pre(blank) /\ AllSofter(b, blank) /\ NoneLive(blank, {"preview"})
      /\ But(b.ui, blank.ui, {"preview", "revealed"})
      /\ blank.ui.preview = None /\ blank.ui.revealed = None
      /\ \A k \in DOMAIN b.asked : blank.asked[k] = Stale(b.asked[k], {"preview"})
      /\ \A k \in DOMAIN b.inbox : blank.inbox[k] = Stale(b.inbox[k], {"preview"})
  BY <1>5, HidePreviewIs
<1> HIDE DEF blank
<1>7. /\ AllSofter(s, blank)
      /\ \A k \in DOMAIN s.asked : Staler(s.asked[k], blank.asked[k])
      /\ \A k \in DOMAIN s.inbox : Staler(s.inbox[k], blank.inbox[k])
  <2>1. AllSofter(s, blank)
    BY <1>2, <1>6 DEF AllSofter
  <2>2. Calls(s)
    BY DEF Pre
  <2> QED BY <1>2, <1>6, <2>1, <2>2, AllMarked, StaleStaler
<1>8. /\ IsState(o) /\ o.ui = blank.ui /\ AllSofter(blank, o) /\ Calls(o)
      /\ NoneLive(o, {"list", "search"})
      /\ \A k \in DOMAIN blank.asked : o.asked[k] = Stale(blank.asked[k], {"list", "search"})
      /\ \A k \in DOMAIN blank.inbox : o.inbox[k] = Stale(blank.inbox[k], {"list", "search"})
  BY <1>6, OutdateIs DEF Pre
<1>9. /\ FetchWindow(blank, start, Then(TRUE, sel, FALSE, W)) = t
      /\ \A k \in DOMAIN o.asked : ~Clash(o.asked[k], c)
      /\ \A k \in DOMAIN o.inbox : ~Clash(o.inbox[k], c)
  BY <1>1, <1>6, FetchWindowIs
<1>10. /\ CallOK(c) /\ Live(c, {"list"}) /\ ~Live(c, {"search"})
       /\ c.limit \in Nat /\ c.limit >= blank.ui.height + 2 * Overscan
  <2>1. UiOK(blank.ui)
    BY <1>6 DEF Pre
  <2> QED BY <1>1, <2>1, ListCallIs
<1>11. /\ c.reload = TRUE /\ c.sel = sel /\ c.done = W /\ c.offset = start
       /\ c.filter = blank.ui.filter
  BY DEF ListCall
<1> HIDE DEF o, c
<1>12. Followed(s, t, c) /\ IsState(t) /\ Calls(t) /\ t.ui = o.ui
  BY <1>6, <1>7, <1>8, <1>9, <1>10, FollowedIs DEF Pre
<1> HIDE DEF t
<1>13. But(s.ui, t.ui, {"mode", "rows", "offset", "preview", "revealed"})
       /\ t.ui.mode = "recent" /\ t.ui.rows = <<>> /\ t.ui.offset = start
       /\ t.ui.preview = None /\ t.ui.revealed = None
  BY <1>1, <1>4, <1>6, <1>8, <1>12 DEF But, UiFields
<1>14. /\ t.ui.active = s.ui.active /\ t.ui.query = s.ui.query /\ t.ui.height = s.ui.height
  BY <1>1, <1>13 DEF But, UiFields
<1>15. Fits(c, t.ui)
  BY <1>8, <1>10, <1>11, <1>12, <1>13 DEF Fits
<1>16. UiOK(t.ui)
  BY <1>6, <1>8, <1>12 DEF Pre
<1>17. Base(t)
  BY <1>12, <1>13, <1>14, <1>15, <1>16, FollowedBase
<1>18. t.asked[Len(s.asked) + 1] = c
  BY <1>12 DEF Followed
<1>19. c.limit >= s.ui.height + 2 * Overscan
  BY <1>8, <1>10, <1>12, <1>14
<1>20. Reload(s, sel, W) = t
  BY <1>3, <1>9
<1> QED BY <1>10, <1>11, <1>12, <1>13, <1>17, <1>18, <1>19, <1>20 DEF start

LEMMA UnselectStaler ==
  ASSUME NEW c, Marked(c)
  PROVE  Staler(c, Unselect(c))
<1>1. "done" \in DOMAIN c => Unselect(c).done \subseteq c.done
  BY DEF Unselect
<1> QED BY <1>1, UnselectIs DEF Staler

SearchCall(filter, W) == [kind |-> "search", live |-> TRUE, filter |-> filter, done |-> W]

Queried(s, t, query, W) ==
  LET c == t.asked[Len(s.asked) + 1]
  IN  /\ Base(t) /\ Followed(s, t, c)
      /\ But(s.ui, t.ui, {"keep", "query", "sel", "start", "preview", "revealed", "mode",
                          "rows", "offset"})
      /\ t.ui.sel = 0 /\ t.ui.start = 0 /\ t.ui.keep = None /\ t.ui.query = query
      /\ t.ui.preview = None /\ t.ui.revealed = None /\ c.done = W
      /\ query => /\ t.ui.mode = "search" /\ Live(c, {"search"})
                  /\ t.ui.rows = s.ui.rows /\ t.ui.offset = s.ui.offset
      /\ ~query => /\ t.ui.mode = "recent" /\ Live(c, {"list"}) /\ c.reload = TRUE
                   /\ t.ui.rows = <<>> /\ t.ui.offset = 0 /\ c.offset = 0 /\ c.sel = None
                   /\ c.limit \in Nat /\ c.limit >= s.ui.height + 2 * Overscan

LEMMA SetQueryIs ==
  ASSUME NEW s, Pre(s), s.ui.active, NEW query \in BOOLEAN, NEW W \in SUBSET Waiters
  PROVE  Queried(s, SetQuery(s, query, W), query, W)
<1> DEFINE r == ResetRefreshSelection(s)
           h == HidePreview(r)
           u == [h EXCEPT !.ui.query = query, !.ui.sel = 0, !.ui.start = 0]
           v == [u EXCEPT !.ui.mode = "search"]
           o == Outdate(v, {"list", "search"})
           d == SearchCall(s.ui.filter, W)
<1>1. SetQuery(s, query, W) = IF ~query THEN Reload(u, None, W) ELSE Ask(o, d)
  BY DEF SetQuery, SearchCall
<1>2. /\ IsState(r) /\ r.ui = [s.ui EXCEPT !.keep = None] /\ AllSofter(s, r) /\ Calls(r)
      /\ \A k \in DOMAIN s.asked : r.asked[k] = Unselect(s.asked[k])
      /\ \A k \in DOMAIN s.inbox : r.inbox[k] = Unselect(s.inbox[k])
  BY ResetIs
<1> HIDE DEF r
<1>3. But(s.ui, r.ui, {"keep"}) /\ r.ui.keep = None /\ UiOK(s.ui) /\ DOMAIN s.ui = UiFields
  BY <1>2 DEF Pre, UiOK, But, UiFields
<1>4. Pre(r)
  <2>1. DOMAIN r.ui = UiFields /\ \A x \in UiFields \ {"keep"} : r.ui[x] = s.ui[x]
    BY <1>3 DEF But
  <2>2. UiOK(r.ui)
    BY <1>3, <2>1 DEF UiOK, UiFields, Some
  <2> QED BY <1>2, <2>2 DEF Pre
<1>5. /\ Pre(h) /\ AllSofter(r, h) /\ NoneLive(h, {"preview"})
      /\ But(r.ui, h.ui, {"preview", "revealed"}) /\ h.ui.preview = None /\ h.ui.revealed = None
      /\ \A k \in DOMAIN r.asked : h.asked[k] = Stale(r.asked[k], {"preview"})
      /\ \A k \in DOMAIN r.inbox : h.inbox[k] = Stale(r.inbox[k], {"preview"})
  BY <1>4, HidePreviewIs
<1> HIDE DEF h
<1>6. /\ IsState(u) /\ u.asked = h.asked /\ u.inbox = h.inbox
      /\ u.ui = [h.ui EXCEPT !.query = query, !.sel = 0, !.start = 0]
  BY <1>5 DEF IsState, Pre, Carries
<1> HIDE DEF u
<1>7. /\ But(s.ui, u.ui, {"keep", "preview", "revealed", "query", "sel", "start"})
      /\ u.ui.keep = None /\ u.ui.preview = None /\ u.ui.revealed = None
      /\ u.ui.query = query /\ u.ui.sel = 0 /\ u.ui.start = 0
  <2>1. DOMAIN h.ui = UiFields
    BY <1>5 DEF Pre, UiOK
  <2>2. /\ But(h.ui, u.ui, {"query", "sel", "start"})
        /\ u.ui.query = query /\ u.ui.sel = 0 /\ u.ui.start = 0
    BY <1>6, <2>1, ZenonT(30) DEF But, UiFields
  <2>3. u.ui.keep = None /\ u.ui.preview = None /\ u.ui.revealed = None
    BY <1>3, <1>5, <2>1, <2>2 DEF But, UiFields
  <2>4. But(s.ui, u.ui, {"keep", "preview", "revealed", "query", "sel", "start"})
    BY <1>3, <1>5, <2>2 DEF But
  <2> QED BY <2>2, <2>3, <2>4
<1>8. UiOK(u.ui)
  <2>1. /\ DOMAIN u.ui = UiFields
        /\ \A x \in UiFields \ {"keep", "preview", "revealed", "query", "sel", "start"} :
             u.ui[x] = s.ui[x]
    BY <1>3, <1>7 DEF But
  <2>2. /\ u.ui.keep \in Some /\ u.ui.preview \in Some /\ u.ui.revealed \in Some
        /\ u.ui.query \in BOOLEAN /\ u.ui.sel \in Nat /\ u.ui.start \in Nat
    BY <1>7 DEF Some
  <2> QED BY <1>3, <2>1, <2>2 DEF UiOK, UiFields
<1>9. Calls(u)
  BY <1>5, <1>6 DEF Pre, Calls, Orderly
<1>10. /\ AllSofter(s, u) /\ NoneLive(u, {"preview"})
       /\ \A k \in DOMAIN s.asked : Staler(s.asked[k], u.asked[k])
       /\ \A k \in DOMAIN s.inbox : Staler(s.inbox[k], u.inbox[k])
  <2>1. AllSofter(s, u)
    <3>1. AllSofter(s, h)
      BY <1>2, <1>5, SofterTransitive
    <3> QED BY <1>6, <3>1 DEF AllSofter
  <2>2. NoneLive(u, {"preview"})
    BY <1>5, <1>6 DEF NoneLive
  <2>3. Calls(s) /\ Calls(r)
    BY <1>2 DEF Pre
  <2>4. ASSUME NEW k \in DOMAIN s.asked PROVE Staler(s.asked[k], u.asked[k])
    <3>1. Staler(s.asked[k], r.asked[k])
      BY <1>2, <2>3, AllMarked, UnselectStaler
    <3>2. k \in DOMAIN r.asked /\ Marked(r.asked[k])
      BY <1>2, <2>3, AllMarked DEF AllSofter
    <3>3. Staler(r.asked[k], u.asked[k])
      BY <1>5, <1>6, <3>2, StaleStaler
    <3> QED BY <3>1, <3>3, StalerTransitive
  <2>5. ASSUME NEW k \in DOMAIN s.inbox PROVE Staler(s.inbox[k], u.inbox[k])
    <3>1. Staler(s.inbox[k], r.inbox[k])
      BY <1>2, <2>3, AllMarked, UnselectStaler
    <3>2. k \in DOMAIN r.inbox /\ Marked(r.inbox[k])
      BY <1>2, <2>3, AllMarked DEF AllSofter
    <3>3. Staler(r.inbox[k], u.inbox[k])
      BY <1>5, <1>6, <3>2, StaleStaler
    <3> QED BY <3>1, <3>3, StalerTransitive
  <2> QED BY <2>1, <2>2, <2>4, <2>5
<1>11. u.ui.active /\ u.ui.height = s.ui.height
  BY <1>3, <1>7 DEF But, UiFields
<1>12. Len(u.asked) = Len(s.asked) /\ DOMAIN u.asked = DOMAIN s.asked /\ DOMAIN u.inbox = DOMAIN s.inbox
       /\ Len(s.asked) \in Nat /\ DOMAIN s.asked = 1 .. Len(s.asked)
  <2>1. IsSeq(s.asked) /\ IsSeq(u.asked) /\ DOMAIN u.asked = DOMAIN s.asked
        /\ DOMAIN u.inbox = DOMAIN s.inbox
    BY <1>10 DEF Pre, Calls, AllSofter
  <2>2. /\ Len(u.asked) \in Nat /\ DOMAIN u.asked = 1 .. Len(u.asked)
        /\ Len(s.asked) \in Nat /\ DOMAIN s.asked = 1 .. Len(s.asked)
    BY <2>1, SeqIs
  <2>3. 1 .. Len(u.asked) = 1 .. Len(s.asked)
    BY <2>1, <2>2
  <2> QED BY <2>1, <2>2, <2>3, SameLen
<1>13. CASE ~query
  <2> DEFINE t == Reload(u, None, W)
             c == t.asked[Len(u.asked) + 1]
  <2>1. Pre(u) /\ ~u.ui.query
    BY <1>6, <1>7, <1>8, <1>9, <1>13 DEF Pre
  <2>2. /\ Base(t) /\ Followed(u, t, c)
        /\ But(u.ui, t.ui, {"mode", "rows", "offset", "preview", "revealed"})
        /\ t.ui.mode = "recent" /\ t.ui.rows = <<>> /\ t.ui.offset = RangeStart(u)
        /\ t.ui.preview = None /\ t.ui.revealed = None
        /\ Live(c, {"list"}) /\ c.reload = TRUE /\ c.sel = None /\ c.done = W
        /\ c.offset = RangeStart(u) /\ c.limit \in Nat
        /\ c.limit >= u.ui.height + 2 * Overscan
    BY <1>11, <2>1, ReloadIs DEF Some
  <2>3. RangeStart(u) = 0
    BY <1>7, PaletteAssumption DEF RangeStart, MaxOf
  <2> HIDE DEF t, c
  <2>4. Followed(s, t, c)
    BY <1>10, <1>12, <2>2, StalerTransitive DEF Followed
  <2>5. /\ But(s.ui, t.ui, {"keep", "query", "sel", "start", "preview", "revealed", "mode",
                            "rows", "offset"})
        /\ t.ui.sel = 0 /\ t.ui.start = 0 /\ t.ui.keep = None /\ t.ui.query = query
    BY <1>3, <1>7, <2>2 DEF But, UiFields
  <2>6. SetQuery(s, query, W) = t /\ c = t.asked[Len(s.asked) + 1]
    BY <1>1, <1>12, <1>13 DEF t, c
  <2> QED BY <1>11, <1>13, <2>2, <2>3, <2>4, <2>5, <2>6 DEF Queried
<1>14. CASE query
  <2>1. /\ IsState(v) /\ v.asked = u.asked /\ v.inbox = u.inbox
        /\ v.ui = [u.ui EXCEPT !.mode = "search"]
    BY <1>6 DEF IsState, Carries
  <2> HIDE DEF v
  <2>2. But(u.ui, v.ui, {"mode"}) /\ v.ui.mode = "search"
    BY <1>8, <2>1 DEF But, UiOK, UiFields
  <2>3. Pre(v) /\ AllSofter(s, v) /\ NoneLive(v, {"preview"})
    <3>1. DOMAIN v.ui = UiFields /\ \A x \in UiFields \ {"mode"} : v.ui[x] = u.ui[x]
      BY <1>8, <2>2 DEF But, UiOK
    <3>2. UiOK(v.ui)
      BY <1>8, <2>2, <3>1 DEF UiOK, UiFields
    <3>3. Calls(v)
      BY <1>9, <2>1 DEF Calls, Orderly
    <3> QED BY <1>10, <2>1, <3>2, <3>3 DEF Pre, AllSofter, NoneLive
  <2>4. /\ IsState(o) /\ o.ui = v.ui /\ AllSofter(v, o) /\ Calls(o)
        /\ NoneLive(o, {"list", "search"})
        /\ \A k \in DOMAIN v.asked : o.asked[k] = Stale(v.asked[k], {"list", "search"})
        /\ \A k \in DOMAIN v.inbox : o.inbox[k] = Stale(v.inbox[k], {"list", "search"})
    BY <2>3, OutdateIs DEF Pre
  <2>5. /\ CallOK(d) /\ Live(d, {"search"}) /\ ~Live(d, {"list"}) /\ ~Live(d, {"preview"})
        /\ d.done = W /\ d.filter = s.ui.filter
    BY DEF SearchCall, CallOK, Carries, CallKinds, Live
  <2> HIDE DEF o, d
  <2>6. NoneLive(o, {"preview"})
    BY <2>3, <2>4, SofterCalls DEF Pre
  <2>7. \A e : ~Live(e, {"list", "search"}) /\ ~Live(e, {"preview"}) => ~Clash(e, d)
    BY <2>5 DEF Clash
  <2>8. /\ \A k \in DOMAIN o.asked : ~Clash(o.asked[k], d)
        /\ \A k \in DOMAIN o.inbox : ~Clash(o.inbox[k], d)
    BY <2>4, <2>6, <2>7 DEF NoneLive
  <2> DEFINE t == Ask(o, d)
  <2>9. Followed(s, t, d) /\ IsState(t) /\ Calls(t) /\ t.ui = o.ui
    <3>1. /\ \A k \in DOMAIN s.asked : Staler(s.asked[k], v.asked[k])
          /\ \A k \in DOMAIN s.inbox : Staler(s.inbox[k], v.inbox[k])
      BY <1>10, <2>1
    <3>2. Calls(v)
      BY <2>3 DEF Pre
    <3> QED BY <2>3, <2>4, <2>5, <2>8, <3>1, <3>2, FollowedIs
  <2> HIDE DEF t
  <2>10. /\ But(s.ui, t.ui, {"keep", "query", "sel", "start", "preview", "revealed", "mode",
                             "rows", "offset"})
         /\ t.ui.sel = 0 /\ t.ui.start = 0 /\ t.ui.keep = None /\ t.ui.query = query
         /\ t.ui.preview = None /\ t.ui.revealed = None
         /\ t.ui.rows = s.ui.rows /\ t.ui.offset = s.ui.offset /\ t.ui.mode = "search"
         /\ t.ui.filter = s.ui.filter /\ t.ui.active = s.ui.active
    <3>1. t.ui = v.ui /\ DOMAIN v.ui = UiFields
      BY <2>3, <2>4, <2>9 DEF Pre, UiOK
    <3>2. But(s.ui, v.ui, {"keep", "query", "sel", "start", "preview", "revealed", "mode",
                           "rows", "offset"})
      BY <1>7, <2>2 DEF But
    <3>3. /\ v.ui.sel = 0 /\ v.ui.start = 0 /\ v.ui.keep = None /\ v.ui.query = query
          /\ v.ui.preview = None /\ v.ui.revealed = None
      BY <1>7, <2>2, <3>1 DEF But, UiFields
    <3>4. /\ v.ui.rows = s.ui.rows /\ v.ui.offset = s.ui.offset
          /\ v.ui.filter = s.ui.filter /\ v.ui.active = s.ui.active
      BY <1>3, <1>7, <2>2, <3>1 DEF But, UiFields
    <3> QED BY <2>2, <3>1, <3>2, <3>3, <3>4
  <2>11. Fits(d, t.ui)
    BY <2>5, <2>10 DEF Fits
  <2>12. UiOK(t.ui)
    BY <2>3, <2>4, <2>9 DEF Pre
  <2>13. Base(t)
    BY <1>14, <2>9, <2>10, <2>11, <2>12, FollowedBase
  <2>14. d = t.asked[Len(s.asked) + 1]
    BY <2>9 DEF Followed
  <2>15. SetQuery(s, query, W) = t
    BY <1>1, <1>14 DEF t
  <2> QED BY <1>14, <2>5, <2>9, <2>10, <2>13, <2>14, <2>15 DEF Queried
<1> QED BY <1>13, <1>14

Wanted(s) == IF Selected(s).id # None THEN Selected(s).id ELSE s.ui.keep

NoKeeper(s, t) ==
  /\ \A k \in DOMAIN s.asked : "done" \in DOMAIN t.asked[k] => "keep" \notin t.asked[k].done
  /\ \A k \in DOMAIN s.inbox : "done" \in DOMAIN t.inbox[k] => "keep" \notin t.inbox[k].done

LEMMA RefreshIs ==
  ASSUME NEW s, Base(s), NEW W \in SUBSET Waiters
  PROVE  LET t == Refresh(s, W)
             c == t.asked[Len(s.asked) + 1]
         IN  \/ ~s.ui.active /\ t = Done(s, W)
             \/ s.ui.active /\ s.ui.query /\ s.ui.mode = "search" /\ t = SetQuery(s, TRUE, W)
             \/ /\ s.ui.active /\ ~s.ui.query /\ s.ui.mode = "recent"
                /\ Base(t) /\ Followed(s, t, c) /\ NoKeeper(s, t)
                /\ But(s.ui, t.ui, {"keep", "mode", "rows", "offset", "preview", "revealed"})
                /\ t.ui.keep = Wanted(s) /\ c.sel = Wanted(s)
                /\ t.ui.mode = "recent" /\ t.ui.rows = <<>> /\ t.ui.offset = RangeStart(s)
                /\ t.ui.preview = None /\ t.ui.revealed = None
                /\ Live(c, {"list"}) /\ c.reload = TRUE /\ c.done = W \cup {"keep"}
                /\ c.offset = RangeStart(s) /\ c.limit \in Nat
                /\ c.limit >= s.ui.height + 2 * Overscan
<1> DEFINE keep == Wanted(s)
           g == [s EXCEPT !.ui.keep = keep]
           f == Forget(g, {"keep"})
           V == W \cup {"keep"}
           t == Reload(f, keep, V)
           c == t.asked[Len(f.asked) + 1]
<1>1. UiOK(s.ui) /\ Pre(s) /\ DOMAIN s.ui = UiFields /\ Calls(s)
  BY DEF Base, Pre, UiOK
<1>2. keep \in Some /\ V \in SUBSET Waiters
  BY <1>1, SelectedIs DEF Wanted, UiOK, Waiters
<1>3. CASE ~s.ui.active
  BY <1>3 DEF Refresh
<1>4. CASE s.ui.active /\ s.ui.query
  <2>1. s.ui.mode = "search"
    BY <1>4 DEF Base
  <2> QED BY <1>4, <2>1 DEF Refresh
<1>5. CASE s.ui.active /\ ~s.ui.query
  <2>1. s.ui.mode = "recent"
    BY <1>5 DEF Base
  <2>2. Refresh(s, W) = t
    BY <1>5 DEF Refresh, Wanted
  <2> HIDE DEF keep, V
  <2>3. /\ IsState(g) /\ g.asked = s.asked /\ g.inbox = s.inbox
        /\ g.ui = [s.ui EXCEPT !.keep = keep]
    BY <1>1 DEF IsState, Pre, Carries
  <2> HIDE DEF g
  <2>4. But(s.ui, g.ui, {"keep"}) /\ g.ui.keep = keep
    BY <1>1, <2>3 DEF But, UiFields
  <2>5. Calls(g)
    BY <1>1, <2>3 DEF Calls, Orderly
  <2>6. UiOK(g.ui)
    <3>1. DOMAIN g.ui = UiFields /\ \A x \in UiFields \ {"keep"} : g.ui[x] = s.ui[x]
      BY <1>1, <2>4 DEF But
    <3> QED BY <1>1, <1>2, <2>4, <3>1 DEF UiOK, UiFields
  <2>7. /\ IsState(f) /\ f.ui = g.ui /\ AllSofter(g, f) /\ Calls(f)
        /\ \A k \in DOMAIN g.asked : f.asked[k] = WithoutWaiters(g.asked[k], {"keep"})
        /\ \A k \in DOMAIN g.inbox : f.inbox[k] = WithoutWaiters(g.inbox[k], {"keep"})
    BY <2>3, <2>5, ForgetIs
  <2> HIDE DEF f
  <2>8. Pre(f) /\ f.ui.active /\ ~f.ui.query /\ RangeStart(f) = RangeStart(s)
        /\ f.ui.height = s.ui.height
    BY <1>1, <1>5, <2>4, <2>6, <2>7 DEF Pre, But, UiFields, RangeStart
  <2>9. /\ Base(t) /\ Followed(f, t, c)
        /\ But(f.ui, t.ui, {"mode", "rows", "offset", "preview", "revealed"})
        /\ t.ui.mode = "recent" /\ t.ui.rows = <<>> /\ t.ui.offset = RangeStart(f)
        /\ t.ui.preview = None /\ t.ui.revealed = None
        /\ Live(c, {"list"}) /\ c.reload = TRUE /\ c.sel = keep /\ c.done = V
        /\ c.offset = RangeStart(f) /\ c.limit \in Nat
        /\ c.limit >= f.ui.height + 2 * Overscan
    BY <1>2, <2>8, ReloadIs
  <2> HIDE DEF t, c
  <2>10. /\ DOMAIN f.asked = DOMAIN s.asked /\ DOMAIN f.inbox = DOMAIN s.inbox
         /\ Len(f.asked) = Len(s.asked) /\ Len(s.asked) \in Nat
         /\ DOMAIN s.asked = 1 .. Len(s.asked)
    <3>1. /\ IsSeq(s.asked) /\ IsSeq(f.asked) /\ DOMAIN f.asked = DOMAIN s.asked
          /\ DOMAIN f.inbox = DOMAIN s.inbox
      BY <1>1, <2>3, <2>7 DEF Calls, AllSofter
    <3>2. /\ Len(f.asked) \in Nat /\ DOMAIN f.asked = 1 .. Len(f.asked)
          /\ Len(s.asked) \in Nat /\ DOMAIN s.asked = 1 .. Len(s.asked)
      BY <3>1, SeqIs
    <3>3. 1 .. Len(f.asked) = 1 .. Len(s.asked)
      BY <3>1, <3>2
    <3> QED BY <3>1, <3>2, <3>3, SameLen
  <2>11. \A d : Marked(d) => LET e == WithoutWaiters(d, {"keep"})
                             IN  Staler(d, e) /\ ("done" \in DOMAIN e => "keep" \notin e.done)
    BY WithoutIs DEF Staler
  <2>12. /\ \A k \in DOMAIN s.asked : /\ Staler(s.asked[k], f.asked[k])
                                      /\ "done" \in DOMAIN f.asked[k] => "keep" \notin f.asked[k].done
         /\ \A k \in DOMAIN s.inbox : /\ Staler(s.inbox[k], f.inbox[k])
                                      /\ "done" \in DOMAIN f.inbox[k] => "keep" \notin f.inbox[k].done
    BY <1>1, <2>3, <2>7, <2>11, AllMarked
  <2>13. Followed(s, t, c)
    BY <2>9, <2>10, <2>12, StalerTransitive DEF Followed
  <2>14. NoKeeper(s, t)
    <3>1. /\ \A k \in DOMAIN s.asked : Staler(f.asked[k], t.asked[k])
          /\ \A k \in DOMAIN s.inbox : Staler(f.inbox[k], t.inbox[k])
      BY <2>9, <2>10 DEF Followed
    <3> QED BY <2>12, <3>1 DEF NoKeeper, Staler, Softer
  <2>15. But(s.ui, t.ui, {"keep", "mode", "rows", "offset", "preview", "revealed"})
         /\ t.ui.keep = keep
    <3>1. f.ui = g.ui /\ DOMAIN g.ui = UiFields
      BY <2>6, <2>7 DEF UiOK
    <3>2. But(s.ui, t.ui, {"keep", "mode", "rows", "offset", "preview", "revealed"})
      BY <2>4, <2>9, <3>1 DEF But
    <3>3. t.ui.keep = g.ui.keep
      BY <2>9, <3>1 DEF But, UiFields
    <3> QED BY <2>4, <3>2, <3>3
  <2>16. c = t.asked[Len(s.asked) + 1]
    BY <2>10 DEF c
  <2> QED BY <1>5, <2>1, <2>2, <2>8, <2>9, <2>13, <2>14, <2>15, <2>16 DEF keep, V
<1> QED BY <1>1, <1>3, <1>4, <1>5 DEF UiOK

LEMMA BaseRefresh ==
  ASSUME NEW s, Base(s), NEW W \in SUBSET Waiters
  PROVE  Base(Refresh(s, W))
<1>1. Pre(s)
  BY DEF Base, Pre
<1>2. s.ui.active => Base(SetQuery(s, TRUE, W))
  BY <1>1, SetQueryIs DEF Queried
<1>3. Base(Done(s, W))
  BY BaseDone
<1>4. \/ Refresh(s, W) = Done(s, W)
      \/ s.ui.active /\ Refresh(s, W) = SetQuery(s, TRUE, W)
      \/ Base(Refresh(s, W))
  BY RefreshIs
<1> QED BY <1>2, <1>3, <1>4

(* The view has been asked for: nothing else is being read, and the list   *)
(* asked for is the whole window.                                          *)
Fresh(t) ==
  /\ Base(t) /\ t.ui.active /\ t.ui.preview = None
  /\ \A k \in DOMAIN t.inbox : ~Live(t.inbox[k], Reads)
  /\ t.ui.mode = "recent" =>
       /\ t.ui.rows = <<>>
       /\ \E k \in DOMAIN t.asked : Live(t.asked[k], {"list"})
       /\ \A k \in DOMAIN t.asked : Live(t.asked[k], Reads) =>
            /\ Live(t.asked[k], {"list"}) /\ t.asked[k].reload
            /\ Spans(t, t.asked[k].offset, t.asked[k].limit)
  /\ t.ui.mode = "search" =>
       /\ \E k \in DOMAIN t.asked : Live(t.asked[k], {"search"})
       /\ \A k \in DOMAIN t.asked : Live(t.asked[k], Reads) => Live(t.asked[k], {"search"})

(* What is on the way to the renderer is of the same kinds.                *)
SameKinds(s, t) ==
  /\ Len(t.inbox) = Len(s.inbox)
  /\ \A k \in 1 .. Len(s.inbox) : t.inbox[k].kind = s.inbox[k].kind

LEMMA SofterKinds ==
  ASSUME NEW s, Calls(s), NEW t, Calls(t), DOMAIN t.inbox = DOMAIN s.inbox,
         \A k \in DOMAIN s.inbox : Softer(s.inbox[k], t.inbox[k])
  PROVE  SameKinds(s, t)
<1>1. /\ Len(s.inbox) \in Nat /\ DOMAIN s.inbox = 1 .. Len(s.inbox)
      /\ Len(t.inbox) \in Nat /\ DOMAIN t.inbox = 1 .. Len(t.inbox)
  BY SeqIs DEF Calls
<1>2. Len(t.inbox) = Len(s.inbox)
  BY <1>1, SameLen
<1>3. \A k \in DOMAIN s.inbox : Marked(s.inbox[k])
  BY AllMarked
<1>4. \A k \in DOMAIN s.inbox : t.inbox[k].kind = s.inbox[k].kind
  BY <1>3 DEF Softer, Marked, Carries
<1> QED BY <1>1, <1>2, <1>4 DEF SameKinds

LEMMA FollowedKinds ==
  ASSUME NEW s, Calls(s), NEW t, Base(t), NEW c, Followed(s, t, c)
  PROVE  SameKinds(s, t)
<1>1. Calls(t)
  BY DEF Base
<1>2. DOMAIN t.inbox = DOMAIN s.inbox /\ \A k \in DOMAIN s.inbox : Softer(s.inbox[k], t.inbox[k])
  BY DEF Followed, Staler
<1> QED BY <1>1, <1>2, SofterKinds

LEMMA SpansAll ==
  ASSUME NEW s, UiOK(s.ui), NEW limit \in Nat, limit >= s.ui.height + 2 * Overscan
  PROVE  Spans(s, RangeStart(s), limit)
<1>1. /\ RangeStart(s) \in Nat /\ RangeEnd(s) \in Nat /\ s.ui.height \in Nat
      /\ RangeEnd(s) <= RangeStart(s) + s.ui.height + 2 * Overscan
  BY RangeIs
<1>2. Overscan \in Nat
  BY PaletteAssumption
<1> QED BY <1>1, <1>2 DEF Spans

LEMMA FreshIs ==
  ASSUME NEW s, NEW t, NEW c, Followed(s, t, c), Base(t), t.ui.active, t.ui.preview = None,
         \/ t.ui.mode = "search" /\ Live(c, {"search"})
         \/ /\ t.ui.mode = "recent" /\ t.ui.rows = <<>> /\ Live(c, {"list"}) /\ c.reload
            /\ Spans(t, c.offset, c.limit)
  PROVE  Fresh(t)
<1>1. \A k \in DOMAIN t.asked : k \in DOMAIN s.asked \/ t.asked[k] = c
  BY DEF Followed
<1>2. \A k \in DOMAIN t.asked : Live(t.asked[k], Reads) => t.asked[k] = c
  BY <1>1 DEF Followed
<1>3. \E k \in DOMAIN t.asked : t.asked[k] = c
  BY DEF Followed
<1>4. \A k \in DOMAIN t.inbox : ~Live(t.inbox[k], Reads)
  BY DEF Followed
<1> QED BY <1>2, <1>3, <1>4 DEF Fresh

LEMMA FreshReload ==
  ASSUME NEW s, Pre(s), s.ui.active, ~s.ui.query, NEW sel \in Some, NEW W \in SUBSET Waiters
  PROVE  /\ Fresh(Reload(s, sel, W))
         /\ Reload(s, sel, W).ui.filter = s.ui.filter
         /\ Reload(s, sel, W).ui.rows = <<>>
         /\ SameKinds(s, Reload(s, sel, W))
<1> DEFINE t == Reload(s, sel, W)
           c == t.asked[Len(s.asked) + 1]
<1>1. /\ Base(t) /\ Followed(s, t, c)
      /\ But(s.ui, t.ui, {"mode", "rows", "offset", "preview", "revealed"})
      /\ t.ui.mode = "recent" /\ t.ui.rows = <<>> /\ t.ui.offset = RangeStart(s)
      /\ t.ui.preview = None /\ t.ui.revealed = None
      /\ Live(c, {"list"}) /\ c.reload = TRUE /\ c.sel = sel /\ c.done = W
      /\ c.offset = RangeStart(s) /\ c.limit \in Nat
      /\ c.limit >= s.ui.height + 2 * Overscan
  BY ReloadIs
<1> HIDE DEF t, c
<1>2. UiOK(t.ui) /\ DOMAIN s.ui = UiFields
  BY <1>1 DEF Base, Pre, UiOK
<1>3. /\ t.ui.active = s.ui.active /\ t.ui.height = s.ui.height /\ t.ui.start = s.ui.start
      /\ t.ui.filter = s.ui.filter
  BY <1>1, <1>2 DEF But, UiFields
<1>4. RangeStart(t) = RangeStart(s)
  BY <1>3 DEF RangeStart
<1>5. Spans(t, c.offset, c.limit)
  BY <1>1, <1>2, <1>3, <1>4, SpansAll
<1>6. Fresh(t)
  BY <1>1, <1>3, <1>5, FreshIs
<1>7. SameKinds(s, t)
  BY <1>1, FollowedKinds DEF Pre
<1> QED BY <1>1, <1>3, <1>6, <1>7 DEF t

LEMMA FreshSetQuery ==
  ASSUME NEW s, Pre(s), s.ui.active, NEW query \in BOOLEAN, NEW W \in SUBSET Waiters
  PROVE  LET t == SetQuery(s, query, W)
         IN  /\ Fresh(t) /\ t.ui.filter = s.ui.filter /\ t.ui.keep = None
             /\ t.ui.mode = "search" => t.ui.rows = s.ui.rows /\ t.ui.offset = s.ui.offset
             /\ t.ui.mode = (IF query THEN "search" ELSE "recent")
             /\ SameKinds(s, t)
<1> DEFINE t == SetQuery(s, query, W)
           c == t.asked[Len(s.asked) + 1]
<1>1. /\ Base(t) /\ Followed(s, t, c)
      /\ But(s.ui, t.ui, {"keep", "query", "sel", "start", "preview", "revealed", "mode",
                          "rows", "offset"})
      /\ t.ui.sel = 0 /\ t.ui.start = 0 /\ t.ui.keep = None /\ t.ui.query = query
      /\ t.ui.preview = None /\ t.ui.revealed = None /\ c.done = W
      /\ query => /\ t.ui.mode = "search" /\ Live(c, {"search"})
                  /\ t.ui.rows = s.ui.rows /\ t.ui.offset = s.ui.offset
      /\ ~query => /\ t.ui.mode = "recent" /\ Live(c, {"list"}) /\ c.reload = TRUE
                   /\ t.ui.rows = <<>> /\ t.ui.offset = 0 /\ c.offset = 0 /\ c.sel = None
                   /\ c.limit \in Nat /\ c.limit >= s.ui.height + 2 * Overscan
  <2>1. Queried(s, t, query, W)
    BY SetQueryIs
  <2> HIDE DEF t
  <2> QED BY <2>1 DEF Queried
<1> HIDE DEF t, c
<1>2. UiOK(t.ui) /\ DOMAIN s.ui = UiFields
  BY <1>1 DEF Base, Pre, UiOK
<1>3. t.ui.active = s.ui.active /\ t.ui.height = s.ui.height /\ t.ui.filter = s.ui.filter
  BY <1>1, <1>2 DEF But, UiFields
<1>4. RangeStart(t) = 0
  BY <1>1, PaletteAssumption DEF RangeStart, MaxOf
<1>5. ~query => Spans(t, c.offset, c.limit)
  BY <1>1, <1>2, <1>3, <1>4, SpansAll
<1>6. Fresh(t)
  BY <1>1, <1>3, <1>5, FreshIs
<1>7. SameKinds(s, t)
  BY <1>1, FollowedKinds DEF Pre
<1> QED BY <1>1, <1>3, <1>6, <1>7 DEF t

LEMMA FreshRefresh ==
  ASSUME NEW s, Base(s), s.ui.active, NEW W \in SUBSET Waiters
  PROVE  LET t == Refresh(s, W)
         IN  /\ Fresh(t) /\ t.ui.filter = s.ui.filter /\ t.ui.mode = s.ui.mode
             /\ t.ui.mode = "search" => t.ui.rows = s.ui.rows /\ t.ui.offset = s.ui.offset
             /\ SameKinds(s, t)
<1> DEFINE t == Refresh(s, W)
           c == t.asked[Len(s.asked) + 1]
<1>1. Pre(s) /\ UiOK(s.ui) /\ DOMAIN s.ui = UiFields
  BY DEF Base, Pre, UiOK
<1>2. \/ s.ui.mode = "search" /\ s.ui.query /\ t = SetQuery(s, TRUE, W)
      \/ /\ s.ui.mode = "recent"
         /\ Base(t) /\ Followed(s, t, c)
         /\ But(s.ui, t.ui, {"keep", "mode", "rows", "offset", "preview", "revealed"})
         /\ t.ui.mode = "recent" /\ t.ui.rows = <<>> /\ t.ui.preview = None
         /\ Live(c, {"list"}) /\ c.reload = TRUE
         /\ c.offset = RangeStart(s) /\ c.limit \in Nat
         /\ c.limit >= s.ui.height + 2 * Overscan
  BY RefreshIs, ZenonT(30)
<1> HIDE DEF t, c
<1>3. CASE s.ui.mode = "search" /\ t = SetQuery(s, TRUE, W)
  <2> DEFINE q == SetQuery(s, TRUE, W)
  <2>1. /\ Fresh(q) /\ q.ui.filter = s.ui.filter
        /\ q.ui.mode = "search" => q.ui.rows = s.ui.rows /\ q.ui.offset = s.ui.offset
        /\ q.ui.mode = "search" /\ SameKinds(s, q)
    BY <1>1, FreshSetQuery
  <2> QED BY <1>3, <2>1 DEF t
<1>4. CASE /\ s.ui.mode = "recent"
           /\ Base(t) /\ Followed(s, t, c)
           /\ But(s.ui, t.ui, {"keep", "mode", "rows", "offset", "preview", "revealed"})
           /\ t.ui.mode = "recent" /\ t.ui.rows = <<>> /\ t.ui.preview = None
           /\ Live(c, {"list"}) /\ c.reload = TRUE
           /\ c.offset = RangeStart(s) /\ c.limit \in Nat
           /\ c.limit >= s.ui.height + 2 * Overscan
  <2>1. UiOK(t.ui)
    BY <1>4 DEF Base
  <2>2. /\ t.ui.active = s.ui.active /\ t.ui.height = s.ui.height /\ t.ui.start = s.ui.start
        /\ t.ui.filter = s.ui.filter
    BY <1>1, <1>4 DEF But, UiFields
  <2>3. RangeStart(t) = RangeStart(s)
    BY <2>2 DEF RangeStart
  <2>4. Spans(t, c.offset, c.limit)
    BY <1>4, <2>1, <2>2, <2>3, SpansAll
  <2>5. Fresh(t)
    BY <1>4, <2>2, <2>4, FreshIs
  <2>6. SameKinds(s, t)
    BY <1>1, <1>4, FollowedKinds DEF Pre
  <2> QED BY <1>4, <2>2, <2>5, <2>6 DEF t
<1> QED BY <1>2, <1>3, <1>4

LEMMA ClosedHidden ==
  ASSUME NEW s, Pre(s), NEW kinds
  PROVE  LET t == HidePreview(CloseEditors(s, kinds))
         IN  /\ Pre(t) /\ AllSofter(s, t) /\ NoneLive(t, {"preview"})
             /\ But(s.ui, t.ui, {"editor", "preview", "revealed"})
             /\ t.ui.preview = None /\ t.ui.revealed = None
             /\ t.ui.editor \in {NoEditor, s.ui.editor}
             /\ AllEditors \subseteq kinds => t.ui.editor.id = None
<1> DEFINE e == CloseEditors(s, kinds)
           t == HidePreview(e)
<1>1. /\ Pre(e) /\ AllBeside(s, e) /\ But(s.ui, e.ui, {"editor"})
      /\ e.ui.editor \in {NoEditor, s.ui.editor}
      /\ AllEditors \subseteq kinds => e.ui.editor.id = None
  BY CloseEditorsIs
<1> HIDE DEF e
<1>2. /\ Pre(t) /\ AllSofter(e, t) /\ NoneLive(t, {"preview"})
      /\ But(e.ui, t.ui, {"preview", "revealed"})
      /\ t.ui.preview = None /\ t.ui.revealed = None
  BY <1>1, HidePreviewIs
<1> HIDE DEF t
<1>3. AllSofter(s, t)
  BY <1>1, <1>2, BesideSofter, SofterTransitive
<1>4. DOMAIN e.ui = UiFields /\ DOMAIN s.ui = UiFields
  BY <1>1 DEF Pre, UiOK
<1>5. But(s.ui, t.ui, {"editor", "preview", "revealed"})
  BY <1>1, <1>2 DEF But
<1>6. t.ui.editor = e.ui.editor
  BY <1>2, <1>4 DEF But, UiFields
<1> QED BY <1>1, <1>2, <1>3, <1>5, <1>6 DEF t, e

LEMMA BlankedIs ==
  ASSUME NEW s, Pre(s)
  PROVE  LET b == [s EXCEPT !.ui.sel = 0, !.ui.start = 0, !.ui.rows = <<>>, !.ui.offset = 0,
                            !.ui.total = 0]
             h == HidePreview(CloseEditors(b, {"tagging", "titling"}))
         IN  /\ ReloadFilter(s) = SetQuery(h, s.ui.query, {})
             /\ Pre(h) /\ AllSofter(s, h) /\ NoneLive(h, {"preview"})
             /\ h.ui.active = s.ui.active /\ h.ui.filter = s.ui.filter /\ h.ui.rows = <<>>
             /\ h.ui.total = 0 /\ h.ui.tabs = s.ui.tabs /\ h.ui.failed = s.ui.failed
             /\ h.ui.preview = None /\ h.ui.revealed = None /\ h.ui.keep = s.ui.keep
             /\ h.ui.editor \in {NoEditor, s.ui.editor} /\ SameKinds(s, h)
<1> DEFINE b == [s EXCEPT !.ui.sel = 0, !.ui.start = 0, !.ui.rows = <<>>, !.ui.offset = 0,
                          !.ui.total = 0]
           h == HidePreview(CloseEditors(b, {"tagging", "titling"}))
<1>1. ReloadFilter(s) = SetQuery(h, s.ui.query, {})
  BY DEF ReloadFilter
<1>2. UiOK(s.ui) /\ DOMAIN s.ui = UiFields
  BY DEF Pre, UiOK
<1>3. /\ IsState(b) /\ b.asked = s.asked /\ b.inbox = s.inbox
      /\ b.ui = [s.ui EXCEPT !.sel = 0, !.start = 0, !.rows = <<>>, !.offset = 0, !.total = 0]
  BY DEF IsState, Pre, Carries
<1> HIDE DEF b
<1> DEFINE F == {"sel", "start", "rows", "offset", "total"}
<1>4. /\ DOMAIN b.ui = UiFields /\ \A x \in UiFields \ F : b.ui[x] = s.ui[x]
      /\ b.ui.sel = 0 /\ b.ui.start = 0 /\ b.ui.rows = <<>> /\ b.ui.offset = 0 /\ b.ui.total = 0
  <2>1. DOMAIN b.ui = UiFields /\ \A x \in UiFields \ F : b.ui[x] = s.ui[x]
    BY <1>2, <1>3
  <2>2. /\ b.ui.sel = 0 /\ b.ui.start = 0 /\ b.ui.rows = <<>> /\ b.ui.offset = 0
        /\ b.ui.total = 0
    BY <1>2, <1>3 DEF UiFields
  <2> QED BY <2>1, <2>2
<1>5. Pre(b)
  <2>1. /\ b.ui.active = s.ui.active /\ b.ui.query = s.ui.query /\ b.ui.mode = s.ui.mode
        /\ b.ui.filter = s.ui.filter /\ b.ui.height = s.ui.height /\ b.ui.tabs = s.ui.tabs
        /\ b.ui.failed = s.ui.failed /\ b.ui.preview = s.ui.preview
        /\ b.ui.revealed = s.ui.revealed /\ b.ui.keep = s.ui.keep /\ b.ui.editor = s.ui.editor
        /\ b.ui.dialog = s.ui.dialog /\ b.ui.drag = s.ui.drag /\ b.ui.removing = s.ui.removing
    BY <1>4 DEF UiFields
  <2>2. UiOK(b.ui)
    BY <1>2, <1>4, <2>1 DEF UiOK
  <2>3. Calls(b)
    BY <1>3 DEF Pre, Calls, Orderly
  <2> QED BY <1>3, <2>2, <2>3 DEF Pre
<1>6. /\ Pre(h) /\ AllSofter(b, h) /\ NoneLive(h, {"preview"})
      /\ But(b.ui, h.ui, {"editor", "preview", "revealed"})
      /\ h.ui.preview = None /\ h.ui.revealed = None
      /\ h.ui.editor \in {NoEditor, b.ui.editor}
  BY <1>5, ClosedHidden
<1> HIDE DEF h
<1>7. /\ h.ui.active = s.ui.active /\ h.ui.filter = s.ui.filter /\ h.ui.rows = <<>>
      /\ h.ui.total = 0 /\ h.ui.tabs = s.ui.tabs /\ h.ui.failed = s.ui.failed
      /\ h.ui.keep = s.ui.keep /\ h.ui.editor \in {NoEditor, s.ui.editor}
  <2>1. DOMAIN b.ui = UiFields
    BY <1>5 DEF Pre, UiOK
  <2>2. /\ h.ui.active = b.ui.active /\ h.ui.filter = b.ui.filter /\ h.ui.rows = b.ui.rows
        /\ h.ui.total = b.ui.total /\ h.ui.tabs = b.ui.tabs /\ h.ui.failed = b.ui.failed
        /\ h.ui.keep = b.ui.keep
    BY <1>6, <2>1 DEF But, UiFields
  <2>3. /\ b.ui.active = s.ui.active /\ b.ui.filter = s.ui.filter /\ b.ui.tabs = s.ui.tabs
        /\ b.ui.failed = s.ui.failed /\ b.ui.keep = s.ui.keep /\ b.ui.editor = s.ui.editor
    BY <1>4 DEF UiFields
  <2> QED BY <1>4, <1>6, <2>2, <2>3
<1>8. AllSofter(s, h)
  BY <1>3, <1>6 DEF AllSofter
<1>9. SameKinds(s, h)
  BY <1>6, <1>8, SofterKinds DEF Pre, AllSofter
<1> QED BY <1>1, <1>6, <1>7, <1>8, <1>9 DEF b, h

LEMMA ReloadFilterIs ==
  ASSUME NEW s, Pre(s), s.ui.active
  PROVE  LET t == ReloadFilter(s)
         IN  /\ Fresh(t) /\ t.ui.filter = s.ui.filter /\ t.ui.rows = <<>> /\ t.ui.keep = None
             /\ SameKinds(s, t)
<1> DEFINE b == [s EXCEPT !.ui.sel = 0, !.ui.start = 0, !.ui.rows = <<>>, !.ui.offset = 0,
                          !.ui.total = 0]
           h == HidePreview(CloseEditors(b, {"tagging", "titling"}))
           query == s.ui.query
           t == SetQuery(h, query, {})
<1>1. /\ ReloadFilter(s) = t /\ Pre(h)
      /\ h.ui.active = s.ui.active /\ h.ui.filter = s.ui.filter /\ h.ui.rows = <<>>
      /\ SameKinds(s, h)
  BY BlankedIs
<1> HIDE DEF h
<1>2. query \in BOOLEAN /\ {} \in SUBSET Waiters
  BY DEF Pre, UiOK
<1> HIDE DEF query
<1>3. /\ Fresh(t) /\ t.ui.filter = h.ui.filter /\ t.ui.keep = None
      /\ t.ui.mode = "search" => t.ui.rows = h.ui.rows /\ t.ui.offset = h.ui.offset
      /\ SameKinds(h, t)
  BY <1>1, <1>2, FreshSetQuery, ZenonT(30)
<1> HIDE DEF t
<1>4. t.ui.rows = <<>>
  <2>1. t.ui.mode \in {"recent", "search"}
    BY <1>3 DEF Fresh, Base, UiOK
  <2> QED BY <1>1, <1>3, <2>1 DEF Fresh
<1>5. SameKinds(s, t)
  BY <1>1, <1>3 DEF SameKinds
<1> QED BY <1>1, <1>3, <1>4, <1>5

LEMMA ScrubIs ==
  ASSUME NEW s, Pre(s)
  PROVE  Base(Scrub(s)) /\ ~Scrub(s).ui.active
<1> DEFINE o == Outdate(s, {"list", "search", "removeTab"})
           r == ResetRefreshSelection(o)
           h == HidePreview(CloseEditors(r, AllEditors))
           t == [h EXCEPT !.ui.active = FALSE, !.ui.query = FALSE, !.ui.rows = <<>>,
                          !.ui.offset = 0, !.ui.sel = 0, !.ui.start = 0, !.ui.total = 0,
                          !.ui.tabs = {}, !.ui.failed = FALSE]
<1>1. Scrub(s) = t
  BY DEF Scrub
<1>2. /\ IsState(o) /\ o.ui = s.ui /\ AllSofter(s, o) /\ Calls(o)
      /\ NoneLive(o, {"list", "search", "removeTab"})
  BY OutdateIs DEF Pre
<1> HIDE DEF o
<1>3. Pre(o) /\ DOMAIN o.ui = UiFields /\ UiOK(o.ui)
  BY <1>2 DEF Pre, UiOK
<1>4. IsState(r) /\ r.ui = [o.ui EXCEPT !.keep = None] /\ AllSofter(o, r) /\ Calls(r)
  BY <1>3, ResetIs
<1> HIDE DEF r
<1>5. But(o.ui, r.ui, {"keep"}) /\ r.ui.keep = None
  BY <1>3, <1>4 DEF But, UiFields
<1>6. Pre(r)
  <2>1. DOMAIN r.ui = UiFields /\ \A x \in UiFields \ {"keep"} : r.ui[x] = o.ui[x]
    BY <1>3, <1>5 DEF But
  <2>2. UiOK(r.ui)
    BY <1>3, <1>5, <2>1 DEF UiOK, UiFields, Some
  <2> QED BY <1>4, <2>2 DEF Pre
<1>7. /\ Pre(h) /\ AllSofter(r, h) /\ NoneLive(h, {"preview"})
      /\ But(r.ui, h.ui, {"editor", "preview", "revealed"})
      /\ h.ui.preview = None /\ h.ui.revealed = None /\ h.ui.editor.id = None
  BY <1>6, ClosedHidden
<1> HIDE DEF h
<1>8. h.ui.keep = None /\ DOMAIN h.ui = UiFields /\ UiOK(h.ui)
  <2>1. DOMAIN r.ui = UiFields
    BY <1>6 DEF Pre, UiOK
  <2> QED BY <1>5, <1>7, <2>1 DEF But, UiFields, Pre
<1>9. NoneLive(h, {"list", "search", "preview", "removeTab"})
  <2>1. NoneLive(h, {"list", "search", "removeTab"})
    BY <1>2, <1>4, <1>7, SofterCalls
  <2>2. \A d : Live(d, {"list", "search", "preview", "removeTab"}) =>
          Live(d, {"list", "search", "removeTab"}) \/ Live(d, {"preview"})
    BY DEF Live
  <2> QED BY <1>7, <2>1, <2>2 DEF NoneLive
<1>10. /\ IsState(t) /\ t.asked = h.asked /\ t.inbox = h.inbox
       /\ t.ui = [h.ui EXCEPT !.active = FALSE, !.query = FALSE, !.rows = <<>>, !.offset = 0,
                              !.sel = 0, !.start = 0, !.total = 0, !.tabs = {}, !.failed = FALSE]
  BY <1>7 DEF IsState, Pre, Carries
<1> HIDE DEF t
<1> DEFINE F == {"active", "query", "rows", "offset", "sel", "start", "total", "tabs", "failed"}
<1>11. DOMAIN t.ui = UiFields /\ \A x \in UiFields \ F : t.ui[x] = h.ui[x]
  BY <1>8, <1>10
<1>12. /\ t.ui.active = FALSE /\ t.ui.query = FALSE /\ t.ui.rows = <<>> /\ t.ui.offset = 0
       /\ t.ui.sel = 0 /\ t.ui.start = 0 /\ t.ui.total = 0 /\ t.ui.tabs = {}
       /\ t.ui.failed = FALSE
  BY <1>8, <1>10 DEF UiFields
<1>13. UiOK(t.ui)
  <2>1. /\ t.ui.mode = h.ui.mode /\ t.ui.filter = h.ui.filter /\ t.ui.height = h.ui.height
        /\ t.ui.preview = h.ui.preview /\ t.ui.revealed = h.ui.revealed
        /\ t.ui.keep = h.ui.keep /\ t.ui.editor = h.ui.editor /\ t.ui.dialog = h.ui.dialog
        /\ t.ui.drag = h.ui.drag /\ t.ui.removing = h.ui.removing
    BY <1>11 DEF UiFields
  <2>2. t.ui.active \in BOOLEAN /\ t.ui.query \in BOOLEAN /\ t.ui.failed \in BOOLEAN
    BY <1>12
  <2>3. t.ui.offset \in Nat /\ t.ui.sel \in Nat /\ t.ui.start \in Nat /\ t.ui.total \in Nat
    BY <1>12
  <2>4. t.ui.rows \in Seq(ListRows) /\ t.ui.tabs \subseteq Tabs
    BY <1>12
  <2> QED BY <1>8, <1>11, <2>1, <2>2, <2>3, <2>4 DEF UiOK
<1>14. Blank(t.ui)
  BY <1>7, <1>8, <1>11, <1>12 DEF Blank, UiFields
<1>15. Calls(t)
  BY <1>7, <1>10 DEF Pre, Calls, Orderly
<1>16. NoneLive(t, {"list", "search", "preview", "removeTab"})
  BY <1>9, <1>10 DEF NoneLive
<1>17. AllFit(t)
  BY <1>16 DEF AllFit, Fits, NoneLive, Live
<1>18. Base(t)
  BY <1>10, <1>12, <1>13, <1>14, <1>15, <1>16, <1>17 DEF Base, Quiet
<1> QED BY <1>1, <1>12, <1>18

LEMMA OnShownIs ==
  ASSUME NEW s, Pre(s)
  PROVE  LET t == OnShown(s)
         IN  Fresh(t) /\ t.ui.filter = "all" /\ t.ui.rows = <<>>
<1> DEFINE o == Outdate(s, {"removeTab"})
           r == ResetRefreshSelection(o)
           e == CloseEditors(r, AllEditors)
           b == [e EXCEPT !.ui.active = TRUE, !.ui.query = FALSE, !.ui.mode = "recent",
                          !.ui.sel = 0, !.ui.start = 0, !.ui.filter = "all",
                          !.ui.drag = None, !.ui.dialog = None]
           h == HidePreview(b)
           t == Reload(h, None, {})
<1>1. OnShown(s) = t
  BY DEF OnShown
<1>2. IsState(o) /\ o.ui = s.ui /\ Calls(o)
  BY OutdateIs DEF Pre
<1> HIDE DEF o
<1>3. Pre(o) /\ DOMAIN o.ui = UiFields /\ UiOK(o.ui)
  BY <1>2 DEF Pre, UiOK
<1>4. IsState(r) /\ r.ui = [o.ui EXCEPT !.keep = None] /\ Calls(r)
  BY <1>3, ResetIs
<1> HIDE DEF r
<1>5. Pre(r)
  <2>1. /\ DOMAIN r.ui = UiFields /\ \A x \in UiFields \ {"keep"} : r.ui[x] = o.ui[x]
        /\ r.ui.keep = None
    BY <1>3, <1>4 DEF UiFields
  <2>2. UiOK(r.ui)
    BY <1>3, <2>1 DEF UiOK, UiFields, Some
  <2> QED BY <1>4, <2>2 DEF Pre
<1>6. Pre(e)
  BY <1>5, CloseEditorsIs
<1> HIDE DEF e
<1>7. /\ IsState(b) /\ b.asked = e.asked /\ b.inbox = e.inbox
      /\ b.ui = [e.ui EXCEPT !.active = TRUE, !.query = FALSE, !.mode = "recent", !.sel = 0,
                             !.start = 0, !.filter = "all", !.drag = None, !.dialog = None]
  BY <1>6 DEF IsState, Pre, Carries
<1> HIDE DEF b
<1>8. DOMAIN e.ui = UiFields /\ UiOK(e.ui)
  BY <1>6 DEF Pre, UiOK
<1> DEFINE F == {"active", "query", "mode", "sel", "start", "filter", "drag", "dialog"}
<1>9. /\ DOMAIN b.ui = UiFields /\ \A x \in UiFields \ F : b.ui[x] = e.ui[x]
      /\ b.ui.active = TRUE /\ b.ui.query = FALSE /\ b.ui.mode = "recent" /\ b.ui.sel = 0
      /\ b.ui.start = 0 /\ b.ui.filter = "all" /\ b.ui.drag = None /\ b.ui.dialog = None
  BY <1>7, <1>8, ZenonT(30) DEF UiFields
<1>10. UiOK(b.ui)
  <2>1. "all" \in Filters /\ None \in Some
    BY DEF Filters, Some
  <2>2. /\ b.ui.height = e.ui.height /\ b.ui.rows = e.ui.rows /\ b.ui.offset = e.ui.offset
        /\ b.ui.total = e.ui.total /\ b.ui.tabs = e.ui.tabs /\ b.ui.failed = e.ui.failed
        /\ b.ui.preview = e.ui.preview /\ b.ui.revealed = e.ui.revealed
        /\ b.ui.keep = e.ui.keep /\ b.ui.editor = e.ui.editor /\ b.ui.removing = e.ui.removing
    BY <1>9 DEF UiFields
  <2>3. b.ui.active \in BOOLEAN /\ b.ui.query \in BOOLEAN
    BY <1>9
  <2>4. b.ui.sel \in Nat /\ b.ui.start \in Nat /\ b.ui.mode \in {"recent", "search"}
    BY <1>9
  <2>5. b.ui.filter \in Filters /\ b.ui.drag \in Some /\ b.ui.dialog \in Tabs \cup {None}
    BY <1>9, <2>1
  <2> QED BY <1>8, <1>9, <2>2, <2>3, <2>4, <2>5 DEF UiOK
<1>11. Pre(b)
  BY <1>6, <1>7, <1>10 DEF Pre, Calls, Orderly
<1>12. Pre(h) /\ But(b.ui, h.ui, {"preview", "revealed"})
  BY <1>11, HidePreviewIs
<1> HIDE DEF h
<1>13. h.ui.active = TRUE /\ h.ui.query = FALSE /\ h.ui.filter = "all"
  BY <1>9, <1>12 DEF But, UiFields
<1>14. Fresh(t) /\ t.ui.filter = h.ui.filter /\ t.ui.rows = <<>>
  BY <1>12, <1>13, FreshReload DEF Some
<1> QED BY <1>1, <1>13, <1>14

-----------------------------------------------------------------------------
(* What arrives.  The first message leaves the inbox, and what it says is  *)
(* still so.                                                               *)
Incoming(s, m) ==
  /\ Base(s) /\ MessageOK(m) /\ Fits(m, s.ui)
  /\ \A k \in DOMAIN s.asked : ~Clash(m, s.asked[k])
  /\ \A k \in DOMAIN s.inbox : ~Clash(m, s.inbox[k])
  /\ ~s.ui.active => ~Live(m, {"list", "search", "preview", "removeTab"})

LEMMA PopIs ==
  ASSUME NEW s, Base(s), s.inbox # <<>>
  PROVE  LET p == [s EXCEPT !.inbox = Tail(@)]
             m == Head(s.inbox)
         IN  /\ Incoming(p, m) /\ p.ui = s.ui /\ p.asked = s.asked
             /\ 1 \in DOMAIN s.inbox /\ m = s.inbox[1]
             /\ \A k \in DOMAIN p.inbox : /\ p.inbox[k] = s.inbox[k + 1]
                                          /\ k + 1 \in DOMAIN s.inbox /\ k \in Nat
             /\ \A k \in DOMAIN s.inbox : k = 1 \/ k - 1 \in DOMAIN p.inbox
             /\ Len(p.inbox) = Len(s.inbox) - 1 /\ Len(s.inbox) \in Nat
             /\ DOMAIN p.inbox = 1 .. Len(p.inbox) /\ DOMAIN s.inbox = 1 .. Len(s.inbox)
<1> DEFINE p == [s EXCEPT !.inbox = Tail(s.inbox)]
           m == Head(s.inbox)
           n == Len(s.inbox)
<1>1. /\ IsState(p) /\ p.ui = s.ui /\ p.asked = s.asked /\ p.inbox = Tail(s.inbox)
  BY DEF Base, IsState, Carries
<1> HIDE DEF p
<1>2. /\ IsSeq(p.inbox) /\ Len(p.inbox) = n - 1 /\ n >= 1 /\ n \in Nat
      /\ DOMAIN s.inbox = 1 .. n /\ DOMAIN p.inbox = 1 .. n - 1
      /\ \A k \in 1 .. n - 1 : p.inbox[k] = s.inbox[k + 1]
      /\ m = s.inbox[1] /\ 1 \in DOMAIN s.inbox
  <2>1. IsSeq(s.inbox)
    BY DEF Base, Calls
  <2> QED BY <1>1, <2>1, TailIs, SeqIs
<1> HIDE DEF m, n
<1>3. \A k \in DOMAIN p.inbox : /\ p.inbox[k] = s.inbox[k + 1] /\ k + 1 \in DOMAIN s.inbox
                                /\ k \in Nat /\ 1 < k + 1
  BY <1>2
<1>4. \A k \in DOMAIN s.inbox : k = 1 \/ k - 1 \in DOMAIN p.inbox
  BY <1>2
<1>5. Calls(p)
  <2>1. \A i, j \in DOMAIN p.inbox : i < j => ~Clash(p.inbox[i], p.inbox[j])
    <3> SUFFICES ASSUME NEW i \in DOMAIN p.inbox, NEW j \in DOMAIN p.inbox, i < j
                 PROVE  ~Clash(p.inbox[i], p.inbox[j])
      OBVIOUS
    <3>1. i + 1 < j + 1 /\ i + 1 \in DOMAIN s.inbox /\ j + 1 \in DOMAIN s.inbox
      BY <1>3
    <3>2. ~Clash(s.inbox[i + 1], s.inbox[j + 1])
      BY <3>1 DEF Base, Calls, Orderly
    <3> QED BY <1>3, <3>2
  <2>2. Orderly(p)
    BY <1>1, <1>3, <2>1 DEF Base, Calls, Orderly
  <2> QED BY <1>1, <1>2, <1>3, <2>2 DEF Base, Calls
<1>6. AllFit(p)
  BY <1>1, <1>3 DEF Base, AllFit
<1>7. Quiet(p)
  BY <1>1, <1>3 DEF Base, Quiet, NoneLive
<1>8. Base(p)
  BY <1>1, <1>5, <1>6, <1>7 DEF Base
<1>9. MessageOK(m) /\ Fits(m, p.ui)
  BY <1>1, <1>2 DEF Base, Calls, AllFit
<1>10. /\ \A k \in DOMAIN p.asked : ~Clash(m, p.asked[k])
       /\ \A k \in DOMAIN p.inbox : ~Clash(m, p.inbox[k])
  <2>1. \A k \in DOMAIN p.asked : ~Clash(m, p.asked[k])
    BY <1>1, <1>2 DEF Base, Calls, Orderly
  <2>2. \A k \in DOMAIN p.inbox : ~Clash(m, p.inbox[k])
    BY <1>2, <1>3 DEF Base, Calls, Orderly
  <2> QED BY <2>1, <2>2
<1>11. ~p.ui.active => ~Live(m, {"list", "search", "preview", "removeTab"})
  BY <1>1, <1>2 DEF Base, Quiet, NoneLive
<1>12. Incoming(p, m)
  BY <1>8, <1>9, <1>10, <1>11 DEF Incoming
<1>13. Len(p.inbox) = Len(s.inbox) - 1 /\ Len(s.inbox) \in Nat
       /\ DOMAIN p.inbox = 1 .. Len(p.inbox) /\ DOMAIN s.inbox = 1 .. Len(s.inbox)
  BY <1>2 DEF n
<1> QED BY <1>1, <1>2, <1>3, <1>4, <1>12, <1>13 DEF p, m

LEMMA AsideSame ==
  ASSUME NEW s, Base(s), NEW t, IsState(t), t.asked = s.asked, t.inbox = s.inbox,
         But(s.ui, t.ui, AsideFields), t.ui.keep \in Some, t.ui.drag \in Some,
         EditorOK(t.ui.editor), t.ui.dialog \in Tabs \cup {None},
         t.ui.removing \in Tabs \cup {None},
         ~s.ui.active => t.ui.keep = None /\ t.ui.editor.id = None
  PROVE  Base(t) /\ Pre(t) /\ AllBeside(s, t)
<1>1. UiOK(s.ui) /\ Calls(s)
  BY DEF Base
<1>2. UiOK(t.ui) /\ \A x \in UiFields \ AsideFields : t.ui[x] = s.ui[x]
  BY <1>1, AsideUi
<1>3. Calls(t)
  BY <1>1 DEF Calls, Orderly
<1>4. Pre(t) /\ AllBeside(s, t)
  BY <1>1, <1>2, <1>3, BesideSame DEF Pre
<1>5. But(s.ui, t.ui, FreeFields)
  BY DEF But, FreeFields
<1>6. t.ui.preview = s.ui.preview /\ t.ui.revealed = s.ui.revealed
  BY <1>2 DEF UiFields, AsideFields
<1>7. ~s.ui.active => /\ t.ui.preview = None /\ t.ui.revealed = None
                      /\ t.ui.keep = None /\ t.ui.editor.id = None
  BY <1>6 DEF Base, Quiet, Blank
<1>8. Base(t)
  BY <1>4, <1>5, <1>6, <1>7, BaseStays, BesideSofter
<1> QED BY <1>4, <1>8

(* The state after one of the fields is set, beside the calls.             *)
LEMMA SetEditor ==
  ASSUME NEW s, Base(s), NEW e, EditorOK(e), NEW t, IsState(t), t.asked = s.asked,
         t.inbox = s.inbox, t.ui = [s.ui EXCEPT !.editor = e], ~s.ui.active => e.id = None
  PROVE  Base(t) /\ Pre(t) /\ AllBeside(s, t) /\ But(s.ui, t.ui, {"editor"}) /\ t.ui.editor = e
<1>1. UiOK(s.ui) /\ DOMAIN s.ui = UiFields
  BY DEF Base, UiOK
<1>2. /\ But(s.ui, t.ui, {"editor"}) /\ t.ui.editor = e
      /\ t.ui.keep = s.ui.keep /\ t.ui.drag = s.ui.drag /\ t.ui.dialog = s.ui.dialog
      /\ t.ui.removing = s.ui.removing
  BY <1>1 DEF But, UiFields
<1>3. But(s.ui, t.ui, AsideFields)
  BY <1>2 DEF But, AsideFields
<1>4. /\ t.ui.keep \in Some /\ t.ui.drag \in Some /\ t.ui.dialog \in Tabs \cup {None}
      /\ t.ui.removing \in Tabs \cup {None}
  BY <1>1, <1>2 DEF UiOK
<1>5. ~s.ui.active => t.ui.keep = None /\ t.ui.editor.id = None
  BY <1>2 DEF Base, Quiet, Blank
<1>6. Base(t) /\ Pre(t) /\ AllBeside(s, t)
  BY <1>2, <1>3, <1>4, <1>5, AsideSame
<1> QED BY <1>2, <1>6

LEMMA NothingElse ==
  ASSUME NEW s, NEW m, Incoming(s, m), Live(m, {"list"}) \/ Live(m, {"search"})
  PROVE  /\ NoneLive(s, {"list", "search"}) /\ s.ui.active
         /\ m.kind \in {"list", "search"} /\ AnswerOK(m) /\ m.done \in SUBSET Waiters
<1>1. Live(m, {"list", "search"}) /\ Live(m, {"list", "search", "preview", "removeTab"})
  BY DEF Live
<1>2. \A d : ~Clash(m, d) => ~Live(d, {"list", "search"})
  BY <1>1 DEF Clash
<1>3. NoneLive(s, {"list", "search"})
  BY <1>2 DEF Incoming, NoneLive
<1>4. s.ui.active
  BY <1>1 DEF Incoming, Base, UiOK
<1>5. m.kind \in {"list", "search"}
  BY DEF Live
<1>6. AnswerOK(m)
  BY <1>5 DEF Incoming, MessageOK, EventKinds
<1> QED BY <1>3, <1>4, <1>5, <1>6 DEF AnswerOK, CallOK

(* A step with the calls as they are, no list or search being read, and    *)
(* the palette shown.                                                      *)
LEMMA BaseRead ==
  ASSUME NEW s, Base(s), NoneLive(s, {"list", "search"}), s.ui.active,
         NEW t, IsState(t), t.asked = s.asked, t.inbox = s.inbox, UiOK(t.ui),
         t.ui.active = s.ui.active, t.ui.mode = s.ui.mode, t.ui.query = s.ui.query
  PROVE  Base(t)
<1>1. Calls(t)
  BY DEF Base, Calls, Orderly
<1>2. AllFit(t)
  BY DEF NoneLive, AllFit, Fits, Live
<1> QED BY <1>1, <1>2 DEF Base, Quiet

LEMMA TakePageIs ==
  ASSUME NEW s, NEW m, Incoming(s, m), Live(m, {"list"}), m.ok
  PROVE  LET t == TakePage(s, m)
             F == {"rows", "offset", "total", "tabs", "failed", "sel"}
         IN  /\ Base(t) /\ t.asked = s.asked /\ t.inbox = s.inbox
             /\ DOMAIN t.ui = UiFields /\ \A x \in UiFields \ F : t.ui[x] = s.ui[x]
             /\ t.ui.rows = m.rows /\ t.ui.offset = m.offset /\ t.ui.total = m.total
             /\ t.ui.tabs = m.tabs /\ t.ui.failed = FALSE
             /\ t.ui.sel = (IF s.ui.sel >= m.total THEN MaxOf(0, m.total - 1) ELSE s.ui.sel)
<1> DEFINE t == TakePage(s, m)
           F == {"rows", "offset", "total", "tabs", "failed", "sel"}
           sel == IF s.ui.sel >= m.total THEN MaxOf(0, m.total - 1) ELSE s.ui.sel
<1>1. /\ NoneLive(s, {"list", "search"}) /\ s.ui.active
      /\ m.kind \in {"list", "search"} /\ AnswerOK(m)
  BY NothingElse
<1>2. m.kind = "list"
  BY DEF Live
<1>3. /\ m.rows \in Seq(ListRows) /\ m.total \in Nat /\ m.tabs \subseteq Tabs /\ m.offset \in Nat
  BY <1>1, <1>2 DEF AnswerOK, CallOK
<1>4. Base(s) /\ UiOK(s.ui) /\ DOMAIN s.ui = UiFields
  BY DEF Incoming, Base, UiOK
<1>5. /\ IsState(t) /\ t.asked = s.asked /\ t.inbox = s.inbox
      /\ t.ui = [s.ui EXCEPT !.rows = m.rows, !.offset = m.offset, !.total = m.total,
                             !.tabs = m.tabs, !.failed = FALSE, !.sel = sel]
  BY <1>4 DEF TakePage, Base, IsState, Carries, UiFields
<1>6. sel \in Nat
  BY <1>3, <1>4 DEF UiOK, MaxOf
<1> HIDE DEF t, sel
<1>7. DOMAIN t.ui = UiFields /\ \A x \in UiFields \ F : t.ui[x] = s.ui[x]
  BY <1>4, <1>5
<1>8. /\ t.ui.rows = m.rows /\ t.ui.offset = m.offset /\ t.ui.total = m.total
      /\ t.ui.tabs = m.tabs /\ t.ui.failed = FALSE /\ t.ui.sel = sel
  BY <1>4, <1>5 DEF UiFields
<1>9. UiOK(t.ui)
  <2>1. /\ t.ui.active = s.ui.active /\ t.ui.query = s.ui.query /\ t.ui.mode = s.ui.mode
        /\ t.ui.filter = s.ui.filter /\ t.ui.start = s.ui.start /\ t.ui.height = s.ui.height
        /\ t.ui.preview = s.ui.preview /\ t.ui.revealed = s.ui.revealed
        /\ t.ui.keep = s.ui.keep /\ t.ui.editor = s.ui.editor /\ t.ui.dialog = s.ui.dialog
        /\ t.ui.drag = s.ui.drag /\ t.ui.removing = s.ui.removing
    BY <1>7 DEF UiFields
  <2>2. t.ui.failed \in BOOLEAN
    BY <1>8
  <2> QED BY <1>3, <1>4, <1>6, <1>7, <1>8, <2>1, <2>2 DEF UiOK
<1>10. t.ui.active = s.ui.active /\ t.ui.mode = s.ui.mode /\ t.ui.query = s.ui.query
  BY <1>7 DEF UiFields
<1>11. Base(t)
  BY <1>1, <1>4, <1>5, <1>9, <1>10, BaseRead
<1> QED BY <1>5, <1>7, <1>8, <1>11 DEF t, sel

LEMMA SetFailed ==
  ASSUME NEW s, NEW m, Incoming(s, m), Live(m, {"list"}) \/ Live(m, {"search"})
  PROVE  LET t == [s EXCEPT !.ui.failed = TRUE]
         IN  /\ Base(t) /\ t.asked = s.asked /\ t.inbox = s.inbox
             /\ But(s.ui, t.ui, {"failed"}) /\ t.ui.failed = TRUE
<1> DEFINE t == [s EXCEPT !.ui.failed = TRUE]
<1>1. NoneLive(s, {"list", "search"}) /\ s.ui.active
  BY NothingElse
<1>2. Base(s) /\ UiOK(s.ui) /\ DOMAIN s.ui = UiFields
  BY DEF Incoming, Base, UiOK
<1>3. /\ IsState(t) /\ t.asked = s.asked /\ t.inbox = s.inbox
      /\ t.ui = [s.ui EXCEPT !.failed = TRUE]
  BY <1>2 DEF Base, IsState, Carries
<1> HIDE DEF t
<1>4. But(s.ui, t.ui, {"failed"}) /\ t.ui.failed = TRUE
  BY <1>2, <1>3 DEF But, UiFields
<1>5. UiOK(t.ui)
  <2>1. DOMAIN t.ui = UiFields /\ \A x \in UiFields \ {"failed"} : t.ui[x] = s.ui[x]
    BY <1>2, <1>4 DEF But
  <2> QED BY <1>2, <1>4, <2>1 DEF UiOK, UiFields
<1>6. t.ui.active = s.ui.active /\ t.ui.mode = s.ui.mode /\ t.ui.query = s.ui.query
  BY <1>2, <1>4 DEF But, UiFields
<1>7. Base(t)
  BY <1>1, <1>2, <1>3, <1>5, <1>6, BaseRead
<1> QED BY <1>3, <1>4, <1>7 DEF t

LEMMA WindowStartIs ==
  ASSUME NEW sel \in Nat, NEW start \in Nat, NEW total \in Nat, NEW height \in Nat \ {0}
  PROVE  LET n == WindowStartFor(sel, start, total, height)
         IN  n \in Nat /\ n <= MaxOf(0, total - height)
BY DEF WindowStartFor, MaxOf, MinOf

LEMMA ReselectIs ==
  ASSUME NEW s, Base(s), NEW m
  PROVE  LET t == Reselect(s, m)
             at == {k \in DOMAIN s.ui.rows : s.ui.rows[k].id = m.sel}
         IN  /\ Base(t) /\ Placed(t.ui) /\ t.asked = s.asked /\ t.inbox = s.inbox
             /\ But(s.ui, t.ui, {"sel", "start"})
             /\ at = {} => t.ui.sel = s.ui.sel
             /\ at # {} => \E k \in at : t.ui.sel = s.ui.offset + k - 1
<1> DEFINE t == Reselect(s, m)
           at == {k \in DOMAIN s.ui.rows : s.ui.rows[k].id = m.sel}
           low == MinOf(s.ui.start, MaxOf(0, s.ui.total - s.ui.height))
           k == CHOOSE j \in at : TRUE
           sel == s.ui.offset + k - 1
           start == IF at = {} THEN low ELSE WindowStartFor(sel, low, s.ui.total, s.ui.height)
<1>1. UiOK(s.ui) /\ DOMAIN s.ui = UiFields /\ Pre(s)
  BY DEF Base, UiOK, Pre
<1>2. /\ s.ui.start \in Nat /\ s.ui.total \in Nat /\ s.ui.height \in Nat \ {0}
      /\ s.ui.offset \in Nat /\ DOMAIN s.ui.rows = 1 .. Len(s.ui.rows)
  BY <1>1, RangeIs DEF UiOK
<1>3. low \in Nat /\ low <= MaxOf(0, s.ui.total - s.ui.height)
  BY <1>2 DEF MinOf, MaxOf
<1>4. at # {} => k \in at /\ sel \in Nat
  <2>1. at # {} => k \in at
    OBVIOUS
  <2> HIDE DEF k
  <2>2. \A j \in at : j \in Nat /\ j >= 1
    BY <1>2
  <2> QED BY <1>2, <2>1, <2>2
<1> HIDE DEF low, at, k
<1>5. /\ start \in Nat /\ start <= MaxOf(0, s.ui.total - s.ui.height)
  BY <1>2, <1>3, <1>4, WindowStartIs
<1> DEFINE chosenSel == IF at = {} THEN s.ui.sel ELSE sel
<1>6. /\ IsState(t) /\ t.asked = s.asked /\ t.inbox = s.inbox
      /\ t.ui = [s.ui EXCEPT !.sel = chosenSel, !.start = start]
  <2>1. IsState(s)
    BY DEF Base
  <2>2. t = IF at = {} THEN [s EXCEPT !.ui.start = low]
            ELSE [s EXCEPT !.ui.sel = sel,
                     !.ui.start = WindowStartFor(sel, low, s.ui.total, s.ui.height)]
    BY DEF Reselect, at, low, k
  <2> HIDE DEF t, sel
  <2>3. CASE at = {}
    <3>1. t = [s EXCEPT !.ui.start = low]
      BY <2>2, <2>3
    <3>2. t.ui = [s.ui EXCEPT !.start = low]
      BY <2>1, <3>1 DEF IsState, Carries
    <3>3. t.ui = [s.ui EXCEPT !.sel = s.ui.sel, !.start = low]
      BY <1>1, <3>2 DEF UiFields
    <3> QED BY <2>1, <2>3, <3>1, <3>3 DEF IsState, Carries
  <2>4. CASE at # {}
    BY <2>1, <2>2, <2>4 DEF IsState, Carries
  <2> QED BY <2>3, <2>4
<1>7. chosenSel \in Nat
  BY <1>1, <1>4 DEF UiOK
<1> HIDE DEF t, start, chosenSel, sel
<1>8. /\ But(s.ui, t.ui, {"sel", "start"}) /\ t.ui.sel = chosenSel /\ t.ui.start = start
  BY <1>1, <1>6 DEF But, UiFields
<1>9. UiOK(t.ui)
  <2>1. DOMAIN t.ui = UiFields /\ \A x \in UiFields \ {"sel", "start"} : t.ui[x] = s.ui[x]
    BY <1>1, <1>8 DEF But
  <2> QED BY <1>1, <1>5, <1>7, <1>8, <2>1 DEF UiOK, UiFields
<1>10. Pre(t) /\ AllSofter(s, t)
  BY <1>1, <1>6, <1>9, BesideSame, BesideSofter DEF Pre, Calls, Orderly
<1>11. But(s.ui, t.ui, FreeFields)
  BY <1>8 DEF But, FreeFields
<1>12. /\ t.ui.preview = s.ui.preview /\ t.ui.revealed = s.ui.revealed /\ t.ui.keep = s.ui.keep
       /\ t.ui.editor = s.ui.editor /\ t.ui.total = s.ui.total /\ t.ui.height = s.ui.height
  BY <1>1, <1>8 DEF But, UiFields
<1>13. Base(t)
  BY <1>10, <1>11, <1>12, BaseStays DEF Base, Quiet, Blank
<1>14. Placed(t.ui)
  BY <1>5, <1>8, <1>12 DEF Placed
<1>15. (at = {} => t.ui.sel = s.ui.sel) /\ (at # {} => \E j \in at : t.ui.sel = s.ui.offset + j - 1)
  BY <1>4, <1>8 DEF chosenSel, sel
<1> QED BY <1>6, <1>8, <1>13, <1>14, <1>15 DEF t, at

LEMMA BaseOnList ==
  ASSUME NEW s, NEW m, Incoming(s, m), m.kind = "list"
  PROVE  Base(OnList(s, m))
<1> DEFINE taken == IF ~m.live THEN s
                    ELSE IF m.ok THEN TakePage(s, m) ELSE [s EXCEPT !.ui.failed = TRUE]
<1>1. AnswerOK(m) /\ m.done \in SUBSET Waiters /\ m.preview \in BOOLEAN
      /\ m.live \in BOOLEAN /\ m.ok \in BOOLEAN
  BY DEF Incoming, MessageOK, EventKinds, AnswerOK, CallOK
<1>2. Base(taken)
  <2>1. CASE ~m.live
    BY <2>1 DEF Incoming
  <2>2. CASE m.live
    <3>1. Live(m, {"list"})
      BY <2>2 DEF Live
    <3> QED BY <2>2, <3>1, TakePageIs, SetFailed
  <2> QED BY <2>1, <2>2
<1>3. OnList(s, m) = IF m.reload /\ m.live /\ m.ok
                     THEN EnsureLoaded(Reselect(taken, m), TRUE, m.done)
                     ELSE GoOn(taken, m.preview, m.done)
  BY DEF OnList, GoOn
<1> HIDE DEF taken
<1>4. Base(GoOn(taken, m.preview, m.done))
  BY <1>1, <1>2, BaseGoOn
<1>5. Base(EnsureLoaded(Reselect(taken, m), TRUE, m.done))
  <2> DEFINE r == Reselect(taken, m)
  <2>1. Base(r) /\ Placed(r.ui)
    BY <1>2, ReselectIs
  <2> HIDE DEF r
  <2>2. Base(EnsureLoaded(r, TRUE, m.done))
    BY <1>1, <2>1, BaseEnsureLoaded
  <2> QED BY <2>2 DEF r
<1> QED BY <1>3, <1>4, <1>5

LEMMA TakeFoundIs ==
  ASSUME NEW s, NEW m, Incoming(s, m), Live(m, {"search"}), m.ok
  PROVE  LET t == [s EXCEPT !.ui.rows = m.rows, !.ui.offset = 0, !.ui.total = Len(m.rows),
                            !.ui.tabs = m.tabs, !.ui.failed = FALSE]
             F == {"rows", "offset", "total", "tabs", "failed"}
         IN  /\ Base(t) /\ t.asked = s.asked /\ t.inbox = s.inbox
             /\ DOMAIN t.ui = UiFields /\ \A x \in UiFields \ F : t.ui[x] = s.ui[x]
             /\ t.ui.rows = m.rows /\ t.ui.offset = 0 /\ t.ui.total = Len(m.rows)
             /\ t.ui.tabs = m.tabs /\ t.ui.failed = FALSE
<1> DEFINE t == [s EXCEPT !.ui.rows = m.rows, !.ui.offset = 0, !.ui.total = Len(m.rows),
                          !.ui.tabs = m.tabs, !.ui.failed = FALSE]
           F == {"rows", "offset", "total", "tabs", "failed"}
<1>1. NoneLive(s, {"list", "search"}) /\ s.ui.active /\ AnswerOK(m)
  BY NothingElse
<1>2. m.kind = "search"
  BY DEF Live
<1>3. /\ m.rows \in Seq(ListRows) /\ Len(m.rows) \in Nat /\ m.tabs \subseteq Tabs
  BY <1>1, <1>2 DEF AnswerOK
<1>4. Base(s) /\ UiOK(s.ui) /\ DOMAIN s.ui = UiFields
  BY DEF Incoming, Base, UiOK
<1>5. /\ IsState(t) /\ t.asked = s.asked /\ t.inbox = s.inbox
      /\ t.ui = [s.ui EXCEPT !.rows = m.rows, !.offset = 0, !.total = Len(m.rows),
                             !.tabs = m.tabs, !.failed = FALSE]
  BY <1>4 DEF Base, IsState, Carries, UiFields
<1> HIDE DEF t
<1>7. DOMAIN t.ui = UiFields /\ \A x \in UiFields \ F : t.ui[x] = s.ui[x]
  BY <1>4, <1>5
<1>8. /\ t.ui.rows = m.rows /\ t.ui.offset = 0 /\ t.ui.total = Len(m.rows)
      /\ t.ui.tabs = m.tabs /\ t.ui.failed = FALSE
  BY <1>4, <1>5 DEF UiFields
<1>9. UiOK(t.ui)
  <2>1. /\ t.ui.active = s.ui.active /\ t.ui.query = s.ui.query /\ t.ui.mode = s.ui.mode
        /\ t.ui.filter = s.ui.filter /\ t.ui.start = s.ui.start /\ t.ui.height = s.ui.height
        /\ t.ui.preview = s.ui.preview /\ t.ui.revealed = s.ui.revealed /\ t.ui.sel = s.ui.sel
        /\ t.ui.keep = s.ui.keep /\ t.ui.editor = s.ui.editor /\ t.ui.dialog = s.ui.dialog
        /\ t.ui.drag = s.ui.drag /\ t.ui.removing = s.ui.removing
    BY <1>7 DEF UiFields
  <2>2. t.ui.failed \in BOOLEAN
    BY <1>8
  <2>3. t.ui.offset \in Nat
    BY <1>8
  <2> QED BY <1>3, <1>4, <1>7, <1>8, <2>1, <2>2, <2>3 DEF UiOK
<1>10. t.ui.active = s.ui.active /\ t.ui.mode = s.ui.mode /\ t.ui.query = s.ui.query
  BY <1>7 DEF UiFields
<1>11. Base(t)
  BY <1>1, <1>4, <1>5, <1>9, <1>10, BaseRead
<1> QED BY <1>5, <1>7, <1>8, <1>11 DEF t

LEMMA BaseOnSearch ==
  ASSUME NEW s, NEW m, Incoming(s, m), m.kind = "search"
  PROVE  Base(OnSearch(s, m))
<1> DEFINE found == [s EXCEPT !.ui.rows = m.rows, !.ui.offset = 0, !.ui.total = Len(m.rows),
                              !.ui.tabs = m.tabs, !.ui.failed = FALSE]
           failed == [s EXCEPT !.ui.failed = TRUE]
<1>1. m.done \in SUBSET Waiters
  BY DEF Incoming, MessageOK, EventKinds, AnswerOK, CallOK
<1>2. CASE ~m.live
  BY <1>2, BaseDone DEF OnSearch, Incoming
<1>3. CASE m.live
  <2>1. Live(m, {"search"})
    BY <1>3 DEF Live
  <2>2. m.ok => Base(found)
    BY <2>1, TakeFoundIs
  <2>3. Base(failed)
    BY <2>1, SetFailed
  <2>4. OnSearch(s, m) = LoadPreview(IF m.ok THEN found ELSE failed, m.done)
    BY <1>3 DEF OnSearch
  <2> HIDE DEF found, failed
  <2> QED BY <1>1, <2>2, <2>3, <2>4, BaseLoadPreview
<1> QED BY <1>2, <1>3

LEMMA PreviewShown ==
  ASSUME NEW s, NEW m, Incoming(s, m), Live(m, {"preview"}), NEW x \in Some
  PROVE  LET t == [s EXCEPT !.ui.preview = x]
         IN  /\ Base(t) /\ t.asked = s.asked /\ t.inbox = s.inbox
             /\ But(s.ui, t.ui, {"preview"}) /\ t.ui.preview = x /\ s.ui.active
<1> DEFINE t == [s EXCEPT !.ui.preview = x]
<1>1. Base(s) /\ UiOK(s.ui) /\ DOMAIN s.ui = UiFields /\ Pre(s)
  BY DEF Incoming, Base, UiOK, Pre
<1>2. /\ Pre(t) /\ t.asked = s.asked /\ t.inbox = s.inbox
      /\ But(s.ui, t.ui, {"preview"}) /\ t.ui.preview = x
  BY <1>1, SetPreview
<1> HIDE DEF t
<1>3. s.ui.active
  BY <1>1 DEF Incoming, Live, UiOK
<1>4. /\ t.ui.active = s.ui.active /\ t.ui.mode = s.ui.mode /\ t.ui.query = s.ui.query
      /\ t.ui.filter = s.ui.filter /\ t.ui.offset = s.ui.offset /\ t.ui.rows = s.ui.rows
      /\ t.ui.total = s.ui.total
  BY <1>1, <1>2 DEF But, UiFields
<1>5. \A d : ~Clash(m, d) => ~Live(d, {"search"}) /\ (Live(d, {"list"}) => ~d.reload)
  BY DEF Clash
<1>6. \A d : Fits(d, s.ui) /\ ~Clash(m, d) => Fits(d, t.ui)
  BY <1>4, <1>5 DEF Fits
<1>7. AllFit(t)
  BY <1>1, <1>2, <1>6 DEF Incoming, AllFit, Base
<1>8. Base(t)
  BY <1>1, <1>2, <1>3, <1>4, <1>7 DEF Base, Quiet, Pre
<1> QED BY <1>2, <1>3, <1>8 DEF t

LEMMA BaseOnPreview ==
  ASSUME NEW s, NEW m, Incoming(s, m), m.kind = "preview"
  PROVE  Base(OnPreview(s, m))
<1> DEFINE x == IF m.ok THEN m.id ELSE None
           t == [s EXCEPT !.ui.preview = x]
<1>1. x \in Some
  BY DEF Incoming, MessageOK, EventKinds, AnswerOK, CallOK, Some
<1>2. OnPreview(s, m) = Done(IF m.live THEN t ELSE s, m.done)
  BY DEF OnPreview
<1> HIDE DEF x
<1>3. m.live => Base(t)
  BY <1>1, PreviewShown DEF Live
<1> HIDE DEF t
<1>4. Base(IF m.live THEN t ELSE s)
  BY <1>3 DEF Incoming
<1> QED BY <1>2, <1>4, BaseDone

Noted(s, m) ==
  IF s.ui.editor.kind = "tagging" /\ s.ui.editor.id = m.id
  THEN [s EXCEPT !.ui.editor.tags = IF m.tagged THEN @ \cup {m.tab} ELSE @ \ {m.tab}]
  ELSE s

LEMMA NotedIs ==
  ASSUME NEW s, Base(s), NEW m, CallOK(m), m.kind = "tag"
  PROVE  LET t == Noted(s, m)
         IN  Base(t) /\ Pre(t) /\ AllBeside(s, t) /\ But(s.ui, t.ui, {"editor"})
<1> DEFINE t == Noted(s, m)
           tags == IF m.tagged THEN s.ui.editor.tags \cup {m.tab} ELSE s.ui.editor.tags \ {m.tab}
           e == [s.ui.editor EXCEPT !.tags = tags]
<1>1. UiOK(s.ui) /\ EditorOK(s.ui.editor) /\ DOMAIN s.ui = UiFields /\ IsState(s) /\ Calls(s)
  BY DEF Base, UiOK
<1>2. CASE ~(s.ui.editor.kind = "tagging" /\ s.ui.editor.id = m.id)
  <2>1. t = s
    BY <1>2 DEF Noted
  <2>2. AllBeside(s, s)
    BY <1>1, BesideSame
  <2> HIDE DEF t
  <2>3. Base(t) /\ Pre(t) /\ AllBeside(s, t) /\ But(s.ui, t.ui, {"editor"})
    BY <1>1, <2>1, <2>2 DEF Pre, But
  <2> QED BY <2>3 DEF t
<1>3. CASE s.ui.editor.kind = "tagging" /\ s.ui.editor.id = m.id
  <2>1. t = [s EXCEPT !.ui.editor.tags = tags]
    BY <1>1, <1>3 DEF Noted, IsState, Carries, UiFields
  <2>2. tags \in SUBSET Tabs
    BY <1>1 DEF EditorOK, CallOK
  <2> HIDE DEF tags
  <2>3. IsState(t) /\ t.asked = s.asked /\ t.inbox = s.inbox /\ t.ui = [s.ui EXCEPT !.editor = e]
    BY <1>1, <2>1 DEF IsState, Carries
  <2>4. EditorOK(e) /\ e.id = s.ui.editor.id
    BY <1>1, <2>2 DEF EditorOK
  <2> HIDE DEF e, t
  <2>5. ~s.ui.active => e.id = None
    BY <2>4 DEF Base, Quiet, Blank
  <2>6. Base(t) /\ Pre(t) /\ AllBeside(s, t) /\ But(s.ui, t.ui, {"editor"})
    BY <2>3, <2>4, <2>5, SetEditor
  <2> QED BY <2>6 DEF t
<1> QED BY <1>2, <1>3

OnTaggedWaiters(m) == IF m.live THEN {"tag"} ELSE {}

LEMMA OnTaggedIs ==
  ASSUME NEW s, NEW m
  PROVE  OnTagged(s, m) = IF m.ok THEN Refresh(Noted(s, m), OnTaggedWaiters(m))
                          ELSE Done(s, OnTaggedWaiters(m))
BY DEF OnTagged, Noted, OnTaggedWaiters

LEMMA BaseOnTagged ==
  ASSUME NEW s, NEW m, Incoming(s, m), m.kind = "tag"
  PROVE  Base(OnTagged(s, m))
<1> DEFINE W == OnTaggedWaiters(m)
           n == Noted(s, m)
<1>1. Base(s) /\ CallOK(m) /\ W \in SUBSET Waiters
  BY DEF Incoming, MessageOK, EventKinds, AnswerOK, OnTaggedWaiters, Waiters
<1>2. Base(n)
  BY <1>1, NotedIs
<1>3. OnTagged(s, m) = IF m.ok THEN Refresh(n, W) ELSE Done(s, W)
  BY OnTaggedIs
<1> HIDE DEF W, n
<1>4. Base(Refresh(n, W)) /\ Base(Done(s, W))
  BY <1>1, <1>2, BaseRefresh, BaseDone
<1> QED BY <1>3, <1>4

LEMMA BaseOnTitled ==
  ASSUME NEW s, NEW m, Incoming(s, m), m.kind = "title"
  PROVE  Base(OnTitled(s, m))
<1> DEFINE h == HidePreview(CloseEditors(s, AllEditors))
<1>1. Base(s)
  BY DEF Incoming
<1>2. Base(h)
  BY <1>1, BaseCloseEditors, BaseHidePreview
<1> HIDE DEF h
<1>3. Base(Refresh(h, {}))
  BY <1>2, BaseRefresh
<1> QED BY <1>1, <1>3 DEF OnTitled, h

LEMMA NotSaving ==
  ASSUME NEW s, Base(s), NEW saving \in BOOLEAN
  PROVE  LET t == [s EXCEPT !.ui.editor.saving = saving]
         IN  Base(t) /\ Pre(t) /\ AllBeside(s, t) /\ But(s.ui, t.ui, {"editor"})
             /\ t.asked = s.asked /\ t.inbox = s.inbox
<1> DEFINE t == [s EXCEPT !.ui.editor.saving = saving]
           e == [s.ui.editor EXCEPT !.saving = saving]
<1>1. EditorOK(s.ui.editor) /\ IsState(s)
  BY DEF Base, UiOK
<1>2. IsState(t) /\ t.asked = s.asked /\ t.inbox = s.inbox /\ t.ui = [s.ui EXCEPT !.editor = e]
  BY <1>1 DEF IsState, Carries
<1>3. EditorOK(e) /\ e.id = s.ui.editor.id
  BY <1>1 DEF EditorOK
<1> HIDE DEF t, e
<1>4. ~s.ui.active => e.id = None
  BY <1>3 DEF Base, Quiet, Blank
<1>5. Base(t) /\ Pre(t) /\ AllBeside(s, t) /\ But(s.ui, t.ui, {"editor"})
  BY <1>2, <1>3, <1>4, SetEditor
<1> QED BY <1>2, <1>5 DEF t

LEMMA BaseOnTabCreated ==
  ASSUME NEW s, NEW m, Incoming(s, m), m.kind = "createTab"
  PROVE  Base(OnTabCreated(s, m))
<1> DEFINE h == CloseEditors(s, AllEditors)
<1>1. Base(s)
  BY DEF Incoming
<1>2. Base(h)
  BY <1>1, BaseCloseEditors
<1> HIDE DEF h
<1>3. Base(Refresh(h, {}))
  BY <1>2, BaseRefresh
<1>4. Base([s EXCEPT !.ui.editor.saving = FALSE])
  BY <1>1, NotSaving
<1> QED BY <1>1, <1>3, <1>4 DEF OnTabCreated, h

LEMMA BaseOnPinned ==
  ASSUME NEW s, NEW m, Incoming(s, m)
  PROVE  Base(OnPinned(s, m))
<1>1. Base(s)
  BY DEF Incoming
<1>2. Base(Refresh(s, {}))
  BY <1>1, BaseRefresh
<1> QED BY <1>1, <1>2 DEF OnPinned

(* One of the fields that no answer is about.                              *)
LEMMA SetRemoving ==
  ASSUME NEW s, Base(s), NEW x \in Tabs \cup {None}
  PROVE  LET t == [s EXCEPT !.ui.removing = x]
         IN  /\ Base(t) /\ Pre(t) /\ AllBeside(s, t) /\ But(s.ui, t.ui, {"removing"})
             /\ t.ui.removing = x /\ t.asked = s.asked /\ t.inbox = s.inbox
<1> DEFINE t == [s EXCEPT !.ui.removing = x]
<1>1. UiOK(s.ui) /\ DOMAIN s.ui = UiFields /\ IsState(s)
  BY DEF Base, UiOK
<1>2. /\ IsState(t) /\ t.asked = s.asked /\ t.inbox = s.inbox
      /\ t.ui = [s.ui EXCEPT !.removing = x]
  BY <1>1 DEF IsState, Carries
<1> HIDE DEF t
<1>3. /\ But(s.ui, t.ui, {"removing"}) /\ t.ui.removing = x
      /\ t.ui.keep = s.ui.keep /\ t.ui.drag = s.ui.drag /\ t.ui.dialog = s.ui.dialog
      /\ t.ui.editor = s.ui.editor
  BY <1>1, <1>2 DEF But, UiFields
<1>4. But(s.ui, t.ui, AsideFields)
  BY <1>3 DEF But, AsideFields
<1>5. /\ t.ui.keep \in Some /\ t.ui.drag \in Some /\ t.ui.dialog \in Tabs \cup {None}
      /\ EditorOK(t.ui.editor)
  BY <1>1, <1>3 DEF UiOK
<1>6. ~s.ui.active => t.ui.keep = None /\ t.ui.editor.id = None
  BY <1>3 DEF Base, Quiet, Blank
<1>7. Base(t) /\ Pre(t) /\ AllBeside(s, t)
  BY <1>2, <1>3, <1>4, <1>5, <1>6, AsideSame
<1> QED BY <1>2, <1>3, <1>7 DEF t

LEMMA SetFilter ==
  ASSUME NEW s, Pre(s), NEW x \in Filters
  PROVE  LET t == [s EXCEPT !.ui.filter = x]
         IN  /\ Pre(t) /\ But(s.ui, t.ui, {"filter"}) /\ t.ui.filter = x
             /\ t.asked = s.asked /\ t.inbox = s.inbox
<1> DEFINE t == [s EXCEPT !.ui.filter = x]
<1>1. UiOK(s.ui) /\ DOMAIN s.ui = UiFields /\ IsState(s) /\ Calls(s)
  BY DEF Pre, UiOK
<1>2. /\ IsState(t) /\ t.asked = s.asked /\ t.inbox = s.inbox
      /\ t.ui = [s.ui EXCEPT !.filter = x]
  BY <1>1 DEF IsState, Carries
<1> HIDE DEF t
<1>3. But(s.ui, t.ui, {"filter"}) /\ t.ui.filter = x
  BY <1>1, <1>2 DEF But, UiFields
<1>4. UiOK(t.ui)
  BY <1>1, <1>2 DEF UiOK, UiFields
<1>5. Calls(t)
  BY <1>1, <1>2 DEF Calls, Orderly
<1> QED BY <1>2, <1>3, <1>4, <1>5 DEF Pre, t

(* What the answer of a removed tab leads to.                              *)
LEMMA OnTabRemovedIs ==
  ASSUME NEW s, NEW m, Incoming(s, m), m.kind = "removeTab"
  PROVE  LET t == [s EXCEPT !.ui.removing = None]
             a == [t EXCEPT !.ui.filter = "all"]
         IN  /\ Base(t) /\ AllBeside(s, t) /\ But(s.ui, t.ui, {"removing"})
             /\ t.asked = s.asked /\ t.inbox = s.inbox
             /\ \/ OnTabRemoved(s, m) = t
                \/ /\ s.ui.active /\ OnTabRemoved(s, m) = ReloadFilter(a)
                   /\ Pre(a) /\ a.ui.active /\ a.ui.filter = "all"
                \/ s.ui.active /\ OnTabRemoved(s, m) = Refresh(t, {})
<1> DEFINE t == [s EXCEPT !.ui.removing = None]
           a == [t EXCEPT !.ui.filter = "all"]
<1>1. Base(s) /\ UiOK(s.ui) /\ DOMAIN s.ui = UiFields
  BY DEF Incoming, Base, UiOK
<1>2. /\ Base(t) /\ Pre(t) /\ AllBeside(s, t) /\ But(s.ui, t.ui, {"removing"})
      /\ t.ui.removing = None /\ t.asked = s.asked /\ t.inbox = s.inbox
  BY <1>1, SetRemoving
<1>3. \/ OnTabRemoved(s, m) = t
      \/ m.live /\ OnTabRemoved(s, m) = ReloadFilter(a)
      \/ m.live /\ OnTabRemoved(s, m) = Refresh(t, {})
  BY DEF OnTabRemoved
<1> HIDE DEF t
<1>4. t.ui.active = s.ui.active
  BY <1>1, <1>2 DEF But, UiFields
<1>5. "all" \in Filters
  BY DEF Filters
<1>6. Pre(a) /\ But(t.ui, a.ui, {"filter"}) /\ a.ui.filter = "all"
  BY <1>2, <1>5, SetFilter
<1> HIDE DEF a
<1>7. a.ui.active = s.ui.active
  BY <1>1, <1>2, <1>4, <1>6 DEF But, UiFields
<1>8. m.live => s.ui.active
  BY <1>1 DEF Incoming, Live, UiOK
<1>9. s.ui.active \in BOOLEAN
  BY <1>1 DEF UiOK
<1>10. \/ OnTabRemoved(s, m) = t
       \/ /\ s.ui.active /\ OnTabRemoved(s, m) = ReloadFilter(a)
          /\ Pre(a) /\ a.ui.active /\ a.ui.filter = "all"
       \/ s.ui.active /\ OnTabRemoved(s, m) = Refresh(t, {})
  BY <1>3, <1>6, <1>7, <1>8, <1>9
<1> QED BY <1>2, <1>10 DEF t, a

LEMMA BaseOnTabRemoved ==
  ASSUME NEW s, NEW m, Incoming(s, m), m.kind = "removeTab"
  PROVE  Base(OnTabRemoved(s, m))
<1> DEFINE t == [s EXCEPT !.ui.removing = None]
           a == [t EXCEPT !.ui.filter = "all"]
<1>1. /\ Base(t)
      /\ \/ OnTabRemoved(s, m) = t
         \/ OnTabRemoved(s, m) = ReloadFilter(a) /\ Pre(a) /\ a.ui.active
         \/ OnTabRemoved(s, m) = Refresh(t, {})
  BY OnTabRemovedIs
<1> HIDE DEF t, a
<1>2. Base(Refresh(t, {}))
  BY <1>1, BaseRefresh
<1>3. Pre(a) /\ a.ui.active => Fresh(ReloadFilter(a))
  BY ReloadFilterIs
<1>4. Pre(a) /\ a.ui.active => Base(ReloadFilter(a))
  BY <1>3 DEF Fresh
<1> QED BY <1>1, <1>2, <1>4

LEMMA BaseHandle ==
  ASSUME NEW s, NEW m, Incoming(s, m)
  PROVE  Base(Handle(s, m))
<1>1. Base(s) /\ Pre(s)
  BY DEF Incoming, Base, Pre
<1>2. m.kind \in (CallKinds \ {"close"}) \cup EventKinds
  BY DEF Incoming, MessageOK, AnswerOK, CallOK
<1>3. CASE m.kind = "changed"
  <2>1. Base(Refresh(s, {}))
    BY <1>1, BaseRefresh
  <2> QED BY <1>1, <1>3, <2>1 DEF Handle
<1>4. CASE m.kind = "hidden"
  BY <1>1, <1>4, ScrubIs DEF Handle
<1>5. CASE m.kind = "shown"
  <2>1. Fresh(OnShown(s))
    BY <1>1, OnShownIs
  <2> QED BY <1>5, <2>1 DEF Handle, Fresh
<1>6. CASE m.kind = "list"
  BY <1>6, BaseOnList DEF Handle
<1>7. CASE m.kind = "search"
  BY <1>7, BaseOnSearch DEF Handle
<1>8. CASE m.kind = "preview"
  BY <1>8, BaseOnPreview DEF Handle
<1>9. CASE m.kind = "pin" \/ m.kind = "remove"
  BY <1>9, BaseOnPinned DEF Handle
<1>10. CASE m.kind = "tag"
  BY <1>10, BaseOnTagged DEF Handle
<1>11. CASE m.kind = "title"
  BY <1>11, BaseOnTitled DEF Handle
<1>12. CASE m.kind = "createTab"
  BY <1>12, BaseOnTabCreated DEF Handle
<1>13. CASE m.kind = "removeTab"
  BY <1>13, BaseOnTabRemoved DEF Handle
<1>14. CASE m.kind = "copy"
  BY <1>1, <1>14 DEF Handle
<1> QED BY <1>2, <1>3, <1>4, <1>5, <1>6, <1>7, <1>8, <1>9, <1>10, <1>11, <1>12, <1>13, <1>14
        DEF CallKinds, EventKinds

-----------------------------------------------------------------------------
(* What main sends.  An answer has all that its call had.                  *)
AnswerFields == {"ok", "rows", "total", "tabs", "asOf"}

Carried(c, m) ==
  DOMAIN c \subseteq DOMAIN m /\ \A x \in DOMAIN c \ AnswerFields : m[x] = c[x]

LEMMA CarriedIs ==
  ASSUME NEW c, CallOK(c), NEW m, Carried(c, m)
  PROVE  /\ CallOK(m) /\ m.kind = c.kind /\ m.live = c.live
         /\ \A K : Live(m, K) <=> Live(c, K)
         /\ \A d : Clash(m, d) <=> Clash(c, d)
         /\ \A d : Clash(d, m) <=> Clash(d, c)
         /\ \A u : Fits(c, u) => Fits(m, u)
<1>1. m.kind = c.kind /\ m.live = c.live
  BY DEF CallOK, Carries, Carried, AnswerFields
<1>2. \A K : Live(m, K) <=> Live(c, K)
  BY <1>1 DEF Live
<1>3. c.kind \in {"list", "search", "preview"} => m.done = c.done
  BY DEF CallOK, Carries, Carried, AnswerFields
<1>4. c.kind = "list" =>
        /\ m.offset = c.offset /\ m.limit = c.limit /\ m.filter = c.filter
        /\ m.reload = c.reload /\ m.sel = c.sel /\ m.preview = c.preview
  BY DEF CallOK, Carries, Carried, AnswerFields
<1>5. c.kind = "search" => m.filter = c.filter
  BY DEF CallOK, Carries, Carried, AnswerFields
<1>6. c.kind \in {"preview", "copy", "pin", "remove", "tag", "title"} => m.id = c.id
  BY DEF CallOK, Carries, Carried, AnswerFields
<1>7. /\ c.kind = "pin" => m.pinned = c.pinned
      /\ c.kind \in {"tag", "createTab", "removeTab"} => m.tab = c.tab
      /\ c.kind = "tag" => m.tagged = c.tagged
      /\ c.kind = "title" => m.titled = c.titled
  BY DEF CallOK, Carries, Carried, AnswerFields
<1>8. \A F : Carries(c, F) => Carries(m, F)
  BY DEF Carries, Carried
<1>9. CallOK(m)
  BY <1>1, <1>3, <1>4, <1>5, <1>6, <1>7, <1>8 DEF CallOK
<1>10. Live(c, {"list"}) => c.kind = "list"
  BY DEF Live
<1>11. Live(c, {"search"}) => c.kind = "search"
  BY DEF Live
<1>12. /\ \A d : Clash(m, d) <=> Clash(c, d)
       /\ \A d : Clash(d, m) <=> Clash(d, c)
  BY <1>2, <1>4, <1>10 DEF Clash
<1>13. \A u : Fits(c, u) => Fits(m, u)
  BY <1>2, <1>4, <1>5, <1>10, <1>11 DEF Fits
<1> QED BY <1>1, <1>2, <1>9, <1>12, <1>13

(* One more message on the way.                                            *)
Sent(s, m) == [s EXCEPT !.inbox = Append(@, m)]

LEMMA SentIs ==
  ASSUME NEW s, Base(s), NEW m, MessageOK(m), Fits(m, s.ui),
         \A k \in DOMAIN s.asked : ~Clash(m, s.asked[k]),
         \A k \in DOMAIN s.inbox : ~Clash(s.inbox[k], m),
         ~s.ui.active => ~Live(m, {"list", "search", "preview", "removeTab"})
  PROVE  LET t == Sent(s, m)
         IN  /\ Base(t) /\ t.ui = s.ui /\ t.asked = s.asked /\ t.inbox = Append(s.inbox, m)
             /\ DOMAIN t.inbox = 1 .. Len(s.inbox) + 1 /\ DOMAIN s.inbox = 1 .. Len(s.inbox)
             /\ Len(s.inbox) \in Nat
             /\ \A k \in DOMAIN s.inbox : t.inbox[k] = s.inbox[k]
             /\ t.inbox[Len(s.inbox) + 1] = m
<1> DEFINE t == Sent(s, m)
           n == Len(s.inbox)
<1>1. IsState(t) /\ t.ui = s.ui /\ t.asked = s.asked /\ t.inbox = Append(s.inbox, m)
  BY DEF Sent, Base, IsState, Carries
<1>2. IsSeq(s.asked) /\ IsSeq(s.inbox) /\ Orderly(s)
  BY DEF Base, Calls
<1> HIDE DEF t
<1>3. /\ IsSeq(t.inbox) /\ DOMAIN t.inbox = 1 .. n + 1 /\ DOMAIN s.inbox = 1 .. n /\ n \in Nat
      /\ \A k \in DOMAIN s.inbox : t.inbox[k] = s.inbox[k]
      /\ t.inbox[n + 1] = m
  BY <1>1, <1>2, AppendIs, SeqIs
<1> HIDE DEF n
<1>4. \A k \in DOMAIN t.inbox : k \in DOMAIN s.inbox \/ k = n + 1
  BY <1>3
<1>5. \A i, j \in DOMAIN t.inbox : i < j => ~Clash(t.inbox[i], t.inbox[j])
  <2> SUFFICES ASSUME NEW i \in DOMAIN t.inbox, NEW j \in DOMAIN t.inbox, i < j
               PROVE  ~Clash(t.inbox[i], t.inbox[j])
    OBVIOUS
  <2>1. i \in DOMAIN s.inbox
    BY <1>3
  <2>2. CASE j = n + 1
    BY <1>3, <2>1, <2>2
  <2>3. CASE j \in DOMAIN s.inbox
    BY <1>2, <1>3, <2>1, <2>3 DEF Orderly
  <2> QED BY <1>4, <2>2, <2>3
<1>6. \A i \in DOMAIN t.inbox, j \in DOMAIN t.asked : ~Clash(t.inbox[i], t.asked[j])
  BY <1>1, <1>2, <1>3, <1>4 DEF Orderly
<1>7. Orderly(t)
  BY <1>1, <1>2, <1>5, <1>6 DEF Orderly
<1>8. Calls(t)
  BY <1>1, <1>3, <1>4, <1>7 DEF Calls, Base
<1>9. AllFit(t)
  BY <1>1, <1>3, <1>4 DEF AllFit, Base
<1>10. Quiet(t)
  BY <1>1, <1>3, <1>4 DEF Quiet, Base, NoneLive
<1>11. Base(t)
  BY <1>1, <1>8, <1>9, <1>10 DEF Base
<1> QED BY <1>1, <1>3, <1>11 DEF t, n

LEMMA EventIs ==
  ASSUME NEW kind \in EventKinds
  PROVE  LET e == Event(kind)
         IN  /\ MessageOK(e) /\ e.kind = kind
             /\ \A K : kind \notin K => ~Live(e, K)
             /\ ~Live(e, {"list", "search", "preview", "removeTab"})
             /\ \A d : ~Clash(e, d) /\ ~Clash(d, e)
             /\ \A u : Fits(e, u)
<1> DEFINE e == Event(kind)
<1>1. DOMAIN e = {"kind", "live"} /\ e.kind = kind
  BY DEF Event
<1> HIDE DEF e
<1>2. MessageOK(e)
  BY <1>1 DEF MessageOK, Carries
<1>3. /\ \A K : kind \notin K => ~Live(e, K)
      /\ ~Live(e, {"list"}) /\ ~Live(e, {"search"}) /\ ~Live(e, {"preview"})
      /\ ~Live(e, {"list", "search"}) /\ ~Live(e, {"list", "search", "preview", "removeTab"})
  BY <1>1 DEF Live, EventKinds
<1>4. /\ \A d : ~Clash(e, d) /\ ~Clash(d, e)
      /\ \A u : Fits(e, u)
  BY <1>3 DEF Clash, Fits
<1> QED BY <1>1, <1>2, <1>3, <1>4 DEF e

LEMMA SentEvent ==
  ASSUME NEW s, Base(s), NEW kind \in EventKinds
  PROVE  LET m == Event(kind)
             t == Sent(s, m)
         IN  /\ Base(t) /\ t.ui = s.ui /\ t.asked = s.asked /\ t.inbox = Append(s.inbox, m)
             /\ DOMAIN t.inbox = 1 .. Len(s.inbox) + 1 /\ DOMAIN s.inbox = 1 .. Len(s.inbox)
             /\ Len(s.inbox) \in Nat
             /\ \A k \in DOMAIN s.inbox : t.inbox[k] = s.inbox[k]
             /\ t.inbox[Len(s.inbox) + 1] = m
<1> DEFINE m == Event(kind)
<1>1. /\ MessageOK(m) /\ ~Live(m, {"list", "search", "preview", "removeTab"})
      /\ \A d : ~Clash(m, d) /\ ~Clash(d, m)
      /\ \A u : Fits(m, u)
  BY EventIs
<1> HIDE DEF m
<1>2. LET t == Sent(s, m)
      IN  /\ Base(t) /\ t.ui = s.ui /\ t.asked = s.asked /\ t.inbox = Append(s.inbox, m)
          /\ DOMAIN t.inbox = 1 .. Len(s.inbox) + 1 /\ DOMAIN s.inbox = 1 .. Len(s.inbox)
          /\ Len(s.inbox) \in Nat
          /\ \A k \in DOMAIN s.inbox : t.inbox[k] = s.inbox[k]
          /\ t.inbox[Len(s.inbox) + 1] = m
  BY <1>1, SentIs
<1> QED BY <1>2 DEF m

(* A call that main answers, k of those asked, and one fewer to answer.    *)
MayAnswer(s, k) ==
  k \in DOMAIN s.asked /\ \A j \in 1 .. k - 1 : IsRead(s.asked[j]) # IsRead(s.asked[k])

Taken(s, k) == [s EXCEPT !.asked = RemoveAt(@, k)]

LEMMA TakenIs ==
  ASSUME NEW s, Base(s), NEW k, MayAnswer(s, k)
  PROVE  LET t == Taken(s, k)
             c == s.asked[k]
         IN  /\ Base(t) /\ t.ui = s.ui /\ t.inbox = s.inbox /\ t.asked = RemoveAt(s.asked, k)
             /\ CallOK(c) /\ Fits(c, s.ui)
             /\ \A j \in DOMAIN t.asked : \E i \in DOMAIN s.asked : t.asked[j] = s.asked[i]
             /\ \A j \in DOMAIN t.asked : ~Clash(c, t.asked[j])
             /\ \A j \in DOMAIN t.inbox : ~Clash(t.inbox[j], c)
             /\ ~s.ui.active => ~Live(c, {"list", "search", "preview", "removeTab"})
<1> DEFINE t == Taken(s, k)
           n == Len(s.asked)
           at(j) == IF j < k THEN j ELSE j + 1
<1>1. IsState(t) /\ t.ui = s.ui /\ t.inbox = s.inbox /\ t.asked = RemoveAt(s.asked, k)
  BY DEF Taken, Base, IsState, Carries
<1>2. IsSeq(s.asked) /\ IsSeq(s.inbox) /\ Orderly(s) /\ k \in DOMAIN s.asked
  BY DEF Base, Calls, MayAnswer
<1> HIDE DEF t
<1>3. /\ IsSeq(t.asked) /\ DOMAIN s.asked = 1 .. n /\ n \in Nat /\ k \in 1 .. n
      /\ DOMAIN t.asked = 1 .. n - 1
      /\ \A j \in 1 .. n - 1 : t.asked[j] = s.asked[at(j)]
  BY <1>1, <1>2, RemoveAtIs, SMTT(30)
<1>4. \A j \in DOMAIN t.asked : at(j) \in DOMAIN s.asked /\ at(j) # k /\ t.asked[j] = s.asked[at(j)]
  BY <1>3
<1>5. \A i, j \in DOMAIN t.asked : i < j => at(i) < at(j)
  BY <1>3
<1> HIDE DEF at, n
<1>6. Orderly(t)
  BY <1>1, <1>2, <1>4, <1>5 DEF Orderly
<1>7. Calls(t)
  BY <1>1, <1>3, <1>4, <1>6 DEF Calls, Base
<1>8. AllFit(t)
  BY <1>1, <1>4 DEF AllFit, Base
<1>9. Quiet(t)
  BY <1>1, <1>4 DEF Quiet, Base, NoneLive
<1>10. Base(t)
  BY <1>1, <1>7, <1>8, <1>9 DEF Base
<1> DEFINE c == s.asked[k]
<1>11. CallOK(c) /\ Fits(c, s.ui)
  BY <1>2 DEF Base, Calls, AllFit
<1>12. \A j \in DOMAIN t.asked : ~Clash(c, t.asked[j])
  <2> SUFFICES ASSUME NEW i \in DOMAIN s.asked, i # k
               PROVE  ~Clash(c, s.asked[i])
    BY <1>4
  <2>1. CASE i < k
    <3>1. i \in 1 .. k - 1
      BY <1>3, <2>1
    <3>2. IsRead(s.asked[i]) # IsRead(c)
      BY <3>1 DEF MayAnswer
    <3>3. \A d, e : Clash(d, e) => IsRead(d) /\ IsRead(e)
      BY DEF Clash, Live, IsRead
    <3>4. IsRead(c) /\ IsRead(s.asked[i]) => IsRead(s.asked[i]) = IsRead(c)
      BY DEF IsRead
    <3> QED BY <3>2, <3>3, <3>4
  <2>2. CASE k < i
    BY <1>2, <2>2 DEF Orderly
  <2>3. i < k \/ k < i
    BY <1>3
  <2> QED BY <2>1, <2>2, <2>3
<1>13. \A j \in DOMAIN t.inbox : ~Clash(t.inbox[j], c)
  BY <1>1, <1>2 DEF Orderly
<1>14. ~s.ui.active => ~Live(c, {"list", "search", "preview", "removeTab"})
  BY <1>2 DEF Base, Quiet, NoneLive
<1> HIDE DEF c
<1>15. \A j \in DOMAIN t.asked : \E i \in DOMAIN s.asked : t.asked[j] = s.asked[i]
  BY <1>4
<1> QED BY <1>1, <1>10, <1>11, <1>12, <1>13, <1>14, <1>15 DEF t, c

-----------------------------------------------------------------------------
(* The history.                                                            *)
DbOK ==
  db \in Seq(ListRows) /\ Distinct(db) /\ named \subseteq Tabs /\ expired \subseteq Secrets

LEMMA PageIs ==
  ASSUME NEW V, NEW rows, rows \in Seq(V), NEW offset \in Nat, NEW limit \in Nat
  PROVE  LET p == Page(rows, offset, limit)
             n == MinOf(Len(rows), offset + limit)
         IN  /\ p \in Seq(V) /\ DOMAIN p = 1 .. Len(p)
             /\ Len(p) = (IF n >= offset THEN n - offset ELSE 0)
             /\ \A k \in DOMAIN p : offset + k \in DOMAIN rows /\ p[k] = rows[offset + k]
             /\ Distinct(rows) => Distinct(p)
<1> DEFINE p == Page(rows, offset, limit)
           n == MinOf(Len(rows), offset + limit)
<1>1. n \in Nat /\ n <= Len(rows) /\ Len(rows) \in Nat
  BY DEF MinOf
<1>2. p = SubSeq(rows, offset + 1, n)
  BY DEF Page
<1> HIDE DEF p, n
<1>3. p \in Seq(V) /\ Len(p) = IF offset + 1 <= n THEN n - (offset + 1) + 1 ELSE 0
  <2>1. \A i \in offset + 1 .. n : i \in 1 .. Len(rows)
    BY <1>1
  <2>2. \A i \in offset + 1 .. n : rows[i] \in V
    BY <2>1
  <2>3. offset + 1 \in Int /\ n \in Int
    BY <1>1
  <2> QED BY <1>1, <1>2
<1>4. Len(p) = (IF n >= offset THEN n - offset ELSE 0)
  BY <1>1, <1>3
<1>5. \A k \in 1 .. Len(p) : offset + k \in DOMAIN rows /\ p[k] = rows[offset + k]
  <2> SUFFICES ASSUME NEW k \in 1 .. Len(p)
               PROVE  offset + k \in DOMAIN rows /\ p[k] = rows[offset + k]
    OBVIOUS
  <2>1. offset + k \in 1 .. Len(rows) /\ k \in 1 .. n - offset /\ n >= offset
    BY <1>1, <1>4
  <2>2. p[k] = rows[(offset + 1) + k - 1] /\ (offset + 1) + k - 1 = offset + k
    BY <1>1, <1>2, <2>1
  <2> QED BY <2>1, <2>2
<1>6. DOMAIN p = 1 .. Len(p)
  BY <1>3
<1>7. ASSUME Distinct(rows), NEW i \in DOMAIN p, NEW j \in DOMAIN p, p[i].id = p[j].id
      PROVE  i = j
  <2>1. offset + i = offset + j
    BY <1>5, <1>6, <1>7 DEF Distinct
  <2> QED BY <1>6, <2>1
<1>8. Distinct(rows) => Distinct(p)
  BY <1>7 DEF Distinct
<1> QED BY <1>3, <1>4, <1>5, <1>6, <1>8 DEF p, n

LEMMA ListedIs ==
  ASSUME DbOK, NEW filter, NEW gone
  PROVE  Listed(filter, gone) \in Seq(ListRows) /\ Distinct(Listed(filter, gone))
BY OnlyIs DEF DbOK, Listed

LEMMA FoundIs ==
  ASSUME DbOK, NEW filter, NEW gone
  PROVE  Found(filter, gone) \in Seq(ListRows) /\ Distinct(Found(filter, gone))
<1> DEFINE hits == Only(db, {row \in ToSet(db) :
                           row.id \in Matches /\ Passes(row, filter) /\ row.id \notin gone})
<1>1. hits \in Seq(ListRows) /\ Distinct(hits)
  BY OnlyIs DEF DbOK
<1>2. Found(filter, gone) = SubSeq(hits, 1, MinOf(SearchLimit, Len(hits)))
  BY DEF Found
<1> HIDE DEF hits
<1>3. SearchLimit \in Nat /\ Len(hits) \in Nat
  BY <1>1, PaletteAssumption
<1>4. MinOf(SearchLimit, Len(hits)) = MinOf(Len(hits), 0 + SearchLimit)
  BY <1>3 DEF MinOf
<1>5. Found(filter, gone) = Page(hits, 0, SearchLimit)
  BY <1>2, <1>4 DEF Page
<1>6. LET p == Page(hits, 0, SearchLimit)
          n == MinOf(Len(hits), 0 + SearchLimit)
      IN  /\ p \in Seq(ListRows) /\ DOMAIN p = 1 .. Len(p)
          /\ Len(p) = (IF n >= 0 THEN n - 0 ELSE 0)
          /\ \A k \in DOMAIN p : 0 + k \in DOMAIN hits /\ p[k] = hits[0 + k]
          /\ Distinct(hits) => Distinct(p)
  BY <1>1, <1>3, PageIs
<1> QED BY <1>1, <1>5, <1>6

LEMMA TabsShown ==
  ASSUME DbOK, NEW gone
  PROVE  ShownTabs(gone) \subseteq Tabs
<1>1. \A k \in DOMAIN db : db[k] \in ListRows
  BY DEF DbOK
<1>2. \A k \in DOMAIN db : db[k].tags \subseteq Tabs
  BY <1>1 DEF ListRows
<1>3. \A r \in ToSet(db) : r.tags \subseteq Tabs
  BY <1>2 DEF ToSet
<1> QED BY <1>3 DEF ShownTabs, DbOK

LEMMA RowOfIs ==
  ASSUME DbOK, NEW i \in Items, Has(i)
  PROVE  RowOf(i) \in ListRows /\ RowOf(i).id = i
<1>1. \E k \in DOMAIN db : db[k].id = i
  BY DEF Has, IdsOf
<1>2. PICK k \in DOMAIN db : db[k].id = i /\ RowOf(i) = db[k]
  BY <1>1 DEF RowOf
<1> QED BY <1>2 DEF DbOK

LEMMA PutIs ==
  ASSUME DbOK, NEW row \in ListRows
  PROVE  Put(row) \in Seq(ListRows) /\ Distinct(Put(row))
<1> DEFINE q == Put(row)
<1>1. q = [k \in DOMAIN db |-> IF db[k].id = row.id THEN row ELSE db[k]]
  BY DEF Put
<1> HIDE DEF q
<1>2. DOMAIN q = DOMAIN db /\ \A k \in DOMAIN db : q[k].id = db[k].id /\ q[k] \in ListRows
  BY <1>1 DEF DbOK
<1>3. Distinct(q)
  BY <1>2 DEF Distinct, DbOK
<1>4. IsSeq(db)
  BY SeqFrom DEF DbOK
<1>5. IsSeq(q)
  BY <1>1, <1>2, <1>4, SeqLike
<1>6. q \in Seq(ListRows)
  BY <1>2, <1>5, SeqIn
<1> QED BY <1>3, <1>6 DEF q

(* A tab is taken from every row.                                          *)
LEMMA UntaggedIs ==
  ASSUME DbOK, NEW tab
  PROVE  LET q == [j \in DOMAIN db |-> [db[j] EXCEPT !.tags = @ \ {tab}]]
         IN  q \in Seq(ListRows) /\ Distinct(q)
<1> DEFINE q == [j \in DOMAIN db |-> [db[j] EXCEPT !.tags = @ \ {tab}]]
<1>1. DOMAIN q = DOMAIN db /\ \A k \in DOMAIN db : q[k].id = db[k].id /\ q[k] \in ListRows
  <2>1. \A k \in DOMAIN db : db[k] \in ListRows
    BY DEF DbOK
  <2>2. \A r \in ListRows : /\ [r EXCEPT !.tags = r.tags \ {tab}] \in ListRows
                            /\ [r EXCEPT !.tags = r.tags \ {tab}].id = r.id
    BY DEF ListRows
  <2> QED BY <2>1, <2>2
<1>2. q = [k \in DOMAIN db |-> q[k]]
  OBVIOUS
<1> HIDE DEF q
<1>3. Distinct(q)
  BY <1>1 DEF Distinct, DbOK
<1>4. IsSeq(db)
  BY SeqFrom DEF DbOK
<1>5. IsSeq(q)
  BY <1>1, <1>2, <1>4, SeqLike
<1>6. q \in Seq(ListRows)
  BY <1>1, <1>5, SeqIn
<1> QED BY <1>3, <1>6 DEF q

(* A row is the newest.                                                    *)
LEMMA OnTopIs ==
  ASSUME DbOK, NEW row \in ListRows
  PROVE  LET q == <<row>> \o Only(db, {r \in ToSet(db) : r.id # row.id})
         IN  q \in Seq(ListRows) /\ Distinct(q)
<1> DEFINE S == {r \in ToSet(db) : r.id # row.id}
           o == Only(db, S)
           q == <<row>> \o o
<1>1. /\ o \in Seq(ListRows) /\ Distinct(o) /\ \A i \in DOMAIN o : o[i] \in S
  BY OnlyIs DEF DbOK
<1>2. \A i \in DOMAIN o : o[i].id # row.id
  BY <1>1
<1> HIDE DEF o
<1>3. q \in Seq(ListRows) /\ DOMAIN q = 1 .. Len(o) + 1 /\ Len(o) \in Nat
      /\ q[1] = row /\ \A i \in 1 .. Len(o) : q[i + 1] = o[i]
  BY <1>1
<1> HIDE DEF q
<1>4. \A i \in DOMAIN q : i = 1 \/ (i - 1 \in DOMAIN o /\ q[i] = o[i - 1])
  <2> SUFFICES ASSUME NEW i \in DOMAIN q, i # 1
               PROVE  i - 1 \in DOMAIN o /\ q[i] = o[i - 1]
    OBVIOUS
  <2>1. i - 1 \in 1 .. Len(o) /\ (i - 1) + 1 = i
    BY <1>3
  <2>2. DOMAIN o = 1 .. Len(o)
    BY <1>1
  <2> QED BY <1>3, <2>1, <2>2
<1>5. ASSUME NEW i \in DOMAIN q, NEW j \in DOMAIN q, q[i].id = q[j].id
      PROVE  i = j
  <2>1. CASE i = 1
    BY <1>2, <1>3, <1>4, <1>5, <2>1
  <2>2. CASE j = 1
    BY <1>2, <1>3, <1>4, <1>5, <2>2
  <2>3. CASE i # 1 /\ j # 1
    <3>1. i - 1 = j - 1
      BY <1>1, <1>4, <1>5, <2>3 DEF Distinct
    <3> QED BY <1>3, <3>1
  <2> QED BY <2>1, <2>2, <2>3
<1>6. Distinct(q)
  BY <1>5 DEF Distinct
<1> QED BY <1>3, <1>6 DEF q, o, S

-----------------------------------------------------------------------------
(* The invariant of the types and of the calls, and what main does.        *)
Types == DbOK /\ asOf \subseteq Secrets /\ Base(World)

LEMMA WorldIs ==
  /\ IsState(World) /\ World.ui = ui /\ World.asked = asked /\ World.inbox = inbox
  /\ IsState(World') /\ World'.ui = ui' /\ World'.asked = asked' /\ World'.inbox = inbox'
BY DEF World, IsState, Carries

LEMMA BaseSame ==
  ASSUME NEW s, Base(s), NEW t, IsState(t), t.ui = s.ui, t.asked = s.asked, t.inbox = s.inbox
  PROVE  Base(t)
BY DEF Base, Calls, Orderly, AllFit, Quiet, NoneLive

LEMMA AnswerIs ==
  ASSUME NEW s, Base(s), NEW k, MayAnswer(s, k), NEW m, Carried(s.asked[k], m), AnswerOK(m)
  PROVE  LET t == Sent(Taken(s, k), m)
         IN  /\ Base(t) /\ t.ui = s.ui /\ t.asked = RemoveAt(s.asked, k)
             /\ t.inbox = Append(s.inbox, m)
<1> DEFINE c == s.asked[k]
           r == Taken(s, k)
           t == Sent(r, m)
<1>1. /\ Base(r) /\ r.ui = s.ui /\ r.inbox = s.inbox /\ r.asked = RemoveAt(s.asked, k)
      /\ CallOK(c) /\ Fits(c, s.ui)
      /\ \A j \in DOMAIN r.asked : \E i \in DOMAIN s.asked : r.asked[j] = s.asked[i]
      /\ \A j \in DOMAIN r.asked : ~Clash(c, r.asked[j])
      /\ \A j \in DOMAIN r.inbox : ~Clash(r.inbox[j], c)
      /\ ~s.ui.active => ~Live(c, {"list", "search", "preview", "removeTab"})
  BY TakenIs
<1> HIDE DEF c, r
<1>2. /\ \A K : Live(m, K) <=> Live(c, K)
      /\ \A d : Clash(m, d) <=> Clash(c, d)
      /\ \A d : Clash(d, m) <=> Clash(d, c)
      /\ \A u : Fits(c, u) => Fits(m, u)
  BY <1>1, CarriedIs DEF c
<1>3. MessageOK(m)
  BY DEF MessageOK
<1>4. /\ Fits(m, r.ui)
      /\ \A j \in DOMAIN r.asked : ~Clash(m, r.asked[j])
      /\ \A j \in DOMAIN r.inbox : ~Clash(r.inbox[j], m)
      /\ ~r.ui.active => ~Live(m, {"list", "search", "preview", "removeTab"})
  BY <1>1, <1>2
<1>5. /\ Base(t) /\ t.ui = r.ui /\ t.asked = r.asked /\ t.inbox = Append(r.inbox, m)
      /\ DOMAIN t.inbox = 1 .. Len(r.inbox) + 1 /\ DOMAIN r.inbox = 1 .. Len(r.inbox)
      /\ Len(r.inbox) \in Nat
      /\ \A j \in DOMAIN r.inbox : t.inbox[j] = r.inbox[j]
      /\ t.inbox[Len(r.inbox) + 1] = m
  BY <1>1, <1>3, <1>4, SentIs
<1> HIDE DEF t
<1> QED BY <1>1, <1>5 DEF t, r

(* An event goes before the answer.                                        *)
LEMMA EventAnswerIs ==
  ASSUME NEW s, Base(s), NEW k, MayAnswer(s, k), NEW m, Carried(s.asked[k], m), AnswerOK(m),
         NEW kind \in EventKinds
  PROVE  LET t == Sent(Taken(Sent(s, Event(kind)), k), m)
         IN  /\ Base(t) /\ t.ui = s.ui /\ t.asked = RemoveAt(s.asked, k)
             /\ t.inbox = Append(Append(s.inbox, Event(kind)), m)
<1> DEFINE e == Event(kind)
           r == Sent(s, e)
           t == Sent(Taken(r, k), m)
<1>1. Base(r) /\ r.ui = s.ui /\ r.asked = s.asked /\ r.inbox = Append(s.inbox, e)
  BY SentEvent
<1> HIDE DEF e, r
<1>2. MayAnswer(r, k) /\ Carried(r.asked[k], m)
  BY <1>1 DEF MayAnswer
<1>3. /\ Base(t) /\ t.ui = r.ui /\ t.asked = RemoveAt(r.asked, k)
      /\ t.inbox = Append(r.inbox, m)
  BY <1>1, <1>2, AnswerIs
<1> HIDE DEF t
<1> QED BY <1>1, <1>3 DEF t, r, e

LEMMA AnsweredIs ==
  ASSUME NEW c, NEW a, DOMAIN a \subseteq AnswerFields
  PROVE  LET m == Answered(c, a)
         IN  Carried(c, m) /\ DOMAIN a \subseteq DOMAIN m /\ \A x \in DOMAIN a : m[x] = a[x]
BY DEF Answered, Carried

(* Answering call k with the fields of an answer.                          *)
LEMMA ReplyIs ==
  ASSUME Types, NEW k \in Answerable, asked[k].kind # "close", NEW ok \in BOOLEAN,
         ok => asked[k].kind \notin {"list", "search"}
  PROVE  LET m == Answered(asked[k], [ok |-> ok])
         IN  MayAnswer(World, k) /\ Carried(asked[k], m) /\ AnswerOK(m) /\ m.ok = ok
<1> DEFINE a == [ok |-> ok]
           c == asked[k]
           m == Answered(c, a)
<1>1. MayAnswer(World, k)
  BY WorldIs DEF MayAnswer, Answerable
<1>2. DOMAIN a = {"ok"} /\ a.ok = ok
  OBVIOUS
<1> HIDE DEF a
<1>3. DOMAIN a \subseteq AnswerFields
  BY <1>2 DEF AnswerFields
<1>4. Carried(c, m) /\ DOMAIN a \subseteq DOMAIN m /\ \A x \in DOMAIN a : m[x] = a[x]
  BY <1>3, AnsweredIs
<1>5. CallOK(c)
  BY WorldIs DEF Types, Base, Calls, Answerable
<1> HIDE DEF c, m
<1>6. CallOK(m) /\ m.kind = c.kind
  BY <1>4, <1>5, CarriedIs
<1>7. AnswerOK(m) /\ m.ok = ok
  BY <1>2, <1>4, <1>6 DEF AnswerOK, Carries, c
<1> QED BY <1>1, <1>4, <1>7 DEF m, c, a

(* Whatever is answered to a call that is no list and no search.           *)
LEMMA BaseReply ==
  ASSUME Types, NEW k \in Answerable, asked[k].kind # "close", NEW ok \in BOOLEAN,
         ok => asked[k].kind \notin {"list", "search"}, asked' = RemoveAt(asked, k), ui' = ui,
         LET m == Answered(asked[k], [ok |-> ok])
         IN  \/ inbox' = Append(inbox, m)
             \/ \E kind \in EventKinds : inbox' = Append(Append(inbox, Event(kind)), m)
  PROVE  Base(World')
<1> DEFINE m == Answered(asked[k], [ok |-> ok])
<1>1. MayAnswer(World, k) /\ Carried(asked[k], m) /\ AnswerOK(m)
  BY ReplyIs
<1>2. \/ inbox' = Append(inbox, m)
      \/ \E kind \in EventKinds : inbox' = Append(Append(inbox, Event(kind)), m)
  OBVIOUS
<1> HIDE DEF m
<1>3. Base(World) /\ Carried(World.asked[k], m)
  BY <1>1, WorldIs DEF Types
<1>4. CASE inbox' = Append(inbox, m)
  <2> DEFINE t == Sent(Taken(World, k), m)
  <2>1. /\ Base(t) /\ t.ui = World.ui /\ t.asked = RemoveAt(World.asked, k)
        /\ t.inbox = Append(World.inbox, m)
    BY <1>1, <1>3, AnswerIs
  <2> HIDE DEF t
  <2> QED BY <1>4, <2>1, WorldIs, BaseSame
<1>5. ASSUME NEW kind \in EventKinds, inbox' = Append(Append(inbox, Event(kind)), m)
      PROVE  Base(World')
  <2> DEFINE t == Sent(Taken(Sent(World, Event(kind)), k), m)
  <2>1. /\ Base(t) /\ t.ui = World.ui /\ t.asked = RemoveAt(World.asked, k)
        /\ t.inbox = Append(Append(World.inbox, Event(kind)), m)
    BY <1>1, <1>3, EventAnswerIs
  <2> HIDE DEF t
  <2> QED BY <1>5, <2>1, WorldIs, BaseSame
<1> QED BY <1>2, <1>4, <1>5

(* The forms in which main puts messages into the inbox.                   *)
LEMMA InboxIs ==
  ASSUME NEW q, IsSeq(q), NEW e, NEW m
  PROVE  /\ q \o <<>> = q /\ q \o <<e>> = Append(q, e)
         /\ q \o <<>> \o <<m>> = Append(q, m)
         /\ q \o <<e>> \o <<m>> = Append(Append(q, e), m)
<1>1. q \in Seq(ToSet(q))
  BY DEF IsSeq
<1> DEFINE S == ToSet(q) \cup {e, m}
<1>2. q \in Seq(S) /\ e \in S /\ m \in S
  BY <1>1
<1> HIDE DEF S
<1>3. q \o <<>> = q /\ q \o <<e>> = Append(q, e) /\ q \o <<m>> = Append(q, m)
  BY <1>2
<1>4. Append(q, e) \in Seq(S)
  BY <1>2
<1>5. Append(q, e) \o <<m>> = Append(Append(q, e), m)
  BY <1>2, <1>4
<1> QED BY <1>3, <1>5

LEMMA BaseReplied ==
  ASSUME Types, NEW k \in Answerable, asked[k].kind # "close", NEW ok \in BOOLEAN,
         ok => asked[k].kind \notin {"list", "search"}, NEW rows, NEW tabs, NEW events,
         events = <<>> \/ \E kind \in EventKinds : events = <<Event(kind)>>,
         Reply(k, ok, rows, tabs, events)
  PROVE  Base(World')
<1> DEFINE m == Answered(asked[k], [ok |-> ok])
<1>1. asked' = RemoveAt(asked, k) /\ ui' = ui /\ inbox' = inbox \o events \o <<m>>
  BY DEF Reply
<1>2. IsSeq(inbox)
  BY WorldIs DEF Types, Base, Calls
<1>3. \/ inbox' = Append(inbox, m)
      \/ \E kind \in EventKinds : inbox' = Append(Append(inbox, Event(kind)), m)
  <2> HIDE DEF m
  <2>1. CASE events = <<>>
    BY <1>1, <1>2, <2>1, InboxIs
  <2>2. ASSUME NEW kind \in EventKinds, events = <<Event(kind)>>
        PROVE  inbox' = Append(Append(inbox, Event(kind)), m)
    BY <1>1, <1>2, <2>2, InboxIs
  <2> QED BY <2>1, <2>2
<1> QED BY <1>1, <1>3, BaseReply

(* What main answers a read with.                                          *)
ReadAnswer(c) ==
  CASE c.kind = "list" ->
         [rows |-> Page(Listed(c.filter, expired), c.offset, c.limit),
          total |-> Len(Listed(c.filter, expired)), tabs |-> ShownTabs(expired),
          asOf |-> expired, ok |-> TRUE]
    [] c.kind = "search" ->
         [rows |-> Found(c.filter, expired), tabs |-> ShownTabs(expired),
          asOf |-> expired, ok |-> TRUE]
    [] OTHER -> [ok |-> Resolves(c.id)]

LEMMA ReadAnswerIs ==
  ASSUME DbOK, NEW c, CallOK(c), IsRead(c)
  PROVE  LET m == Answered(c, ReadAnswer(c))
         IN  /\ Carried(c, m) /\ AnswerOK(m) /\ m.kind = c.kind
             /\ c.kind = "list" =>
                  /\ m.rows = Page(Listed(c.filter, expired), c.offset, c.limit)
                  /\ m.total = Len(Listed(c.filter, expired))
             /\ c.kind = "search" => m.rows = Found(c.filter, expired)
             /\ c.kind \in {"list", "search"} => m.tabs = ShownTabs(expired) /\ m.asOf = expired
<1> DEFINE rows == Page(Listed(c.filter, expired), c.offset, c.limit)
           n == Len(Listed(c.filter, expired))
           list == [rows |-> rows, total |-> n, tabs |-> ShownTabs(expired),
                    asOf |-> expired, ok |-> TRUE]
           found == [rows |-> Found(c.filter, expired), tabs |-> ShownTabs(expired),
                     asOf |-> expired, ok |-> TRUE]
           has == [ok |-> Resolves(c.id)]
           a == ReadAnswer(c)
           m == Answered(c, a)
<1>1. c.kind \in {"list", "search", "preview"}
  BY DEF IsRead
<1>2. c.kind = "list" => rows \in Seq(ListRows) /\ n \in Nat
  <2> SUFFICES ASSUME c.kind = "list" PROVE rows \in Seq(ListRows) /\ n \in Nat
    OBVIOUS
  <2>1. Listed(c.filter, expired) \in Seq(ListRows)
    BY ListedIs
  <2>2. c.offset \in Nat /\ c.limit \in Nat
    BY DEF CallOK
  <2>3. LET p == Page(Listed(c.filter, expired), c.offset, c.limit)
            l == MinOf(Len(Listed(c.filter, expired)), c.offset + c.limit)
        IN  /\ p \in Seq(ListRows) /\ DOMAIN p = 1 .. Len(p)
            /\ Len(p) = (IF l >= c.offset THEN l - c.offset ELSE 0)
            /\ \A j \in DOMAIN p : /\ c.offset + j \in DOMAIN Listed(c.filter, expired)
                                   /\ p[j] = Listed(c.filter, expired)[c.offset + j]
            /\ Distinct(Listed(c.filter, expired)) => Distinct(p)
    BY <2>1, <2>2, PageIs
  <2> QED BY <2>1, <2>3
<1>3. /\ Found(c.filter, expired) \in Seq(ListRows) /\ ShownTabs(expired) \subseteq Tabs
      /\ expired \subseteq Secrets
  BY FoundIs, TabsShown DEF DbOK
<1>4. Resolves(c.id) \in BOOLEAN
  BY DEF Resolves, Has
<1>5. /\ c.kind = "list" => a = list
      /\ c.kind = "search" => a = found
      /\ c.kind = "preview" => a = has
  BY DEF ReadAnswer
<1>6. /\ DOMAIN list = {"rows", "total", "tabs", "asOf", "ok"} /\ list.rows = rows /\ list.total = n
      /\ list.tabs = ShownTabs(expired) /\ list.asOf = expired /\ list.ok = TRUE
      /\ DOMAIN found = {"rows", "tabs", "asOf", "ok"} /\ found.rows = Found(c.filter, expired)
      /\ found.tabs = ShownTabs(expired) /\ found.asOf = expired /\ found.ok = TRUE
      /\ DOMAIN has = {"ok"} /\ has.ok = Resolves(c.id)
  OBVIOUS
<1> HIDE DEF a, list, found, has
<1>7. DOMAIN a \subseteq AnswerFields
  BY <1>1, <1>5, <1>6 DEF AnswerFields
<1>8. Carried(c, m) /\ DOMAIN a \subseteq DOMAIN m /\ \A x \in DOMAIN a : m[x] = a[x]
  BY <1>7, AnsweredIs
<1> HIDE DEF m, rows, n
<1>9. CallOK(m) /\ m.kind = c.kind
  BY <1>8, CarriedIs
<1>10. CASE c.kind = "list"
  <2>1. a = list
    BY <1>5, <1>10
  <2>2. Carries(m, {"rows", "total", "tabs", "asOf", "ok"})
    BY <1>6, <1>8, <2>1 DEF Carries
  <2>3. /\ m.rows = rows /\ m.total = n /\ m.tabs = ShownTabs(expired) /\ m.asOf = expired
        /\ m.ok = TRUE
    BY <1>6, <1>8, <2>1
  <2>4. AnswerOK(m)
    BY <1>2, <1>3, <1>9, <1>10, <2>2, <2>3 DEF AnswerOK, Carries
  <2> QED BY <1>8, <1>9, <1>10, <2>3, <2>4 DEF m, a, rows, n
<1>11. CASE c.kind = "search"
  <2>1. a = found
    BY <1>5, <1>11
  <2>2. Carries(m, {"rows", "tabs", "asOf", "ok"})
    BY <1>6, <1>8, <2>1 DEF Carries
  <2>3. /\ m.rows = Found(c.filter, expired) /\ m.tabs = ShownTabs(expired)
        /\ m.asOf = expired /\ m.ok = TRUE
    BY <1>6, <1>8, <2>1
  <2>4. AnswerOK(m)
    BY <1>3, <1>9, <1>11, <2>2, <2>3 DEF AnswerOK, Carries
  <2> QED BY <1>8, <1>9, <1>11, <2>3, <2>4 DEF m, a
<1>12. CASE c.kind = "preview"
  <2>1. a = has
    BY <1>5, <1>12
  <2>2. Carries(m, {"ok"}) /\ m.ok = Resolves(c.id)
    BY <1>6, <1>8, <2>1 DEF Carries
  <2>3. AnswerOK(m)
    BY <1>4, <1>9, <1>12, <2>2 DEF AnswerOK, Carries
  <2> QED BY <1>8, <1>9, <1>12, <2>3 DEF m, a
<1> QED BY <1>1, <1>10, <1>11, <1>12

LEMMA BaseAnswerRead ==
  ASSUME Types, NEW k \in Answerable, AnswerRead(k)
  PROVE  Base(World')
<1> DEFINE c == asked[k]
           m == Answered(c, ReadAnswer(c))
           t == Sent(Taken(World, k), m)
<1>1. /\ IsRead(c) /\ asked' = RemoveAt(asked, k) /\ inbox' = Append(inbox, m) /\ ui' = ui
  BY DEF AnswerRead, ReadAnswer
<1>2. MayAnswer(World, k) /\ Base(World) /\ CallOK(c) /\ DbOK
  BY WorldIs DEF MayAnswer, Answerable, Types, Base, Calls
<1>3. Carried(c, m) /\ AnswerOK(m)
  BY <1>1, <1>2, ReadAnswerIs
<1> HIDE DEF m
<1>4. Carried(World.asked[k], m)
  BY <1>3, WorldIs
<1>5. /\ Base(t) /\ t.ui = World.ui /\ t.asked = RemoveAt(World.asked, k)
      /\ t.inbox = Append(World.inbox, m)
  BY <1>2, <1>3, <1>4, AnswerIs
<1> HIDE DEF t
<1>6. t.inbox = inbox' /\ t.asked = asked' /\ t.ui = ui'
  BY <1>1, <1>5, WorldIs
<1> QED BY <1>5, <1>6, WorldIs, BaseSame

(* A history with other rows and tabs, and what main answered.             *)
LEMMA TypesReply ==
  ASSUME Types, NEW k \in Answerable, asked[k].kind # "close", NEW ok \in BOOLEAN,
         ok => asked[k].kind \notin {"list", "search"}, NEW rows, NEW tabs, NEW events,
         events = <<>> \/ \E kind \in EventKinds : events = <<Event(kind)>>,
         Reply(k, ok, rows, tabs, events), expired' \subseteq expired,
         rows \in Seq(ListRows), Distinct(rows), tabs \subseteq Tabs
  PROVE  Types'
<1>1. Base(World')
  BY BaseReplied
<1>2. db' = rows /\ named' = tabs /\ asOf' = asOf
  BY DEF Reply
<1> QED BY <1>1, <1>2 DEF Types, DbOK

LEMMA TypesKeep ==
  ASSUME Types, NEW k \in Answerable, asked[k].kind # "close", NEW ok \in BOOLEAN,
         ok => asked[k].kind \notin {"list", "search"}, Keep(k, ok)
  PROVE  Types'
<1>1. Reply(k, ok, db, named, <<>>) /\ DbOK /\ expired' = expired
  BY DEF Keep, Types
<1> QED BY <1>1, TypesReply DEF DbOK

LEMMA TypesAnswerPin ==
  ASSUME Types, NEW k \in Answerable, AnswerPin(k)
  PROVE  Types'
<1> DEFINE c == asked[k]
           row == [RowOf(c.id) EXCEPT !.pinned = c.pinned]
           E == <<Event("changed")>>
<1>1. c.kind = "pin" /\ DbOK /\ CallOK(c)
  BY WorldIs DEF AnswerPin, Types, Base, Calls, Answerable
<1>2. c.id \in Items /\ c.pinned \in BOOLEAN
  BY <1>1 DEF CallOK
<1>3. CASE Has(c.id)
  <2>1. row \in ListRows
    BY <1>1, <1>2, <1>3, RowOfIs DEF ListRows
  <2>2. Put(row) \in Seq(ListRows) /\ Distinct(Put(row))
    BY <1>1, <2>1, PutIs
  <2>3. Reply(k, TRUE, Put(row), named, E) /\ expired' = expired
    BY <1>3 DEF AnswerPin
  <2>4. \E kind \in EventKinds : E = <<Event(kind)>>
    BY DEF EventKinds
  <2> HIDE DEF row, E
  <2> QED BY <1>1, <2>2, <2>3, <2>4, TypesReply DEF DbOK
<1>4. CASE ~Has(c.id)
  <2>1. Keep(k, FALSE)
    BY <1>4 DEF AnswerPin
  <2> QED BY <1>1, <2>1, TypesKeep
<1> QED BY <1>3, <1>4

LEMMA TypesAnswerTag ==
  ASSUME Types, NEW k \in Answerable, AnswerTag(k)
  PROVE  Types'
<1> DEFINE c == asked[k]
           row == [RowOf(c.id) EXCEPT !.tags = IF c.tagged THEN @ \cup {c.tab} ELSE @ \ {c.tab}]
           E == <<Event("changed")>>
<1>1. c.kind = "tag" /\ DbOK /\ CallOK(c)
  BY WorldIs DEF AnswerTag, Types, Base, Calls, Answerable
<1>2. c.id \in Items /\ c.tab \in Tabs
  BY <1>1 DEF CallOK
<1>3. CASE Keep(k, FALSE) \/ Keep(k, TRUE)
  BY <1>1, <1>3, TypesKeep
<1>4. CASE Has(c.id) /\ Reply(k, TRUE, Put(row), named, E) /\ expired' = expired
  <2>1. row \in ListRows
    BY <1>1, <1>2, <1>4, RowOfIs DEF ListRows
  <2>2. Put(row) \in Seq(ListRows) /\ Distinct(Put(row))
    BY <1>1, <2>1, PutIs
  <2>3. \E kind \in EventKinds : E = <<Event(kind)>>
    BY DEF EventKinds
  <2> HIDE DEF row, E
  <2> QED BY <1>1, <1>4, <2>2, <2>3, TypesReply DEF DbOK
<1> QED BY <1>3, <1>4 DEF AnswerTag

LEMMA TypesAnswerTitle ==
  ASSUME Types, NEW k \in Answerable, AnswerTitle(k)
  PROVE  Types'
<1> DEFINE c == asked[k]
           row == [RowOf(c.id) EXCEPT !.titled = c.titled]
           E == <<Event("changed")>>
<1>1. c.kind = "title" /\ DbOK /\ CallOK(c)
  BY WorldIs DEF AnswerTitle, Types, Base, Calls, Answerable
<1>2. c.id \in Items /\ c.titled \in BOOLEAN
  BY <1>1 DEF CallOK
<1>3. CASE Keep(k, FALSE) \/ Keep(k, TRUE)
  BY <1>1, <1>3, TypesKeep
<1>4. CASE Has(c.id) /\ Reply(k, TRUE, Put(row), named, E) /\ expired' = expired
  <2>1. row \in ListRows
    BY <1>1, <1>2, <1>4, RowOfIs DEF ListRows
  <2>2. Put(row) \in Seq(ListRows) /\ Distinct(Put(row))
    BY <1>1, <2>1, PutIs
  <2>3. \E kind \in EventKinds : E = <<Event(kind)>>
    BY DEF EventKinds
  <2> HIDE DEF row, E
  <2> QED BY <1>1, <1>4, <2>2, <2>3, TypesReply DEF DbOK
<1> QED BY <1>3, <1>4 DEF AnswerTitle

LEMMA TypesAnswerTabs ==
  ASSUME Types, NEW k \in Answerable, AnswerCreateTab(k) \/ AnswerRemoveTab(k)
  PROVE  Types'
<1> DEFINE c == asked[k]
           E == <<Event("changed")>>
           q == [j \in DOMAIN db |-> [db[j] EXCEPT !.tags = @ \ {c.tab}]]
<1>1. c.kind \in {"createTab", "removeTab"} /\ DbOK /\ CallOK(c)
  BY WorldIs DEF AnswerCreateTab, AnswerRemoveTab, Types, Base, Calls, Answerable
<1>2. c.tab \in Tabs
  BY <1>1 DEF CallOK
<1>3. \E kind \in EventKinds : E = <<Event(kind)>>
  BY DEF EventKinds
<1>4. CASE Keep(k, TRUE)
  BY <1>1, <1>4, TypesKeep
<1>5. q \in Seq(ListRows) /\ Distinct(q)
  BY <1>1, UntaggedIs
<1>6. \/ Keep(k, TRUE)
      \/ Reply(k, TRUE, db, named \cup {c.tab}, E) /\ expired' = expired
      \/ Reply(k, TRUE, q, named \ {c.tab}, E) /\ expired' = expired
  BY DEF AnswerCreateTab, AnswerRemoveTab
<1> HIDE DEF q, E
<1>7. named \cup {c.tab} \subseteq Tabs /\ named \ {c.tab} \subseteq Tabs
  BY <1>1, <1>2 DEF DbOK
<1>8. CASE Reply(k, TRUE, db, named \cup {c.tab}, E) /\ expired' = expired
  BY <1>1, <1>3, <1>7, <1>8, TypesReply DEF DbOK
<1>9. CASE Reply(k, TRUE, q, named \ {c.tab}, E) /\ expired' = expired
  BY <1>1, <1>3, <1>5, <1>7, <1>9, TypesReply
<1> QED BY <1>4, <1>6, <1>8, <1>9

LEMMA TypesAnswerRemove ==
  ASSUME Types, NEW k \in Answerable, AnswerRemove(k)
  PROVE  Types'
<1> DEFINE c == asked[k]
           E == <<Event("changed")>>
           q == Only(db, {row \in ToSet(db) : row.id # c.id})
<1>1. c.kind = "remove" /\ DbOK
  BY DEF AnswerRemove, Types
<1>2. \E kind \in EventKinds : E = <<Event(kind)>>
  BY DEF EventKinds
<1>3. CASE Keep(k, TRUE)
  BY <1>1, <1>3, TypesKeep
<1>4. q \in Seq(ListRows) /\ Distinct(q)
  BY <1>1, OnlyIs DEF DbOK
<1>5. Keep(k, TRUE) \/ \E ok \in BOOLEAN : Reply(k, ok, q, named, E) /\ expired' \subseteq expired
  BY DEF AnswerRemove
<1> HIDE DEF q, E
<1>6. ASSUME NEW ok \in BOOLEAN, Reply(k, ok, q, named, E), expired' \subseteq expired
      PROVE  Types'
  BY <1>1, <1>2, <1>4, <1>6, TypesReply DEF DbOK
<1> QED BY <1>3, <1>5, <1>6

LEMMA TypesAnswerCopy ==
  ASSUME Types, NEW k \in Answerable, AnswerCopy(k)
  PROVE  Types'
<1> DEFINE E == IF visible THEN <<Event("hidden")>> ELSE <<>>
<1>1. asked[k].kind = "copy" /\ DbOK
  BY DEF AnswerCopy, Types
<1>2. E = <<>> \/ \E kind \in EventKinds : E = <<Event(kind)>>
  BY DEF EventKinds
<1>3. Keep(k, FALSE) \/ (Reply(k, TRUE, db, named, E) /\ expired' = expired)
  BY DEF AnswerCopy
<1> HIDE DEF E
<1>4. CASE Keep(k, FALSE)
  BY <1>1, <1>4, TypesKeep
<1>5. CASE Reply(k, TRUE, db, named, E) /\ expired' = expired
  BY <1>1, <1>2, <1>5, TypesReply DEF DbOK
<1> QED BY <1>3, <1>4, <1>5

LEMMA TypesAnswerFails ==
  ASSUME Types, NEW k \in Answerable, AnswerFails(k)
  PROVE  Types'
<1>1. /\ asked[k].kind # "close" /\ DbOK
      /\ inbox' = Append(inbox, Answered(asked[k], [ok |-> FALSE]))
      /\ asked' = RemoveAt(asked, k) /\ ui' = ui /\ db' = db /\ named' = named
      /\ expired' = expired /\ asOf' = asOf
  BY DEF AnswerFails, Types
<1>2. Base(World')
  BY <1>1, BaseReply
<1> QED BY <1>1, <1>2 DEF Types, DbOK

(* The palette is closed: nobody waits for the answer.                     *)
LEMMA TypesAnswerClose ==
  ASSUME Types, NEW k \in Answerable, AnswerClose(k)
  PROVE  Types'
<1> DEFINE r == Taken(World, k)
           t == Sent(r, Event("hidden"))
<1>1. MayAnswer(World, k) /\ Base(World)
  BY WorldIs DEF MayAnswer, Answerable, Types
<1>2. Base(r) /\ r.ui = World.ui /\ r.inbox = World.inbox /\ r.asked = RemoveAt(World.asked, k)
  BY <1>1, TakenIs
<1> HIDE DEF r
<1>3. Base(t) /\ t.ui = r.ui /\ t.asked = r.asked /\ t.inbox = Append(r.inbox, Event("hidden"))
  BY <1>2, SentEvent DEF EventKinds
<1> HIDE DEF t
<1>4. /\ asked' = RemoveAt(asked, k) /\ ui' = ui /\ db' = db /\ named' = named
      /\ expired' = expired /\ asOf' = asOf
      /\ inbox' = inbox \o (IF visible THEN <<Event("hidden")>> ELSE <<>>)
  BY DEF AnswerClose
<1>5. IsSeq(inbox)
  BY WorldIs DEF Types, Base, Calls
<1>6. inbox' = inbox \/ inbox' = Append(inbox, Event("hidden"))
  BY <1>4, <1>5, InboxIs
<1>7. Base(World')
  BY <1>2, <1>3, <1>4, <1>6, WorldIs, BaseSame
<1> QED BY <1>4, <1>7 DEF Types, DbOK

LEMMA TypesAnswer ==
  ASSUME Types, Answer
  PROVE  Types'
<1> SUFFICES ASSUME NEW k \in Answerable,
                    \/ AnswerRead(k) \/ AnswerPin(k) \/ AnswerTag(k) \/ AnswerTitle(k)
                    \/ AnswerCreateTab(k) \/ AnswerRemoveTab(k) \/ AnswerRemove(k)
                    \/ AnswerCopy(k) \/ AnswerClose(k) \/ AnswerFails(k)
             PROVE  Types'
  BY DEF Answer
<1>1. CASE AnswerRead(k)
  <2>1. Base(World') /\ db' = db /\ named' = named /\ expired' = expired /\ asOf' = asOf
    BY <1>1, BaseAnswerRead DEF AnswerRead
  <2> QED BY <2>1 DEF Types, DbOK
<1> QED BY <1>1, TypesAnswerPin, TypesAnswerTag, TypesAnswerTitle, TypesAnswerTabs,
           TypesAnswerRemove, TypesAnswerCopy, TypesAnswerFails, TypesAnswerClose

LEMMA TypesMain ==
  ASSUME Types
  PROVE  /\ \A i \in Items : Copied(i) \/ Expire(i) => Types'
         /\ Show => Types'
         /\ Hide => Types'
<1>1. Base(World) /\ IsSeq(inbox) /\ DbOK
  BY WorldIs DEF Types, Base, Calls
<1> DEFINE changed == Sent(World, Event("changed"))
           hidden == Sent(World, Event("hidden"))
           shown == Sent(World, Event("shown"))
           reshown == Sent(hidden, Event("shown"))
<1>2. /\ Base(changed) /\ changed.ui = ui /\ changed.asked = asked
      /\ changed.inbox = Append(inbox, Event("changed"))
  BY <1>1, SentEvent, WorldIs DEF EventKinds
<1>3. /\ Base(hidden) /\ hidden.ui = ui /\ hidden.asked = asked
      /\ hidden.inbox = Append(inbox, Event("hidden"))
  BY <1>1, SentEvent, WorldIs DEF EventKinds
<1>4. /\ Base(shown) /\ shown.ui = ui /\ shown.asked = asked
      /\ shown.inbox = Append(inbox, Event("shown"))
  BY <1>1, SentEvent, WorldIs DEF EventKinds
<1> HIDE DEF hidden
<1>5. /\ Base(reshown) /\ reshown.ui = ui /\ reshown.asked = asked
      /\ reshown.inbox = Append(Append(inbox, Event("hidden")), Event("shown"))
  BY <1>3, SentEvent DEF EventKinds
<1> HIDE DEF changed, shown, reshown
<1>6. ASSUME NEW i \in Items, Copied(i)
      PROVE  Types'
  <2> DEFINE row == IF Has(i) THEN RowOf(i) ELSE Row(i)
             q == <<row>> \o Only(db, {r \in ToSet(db) : r.id # row.id})
             rest(swept) == Only(q, {r \in ToSet(q) : r.id \notin swept})
  <2>1. row \in ListRows /\ row.id = i
    BY <1>1, RowOfIs DEF Row, ListRows
  <2>a. q \in Seq(ListRows) /\ Distinct(q)
    BY <1>1, <2>1, OnTopIs
  <2>b. \E swept \in SUBSET expired : db' = rest(swept) /\ expired' = expired \ swept
    BY <1>6, <2>1 DEF Copied
  <2> HIDE DEF q
  <2>2. \A swept : rest(swept) \in Seq(ListRows) /\ Distinct(rest(swept))
    BY <2>a, OnlyIs
  <2> HIDE DEF rest
  <2>3. /\ db' \in Seq(ListRows) /\ Distinct(db') /\ expired' \subseteq expired
        /\ named' = named /\ asOf' = asOf
    BY <1>6, <2>b, <2>2 DEF Copied
  <2>4. ui' = ui /\ asked' = asked /\ inbox' = Append(inbox, Event("changed"))
    BY <1>6 DEF Copied
  <2>5. Base(World')
    BY <1>2, <2>4, WorldIs, BaseSame
  <2> QED BY <1>1, <2>3, <2>5 DEF Types, DbOK
<1>7. ASSUME Show
      PROVE  Types'
  <2>1. /\ ui' = ui /\ asked' = asked /\ db' = db /\ named' = named
        /\ expired' = expired /\ asOf' = asOf
        /\ inbox' = inbox \o (IF visible THEN <<Event("hidden")>> ELSE <<>>) \o <<Event("shown")>>
    BY <1>7 DEF Show
  <2>2. \/ inbox' = Append(inbox, Event("shown"))
        \/ inbox' = Append(Append(inbox, Event("hidden")), Event("shown"))
    <3>1. \/ inbox' = inbox \o <<>> \o <<Event("shown")>>
          \/ inbox' = inbox \o <<Event("hidden")>> \o <<Event("shown")>>
      BY <2>1
    <3> QED BY <1>1, <3>1, InboxIs
  <2>3. Base(World')
    BY <1>4, <1>5, <2>1, <2>2, WorldIs, BaseSame
  <2> QED BY <1>1, <2>1, <2>3 DEF Types, DbOK
<1>8. ASSUME Hide
      PROVE  Types'
  <2>1. /\ asked' = asked /\ db' = db /\ named' = named /\ expired' = expired /\ asOf' = asOf
        /\ inbox' = Append(inbox, Event("hidden"))
        /\ ui' = [ui EXCEPT !.drag = None, !.dialog = None]
    BY <1>8 DEF Hide
  <2>2. UiOK(ui) /\ DOMAIN ui = UiFields
    BY <1>1, WorldIs DEF Base, UiOK
  <2>3. /\ But(ui, ui', {"drag", "dialog"}) /\ ui'.drag = None /\ ui'.dialog = None
        /\ ui'.keep = ui.keep /\ ui'.editor = ui.editor /\ ui'.removing = ui.removing
    BY <2>1, <2>2 DEF But, UiFields
  <2>4. But(hidden.ui, World'.ui, AsideFields)
    BY <1>3, <2>3, WorldIs DEF But, AsideFields
  <2>5. /\ ui'.keep \in Some /\ ui'.drag \in Some /\ EditorOK(ui'.editor)
        /\ ui'.dialog \in Tabs \cup {None} /\ ui'.removing \in Tabs \cup {None}
    BY <2>2, <2>3 DEF UiOK, Some
  <2>6. ~ui.active => ui'.keep = None /\ ui'.editor.id = None
    BY <1>1, <2>3, WorldIs DEF Base, Quiet, Blank
  <2>7. Base(World')
    BY <1>3, <2>1, <2>4, <2>5, <2>6, WorldIs, AsideSame
  <2> QED BY <1>1, <2>1, <2>7 DEF Types, DbOK
<1>9. ASSUME NEW i \in Items, Expire(i)
      PROVE  Types'
  <2>1. /\ ui' = ui /\ asked' = asked /\ inbox' = inbox /\ db' = db /\ named' = named
        /\ expired' \subseteq Secrets /\ asOf' = asOf
    BY <1>1, <1>9 DEF Expire, DbOK
  <2>2. Base(World')
    BY <1>1, <2>1, WorldIs, BaseSame
  <2> QED BY <1>1, <2>1, <2>2 DEF Types, DbOK
<1> QED BY <1>6, <1>7, <1>8, <1>9
=============================================================================
