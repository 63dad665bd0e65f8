---------------------------- MODULE MCRetention -----------------------------
(***************************************************************************)
(* planEviction on every small history: sweeps, with time passing, limits  *)
(* changing and items being kept or let go in between.                     *)
(***************************************************************************)
EXTENDS Retention

CONSTANTS Ids, MaxTime, MaxItemsChoices, MaxBytesChoices, MaxAgeChoices, Sizes

(* No age limit, or one.                                                   *)
AgeChoices == {Null, 1}

VARIABLES items, now, limits

vars == <<items, now, limits>>

Record ==
  [pinned : BOOLEAN, tags : SUBSET {"work"}, createdAt : 0..MaxTime,
   updatedAt : 0..MaxTime, expiresAt : {Null} \cup 0..MaxTime, byteLength : Sizes]

(* A secret cannot be pinned, and expires some time after it was copied.   *)
Possible(it, t) ==
  /\ it.createdAt <= it.updatedAt /\ it.updatedAt <= t
  /\ it.expiresAt # Null => ~it.pinned /\ it.expiresAt > it.createdAt

Init ==
  /\ now = 0
  /\ limits \in [maxItems : MaxItemsChoices, maxBytes : MaxBytesChoices,
                 maxAge : MaxAgeChoices]
  /\ \E D \in SUBSET Ids : items \in [D -> {it \in Record : Possible(it, 0)}]

Sweep ==
  /\ items' = [i \in DOMAIN items \ DOMAIN PlanEviction(items, now, limits) |-> items[i]]
  /\ UNCHANGED <<now, limits>>

Tick ==
  /\ now < MaxTime
  /\ now' = now + 1
  /\ UNCHANGED <<items, limits>>

Recopy(i) ==
  /\ items' = [items EXCEPT ![i].updatedAt = now]
  /\ UNCHANGED <<now, limits>>

Unkeep(i) ==
  /\ items' = [items EXCEPT ![i].pinned = FALSE, ![i].tags = {}]
  /\ UNCHANGED <<now, limits>>

Next ==
  \/ Sweep
  \/ Tick
  \/ \E i \in DOMAIN items : Recopy(i) \/ Unkeep(i)

Spec == Init /\ [][Next]_vars

-----------------------------------------------------------------------------
(* Every sweep is exact: no limit is left exceeded, a second sweep would   *)
(* find nothing, and nothing goes that need not (planEviction,             *)
(* retention.ts).                                                          *)
SweepIsExact == [][Sweep => ExactlySwept(items, items', now, limits)]_vars
=============================================================================
