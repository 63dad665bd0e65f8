----------------------------- MODULE Retention ------------------------------
(***************************************************************************)
(* packages/history/src/retention.ts: which items a sweep removes.         *)
(*                                                                         *)
(* `items' is a function from the ids of the live items to their records,  *)
(* of which only updatedAt, createdAt, expiresAt, pinned, tags and         *)
(* byteLength are read here.  The loops that count items or add up bytes   *)
(* from the newest on are written with the set of the items that are newer.*)
(***************************************************************************)
EXTENDS Integers, FiniteSets, FiniteSetsExt

(* A time or a limit that is null.                                         *)
Null == -1

IsExpired(it, now) == it.expiresAt # Null /\ now >= it.expiresAt

TooOld(it, now, maxAge) == maxAge # Null /\ now - it.createdAt >= maxAge

IsKept(it) == it.pinned \/ it.tags # {}

Newer(items, i, j) ==
  \/ items[i].updatedAt > items[j].updatedAt
  \/ items[i].updatedAt = items[j].updatedAt /\ i > j

(* 1. Whatever has expired, kept or not.                                   *)
Expiring(items, now) == {i \in DOMAIN items : IsExpired(items[i], now)}

Unkept(items) == {i \in DOMAIN items : ~IsKept(items[i])}

(* 2. Whatever nobody keeps and is too old.                                *)
Aging(items, now, maxAge) ==
  {i \in Unkept(items) \ Expiring(items, now) : TooOld(items[i], now, maxAge)}

(* Mutant: the item at the limit goes too.                                 *)
Surplus_OffByOne(items, rest, maxItems) ==
  {i \in rest : Cardinality({j \in rest : Newer(items, j, i)}) + 1 >= maxItems}

(* 3. Of the rest, the items past the newest maxItems.                     *)
Surplus(items, rest, maxItems) ==
  {i \in rest : Cardinality({j \in rest : Newer(items, j, i)}) + 1 > maxItems}

Bytes(items, S) ==
  LET byteLength(i) == items[i].byteLength
  IN  MapThenSumSet(byteLength, S)

(* 4. Of what is left, the items past the first maxBytes bytes.            *)
Overweight(items, rest, maxBytes) ==
  {i \in rest :
     Bytes(items, {j \in rest : j = i \/ Newer(items, j, i)}) > maxBytes}

(* planEviction: the reason each doomed item is condemned for.             *)
PlanEviction(items, now, limits) ==
  LET expiring == Expiring(items, now)
      aging    == Aging(items, now, limits.maxAge)
      rest     == Unkept(items) \ (expiring \cup aging)
      surplus  == Surplus(items, rest, limits.maxItems)
      heavy    == Overweight(items, rest \ surplus, limits.maxBytes)
  IN  [i \in expiring \cup aging \cup surplus \cup heavy |->
         CASE i \in expiring -> "secret-ttl"
           [] i \in aging    -> "retention-age"
           [] i \in surplus  -> "retention-count"
           [] i \in heavy    -> "retention-bytes"]

(* The plan is carried out in the order of the reasons, newest item first. *)
Reasons == <<"secret-ttl", "retention-age", "retention-count", "retention-bytes">>

EvictedBefore(items, plan, i, j) ==
  \E m, n \in DOMAIN Reasons :
    /\ plan[i] = Reasons[m]
    /\ plan[j] = Reasons[n]
    /\ \/ m < n
       \/ m = n /\ Newer(items, i, j)

(* What has been removed when the sweep is cut short.                      *)
PartialPlans(items, plan) ==
  {S \in SUBSET DOMAIN plan :
     \A j \in S : \A i \in DOMAIN plan \ S : ~EvictedBefore(items, plan, i, j)}

-----------------------------------------------------------------------------
(* What a sweep should do.                                                 *)

(* What fits behind the newer items that no clock condemns.                *)
Room(items, i, now, limits) ==
  LET newer == {j \in Unkept(items) : /\ Newer(items, j, i)
                                      /\ ~IsExpired(items[j], now)
                                      /\ ~TooOld(items[j], now, limits.maxAge)}
  IN  /\ Cardinality(newer) < limits.maxItems
      /\ Bytes(items, newer) + items[i].byteLength <= limits.maxBytes

(* A sweep that left `left' has left no limit exceeded, and nothing for a  *)
(* second sweep; and it took nothing it did not have to: what somebody     *)
(* keeps stays until it expires; whatever else goes has expired, is too    *)
(* old, or does not fit behind the newer items.                            *)
ExactlySwept(items, left, now, limits) ==
  /\ Cardinality(Unkept(left)) <= limits.maxItems
  /\ Bytes(left, Unkept(left)) <= limits.maxBytes
  /\ \A i \in DOMAIN left : ~IsExpired(left[i], now)
  /\ PlanEviction(left, now, limits) = <<>>
  /\ \A i \in DOMAIN items \ DOMAIN left :
       \/ IsExpired(items[i], now)
       \/ /\ ~items[i].pinned /\ items[i].tags = {}
          /\ TooOld(items[i], now, limits.maxAge) \/ ~Room(items, i, now, limits)
=============================================================================
