------------------------------- MODULE Events -------------------------------
(***************************************************************************)
(* The vocabulary of the clipboard history: the records the store appends  *)
(* to history.ndjson and what replaying one of them does to the replayed   *)
(* state, the "book".                                                      *)
(*                                                                         *)
(* A book is [items |-> a function from the ids of the live items to their *)
(* current records, tabs |-> the tabs that exist in their own right].  An  *)
(* item is a record of whichever fields the module that uses this one      *)
(* needs; the field `tags' is the only one the definitions below look at.  *)
(***************************************************************************)
EXTENDS Naturals, Sequences

ItemAdded(i, it)      == [kind |-> "ITEM_ADDED", id |-> i, item |-> it]
ItemUpdated(i, patch) == [kind |-> "ITEM_UPDATED", id |-> i, patch |-> patch]
ItemDeleted(i)        == [kind |-> "ITEM_DELETED", id |-> i]
TabCreated(t)         == [kind |-> "TAB_CREATED", tag |-> t]
TabDeleted(t)         == [kind |-> "TAB_DELETED", tag |-> t]
Checkpoint            == [kind |-> "CHECKPOINT"]

EmptyBook == [items |-> <<>>, tabs |-> {}]

(* Map.set and Map.delete.                                                 *)
With(f, k, v) == [j \in DOMAIN f \cup {k} |-> IF j = k THEN v ELSE f[j]]
Without(items, i) == [j \in DOMAIN items \ {i} |-> items[j]]

(* `{ ...current, ...patch }': the fields of the patch win.                *)
Merged(current, patch) ==
  [f \in DOMAIN current \cup DOMAIN patch |->
     IF f \in DOMAIN patch THEN patch[f] ELSE current[f]]

Patched(items, i, patch) ==
  IF i \in DOMAIN items THEN With(items, i, Merged(items[i], patch)) ELSE items

Untagged(items, t) ==
  [i \in DOMAIN items |-> [items[i] EXCEPT !.tags = @ \ {t}]]

(* The effect of one replayed record.                                      *)
ApplyEvent(b, e) ==
  CASE e.kind = "ITEM_ADDED"   -> [b EXCEPT !.items = With(@, e.id, e.item)]
    [] e.kind = "ITEM_UPDATED" -> [b EXCEPT !.items = Patched(@, e.id, e.patch)]
    [] e.kind = "ITEM_DELETED" -> [b EXCEPT !.items = Without(@, e.id)]
    [] e.kind = "TAB_CREATED"  -> [b EXCEPT !.tabs = @ \cup {e.tag}]
    [] e.kind = "TAB_DELETED"  -> [b EXCEPT !.items = Untagged(@, e.tag),
                                            !.tabs = @ \ {e.tag}]
    [] e.kind = "CHECKPOINT"   -> b
=============================================================================
