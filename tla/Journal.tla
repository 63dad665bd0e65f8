------------------------------- MODULE Journal ------------------------------
(***************************************************************************)
(* What packages/store promises its one client, packages/history, with no  *)
(* file, line, hash or sequence number in sight: a book that changes only  *)
(* by events the client asked for.                                         *)
(*   - an acknowledged event is applied, exactly once, and stays applied;  *)
(*   - a refused event is not applied, then or later;                      *)
(*   - a crash may or may not apply the event that was being appended, and *)
(*     does nothing else;                                                  *)
(*   - compaction drops the items the client did not ask to keep, and      *)
(*     brings nothing back.                                                *)
(***************************************************************************)
EXTENDS Events, FiniteSets

CONSTANTS
  Items,      (* the ids the client may use                                *)
  Tabs        (* the tab names the client may use                          *)

VARIABLES
  book,       (* the state a reader of the log would rebuild               *)
  up,         (* is the store open?                                        *)
  reply       (* the answer to the last call                               *)

journal == <<book, up, reply>>

NoReply == [ok |-> TRUE, call |-> Checkpoint]
Yes(e)  == [ok |-> TRUE, call |-> e]
No(why) == [ok |-> FALSE, call |-> [kind |-> why]]

(* Compaction is a call like any other, but not an event.                  *)
Compacted == Yes([kind |-> "compact"])

(* An item's mutable part is its set of tabs; everything else a patch can  *)
(* carry is treated by the store in the same way.                          *)
ItemOf(T) == [tags |-> T]

Events ==
  [kind : {"ITEM_ADDED"}, id : Items, item : {ItemOf({})}]
    \cup [kind : {"ITEM_UPDATED"}, id : Items, patch : {ItemOf(T) : T \in SUBSET Tabs}]
    \cup [kind : {"ITEM_DELETED"}, id : Items]
    \cup [kind : {"TAB_CREATED", "TAB_DELETED"}, tag : Tabs]
    \cup {Checkpoint}

Kept(b, keep) ==
  [b EXCEPT !.items = [i \in DOMAIN @ \cap keep |-> @[i]]]

Init ==
  /\ book = EmptyBook
  /\ up = FALSE
  /\ reply = NoReply

Open  == /\ ~up
         /\ up' \in BOOLEAN
         /\ UNCHANGED <<book, reply>>

Accept == /\ up
          /\ reply'.ok
          /\ reply'.call \in Events
          /\ book' = ApplyEvent(book, reply'.call)
          /\ UNCHANGED up

Refuse == /\ up
          /\ reply' = No("append")
          /\ UNCHANGED <<book, up>>

Compact(keep) == /\ up
                 /\ reply' \in {Compacted, No("blob GC failed")}
                 /\ book' = Kept(book, keep)
                 /\ UNCHANGED up

NotCompacted == /\ up
                /\ reply' \in {No("failed before rename"), No("corrupt")}
                /\ UNCHANGED <<book, up>>

(* The books a crash may leave: the call that was being served took effect *)
(* or it did not.                                                          *)
AfterCrash(b) ==
  {b} \cup {ApplyEvent(b, e) : e \in Events}
      \cup {Kept(b, keep) : keep \in SUBSET Items}

Crash == /\ up
         /\ ~up'
         /\ reply' = NoReply
         /\ \E was \in {book}, now \in {book'} : now \in AfterCrash(was)

Next == \/ Open
        \/ Accept
        \/ Refuse
        \/ \E keep \in SUBSET Items : Compact(keep)
        \/ NotCompacted
        \/ Crash

Spec == Init /\ [][Next]_journal
=============================================================================
