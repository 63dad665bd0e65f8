------------------------------ MODULE ClipBook ------------------------------
(***************************************************************************)
(* What packages/history promises to the rest of the app: at most one row  *)
(* per content, and a row that changes, comes and goes only as asked.      *)
(* There is no log, no id, no cache, no index and no blob here, and a      *)
(* crash loses nothing.                                                    *)
(***************************************************************************)
EXTENDS Integers

CONSTANTS
  Contents,   (* what can be copied                                        *)
  Secrets,    (* the contents the privacy rules flag as secret             *)
  Tabs,       (* tab names                                                 *)
  Ttl         (* how long a secret is kept                                 *)

VARIABLES
  rows,       (* from the contents in the history to their rows            *)
  tabs,       (* the tabs created by name                                  *)
  now

book == <<rows, tabs, now>>

Init ==
  /\ rows = <<>>
  /\ tabs = {}
  /\ now = 0

Tick ==
  /\ now' = now + 1
  /\ UNCHANGED <<rows, tabs>>

NewRow == [title |-> FALSE, pinned |-> FALSE, tags |-> {},
           createdAt |-> now, updatedAt |-> now]

Put(c, row) ==
  /\ rows' = [d \in DOMAIN rows \cup {c} |-> IF d = c THEN row ELSE rows[d]]
  /\ UNCHANGED <<tabs, now>>

CopyNew(c) == c \notin DOMAIN rows /\ Put(c, NewRow)

CopyAgain(c) == Put(c, [rows[c] EXCEPT !.updatedAt = now])

Pin(c, pinned) ==
  /\ pinned => c \notin Secrets
  /\ Put(c, [rows[c] EXCEPT !.pinned = pinned])

Tag(c, t, tagged) ==
  Put(c, [rows[c] EXCEPT !.tags = IF tagged THEN @ \cup {t} ELSE @ \ {t}])

SetTitle(c, title) == Put(c, [rows[c] EXCEPT !.title = title])

CreateTab(t) ==
  /\ tabs' = tabs \cup {t}
  /\ UNCHANGED <<rows, now>>

RemoveTab(t) ==
  /\ tabs' = tabs \ {t}
  /\ rows' = [c \in DOMAIN rows |-> [rows[c] EXCEPT !.tags = @ \ {t}]]
  /\ UNCHANGED now

Without(S) == [c \in DOMAIN rows \ S |-> rows[c]]

Remove(c) ==
  /\ rows' = Without({c})
  /\ UNCHANGED <<tabs, now>>

(* The only rows that go unasked are expired secrets and rows nobody keeps.*)
Expendable(c) ==
  \/ c \in Secrets /\ now >= rows[c].createdAt + Ttl
  \/ ~rows[c].pinned /\ rows[c].tags = {}

Sweep(S) ==
  /\ \A c \in S : Expendable(c)
  /\ rows' = Without(S)
  /\ UNCHANGED <<tabs, now>>

Next ==
  \/ Tick
  \/ \E c \in Contents : CopyNew(c)
  \/ \E c \in DOMAIN rows :
       \/ CopyAgain(c)
       \/ Remove(c)
       \/ \E pinned \in BOOLEAN : Pin(c, pinned)
       \/ \E title \in BOOLEAN : SetTitle(c, title)
       \/ \E t \in Tabs, tagged \in BOOLEAN : Tag(c, t, tagged)
  \/ \E t \in Tabs : CreateTab(t) \/ RemoveTab(t)
  \/ \E S \in SUBSET DOMAIN rows : Sweep(S)

Spec == Init /\ [][Next]_book
=============================================================================
