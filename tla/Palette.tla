------------------------------ MODULE Palette -------------------------------
(***************************************************************************)
(* The palette's renderer (PaletteState and the handlers of                *)
(* Palette.svelte) against the history in main, joined by the IPC of       *)
(* ipc-handlers.ts: calls to main, answered later, and the answers and     *)
(* events from main, which arrive in the order main sent them.             *)
(*                                                                         *)
(* The renderer guards its calls with sequence numbers.  A call in flight  *)
(* carries here what the number decides: live is TRUE as long as no later  *)
(* call or event has made its answer stale.  What a call still has to do   *)
(* after its answer travels with it (reload, preview, done).               *)
(*                                                                         *)
(* The tab and the kind the list is narrowed by are one filter; texts,     *)
(* toasts, TABS_MAX and the acknowledgement of an opening (module Opening) *)
(* are left out.                                                           *)
(*                                                                         *)
(* A secret expires by the clock, and nothing tells the renderer: main     *)
(* leaves it out of every answer from then on, and the sweep after a later *)
(* copy deletes it.                                                        *)
(***************************************************************************)
EXTENDS Integers, SequencesExt

CONSTANTS
  Items,       (* item ids                                                 *)
  Secrets,     (* the items flagged as secret                              *)
  Matches,     (* the items the user's search text matches                 *)
  Tabs,        (* tab names                                                *)
  None,        (* no item, no tab                                          *)
  FirstItems,  (* the items in the history at first, newest first          *)
  Titled,      (* those of them that have a title                          *)
  Heights,     (* how many rows the list may have room for                 *)
  Overscan,    (* OVERSCAN_ROWS                                            *)
  FetchSpan,   (* FETCH_SPAN                                               *)
  SearchLimit, (* SEARCH_LIMIT                                             *)
  Gestures,    (* bound: the kinds of gestures the user makes              *)
  MaxSteps     (* bound: gestures, openings, copies, expiries and failed   *)
               (* calls, in all                                            *)

ASSUME PaletteAssumption ==
  /\ Secrets \subseteq Items /\ Matches \subseteq Items /\ Titled \subseteq Items
  /\ None \notin Items
  /\ Tabs \cap {"all", "pinned"} = {}
  /\ FirstItems \in Seq(Items)
  /\ \A j, k \in DOMAIN FirstItems : FirstItems[j] = FirstItems[k] => j = k
  /\ Heights \subseteq Nat \ {0} /\ Heights # {}
  /\ Overscan \in Nat /\ FetchSpan \in Nat \ {0} /\ SearchLimit \in Nat
  /\ MaxSteps \in Nat

VARIABLES
  db,        (* main: the rows of the history, newest first                *)
  named,     (* main: the tabs created by name                             *)
  expired,   (* main: the rows whose time has run out                      *)
  visible,   (* main: is the palette shown?                                *)
  asked,     (* the calls main has not answered                            *)
  inbox,     (* the answers and events the renderer has not handled        *)
  ui,        (* the renderer's state                                       *)
  chosen,    (* the item the user last had selected, while every page that *)
             (* arrived since has shown it; for the properties only        *)
  asOf,      (* what had expired when main read what is on screen, nothing *)
             (* while a change is being read; for the properties only      *)
  shifted,   (* did a page that was read for a scroll leave out what the   *)
             (* page before it had?  For the properties only               *)
  left       (* what is left of MaxSteps                                   *)

vars == <<db, named, expired, visible, asked, inbox, ui, chosen, asOf, shifted, left>>

MaxOf(m, n) == IF m >= n THEN m ELSE n
MinOf(m, n) == IF m <= n THEN m ELSE n

-----------------------------------------------------------------------------
(* The history, as main answers from it.                                   *)

Row(i) == [id |-> i, titled |-> FALSE, pinned |-> FALSE, tags |-> {}]
NoRow == Row(None)

IdsOf(rows) == {rows[k].id : k \in DOMAIN rows}

Filters == {"all", "pinned"} \cup Tabs

Passes(row, filter) ==
  CASE filter = "all"    -> TRUE
    [] filter = "pinned" -> row.pinned
    [] OTHER             -> filter \in row.tags

(* The rows of a list that are in S, in their order.                       *)
Only(rows, S) ==
  LET upTo[k \in 0 .. Len(rows)] ==
        IF k = 0 THEN <<>>
        ELSE IF rows[k] \in S THEN Append(upTo[k - 1], rows[k]) ELSE upTo[k - 1]
  IN  upTo[Len(rows)]

(* What main answers once the items of gone have expired (isLive).         *)
Listed(filter, gone) == Only(db, {row \in ToSet(db) : Passes(row, filter) /\ row.id \notin gone})

Found(filter, gone) ==
  LET hits == Only(db, {row \in ToSet(db) :
                          row.id \in Matches /\ Passes(row, filter) /\ row.id \notin gone})
  IN  SubSeq(hits, 1, MinOf(SearchLimit, Len(hits)))

ShownTabs(gone) == named \cup UNION {row.tags : row \in {r \in ToSet(db) : r.id \notin gone}}

Page(rows, offset, limit) == SubSeq(rows, offset + 1, MinOf(Len(rows), offset + limit))

-----------------------------------------------------------------------------
(* The renderer.  Its functions call each other, so each is an operator    *)
(* from a state s = [ui, asked, inbox] of the renderer and its channels to *)
(* the next.                                                               *)

InFlight(s) == ToSet(s.asked) \cup ToSet(s.inbox)

MapCalls(s, F(_)) ==
  [ui |-> s.ui, asked |-> [k \in DOMAIN s.asked |-> F(s.asked[k])],
   inbox |-> [k \in DOMAIN s.inbox |-> F(s.inbox[k])]]

(* A sequence number moves on: the calls of these kinds are stale.         *)
Stale(c, kinds) == IF c.kind \in kinds THEN [c EXCEPT !.live = FALSE] ELSE c
Outdate(s, kinds) == MapCalls(s, LAMBDA c : Stale(c, kinds))

Ask(s, call) == [s EXCEPT !.asked = Append(@, call)]

(* Nobody waits for any of these any more.                                 *)
WithoutWaiters(c, waiters) ==
  IF "done" \in DOMAIN c THEN [c EXCEPT !.done = @ \ waiters] ELSE c
Forget(s, waiters) == MapCalls(s, LAMBDA c : WithoutWaiters(c, waiters))

(* What an awaited refresh ends with: "keep", the end of the latest        *)
(* refresh; "tag", the end of toggleTag.                                   *)
Done(s, waiters) ==
  [s EXCEPT !.ui.keep = IF "keep" \in waiters THEN None ELSE @,
            !.ui.editor.saving = IF "tag" \in waiters THEN FALSE ELSE @]

RowAt(s, index) ==
  LET local == index - s.ui.offset
  IN  IF local \in 0 .. Len(s.ui.rows) - 1 THEN s.ui.rows[local + 1] ELSE NoRow

Selected(s) == RowAt(s, s.ui.sel)

ContentHidden(s) == Selected(s).titled /\ s.ui.revealed # Selected(s).id

NextIndex(sel, key, total) ==
  IF total <= 0 THEN 0
  ELSE CASE key = "Down" -> (sel + 1) % total
         [] key = "Up"   -> IF sel - 1 < 0 THEN total - 1 ELSE sel - 1
         [] key = "Home" -> 0
         [] key = "End"  -> total - 1

WindowStartFor(sel, start, total, height) ==
  LET maxStart == MaxOf(0, total - height)
      begin == MinOf(MaxOf(0, start), maxStart)
      moved == IF sel < begin THEN sel
               ELSE IF sel >= begin + height THEN sel - height + 1 ELSE begin
  IN  MaxOf(0, MinOf(moved, maxStart))

RangeStart(s) == MaxOf(0, s.ui.start - Overscan)
RangeEnd(s) == MaxOf(RangeStart(s), MinOf(s.ui.total, s.ui.start + s.ui.height + Overscan))

Unselect(c) == IF c.kind = "list" THEN [c EXCEPT !.sel = None] ELSE c
ResetRefreshSelection(s) == MapCalls([s EXCEPT !.ui.keep = None], LAMBDA c : Unselect(c))

(* Mutant: hiding the preview lets one in flight arrive.                   *)
HidePreview_KeepsCall(s) == [s EXCEPT !.ui.revealed = None, !.ui.preview = None]

HidePreview(s) ==
  Outdate([s EXCEPT !.ui.revealed = None, !.ui.preview = None], {"preview"})

LoadPreview(s, done) ==
  LET t == Outdate(s, {"preview"})
  IN  IF ~s.ui.active \/ Selected(s).id = None \/ ContentHidden(s)
      THEN Done([t EXCEPT !.ui.preview = None], done)
      ELSE Ask(t, [kind |-> "preview", live |-> TRUE, id |-> Selected(s).id, done |-> done])

FetchWindow(s, offset, then) ==
  Ask(Outdate(s, {"list", "search"}),
      [kind |-> "list", live |-> TRUE, offset |-> offset,
       limit |-> MaxOf(FetchSpan, s.ui.height + 2 * Overscan), filter |-> s.ui.filter,
       reload |-> then.reload, sel |-> then.sel, preview |-> then.preview, done |-> then.done])

Fetching(s) == {c \in InFlight(s) : c.kind = "list" /\ c.live}
Spans(s, offset, limit) == RangeStart(s) >= offset /\ RangeEnd(s) <= offset + limit

(* What has to follow the page waits for the one that is being read.       *)
Joined(c, preview, done) ==
  IF c.kind = "list" /\ c.live
  THEN [c EXCEPT !.preview = @ \/ preview, !.done = @ \cup done] ELSE c

GoOn(s, preview, done) == IF preview THEN LoadPreview(s, done) ELSE Done(s, done)

EnsureLoaded(s, preview, done) ==
  IF ~s.ui.active \/ s.ui.mode # "recent"
  THEN GoOn(s, preview, done)
  ELSE IF Spans(s, s.ui.offset, Len(s.ui.rows))
  THEN GoOn(IF \E c \in Fetching(s) : ~Spans(s, c.offset, c.limit)
            THEN Outdate(s, {"list", "search"}) ELSE s, preview, done)
  ELSE IF \E c \in Fetching(s) : Spans(s, c.offset, c.limit)
  THEN MapCalls(s, LAMBDA c : Joined(c, preview, done))
  ELSE FetchWindow(s, RangeStart(s),
                   [reload |-> FALSE, sel |-> None, preview |-> preview, done |-> done])

Reload(s, sel, done) ==
  LET blank == HidePreview([s EXCEPT !.ui.mode = "recent", !.ui.rows = <<>>,
                                     !.ui.offset = RangeStart(s)])
  IN  IF ~s.ui.active THEN Done(s, done)
      ELSE FetchWindow(blank, RangeStart(s),
                       [reload |-> TRUE, sel |-> sel, preview |-> FALSE, done |-> done])

SetQuery(s, query, done) ==
  LET t == HidePreview(ResetRefreshSelection(s))
      u == [t EXCEPT !.ui.query = query, !.ui.sel = 0, !.ui.start = 0]
  IN  IF ~s.ui.active THEN Done(s, done)
      ELSE IF ~query THEN Reload(u, None, done)
      ELSE Ask(Outdate([u EXCEPT !.ui.mode = "search"], {"list", "search"}),
               [kind |-> "search", live |-> TRUE, filter |-> s.ui.filter, done |-> done])

(* Mutant: a refresh does not remember what an earlier one was to select.  *)
Refresh_Forgets(s, waiters) ==
  IF ~s.ui.active THEN Done(s, waiters)
  ELSE IF s.ui.mode = "search" /\ s.ui.query THEN SetQuery(s, TRUE, waiters)
  ELSE Reload(s, Selected(s).id, waiters)

(* Re-runs the view on screen; the selected item is looked up again in the *)
(* new rows, also when several refreshes overlap.                          *)
Refresh(s, waiters) ==
  LET keep == IF Selected(s).id # None THEN Selected(s).id ELSE s.ui.keep
  IN  IF ~s.ui.active THEN Done(s, waiters)
      ELSE IF s.ui.mode = "search" /\ s.ui.query THEN SetQuery(s, TRUE, waiters)
      ELSE Reload(Forget([s EXCEPT !.ui.keep = keep], {"keep"}), keep, waiters \cup {"keep"})

NoEditor == [kind |-> "none", id |-> None, tags |-> {}, saving |-> FALSE]

(* closeTagging, closeTabCreation and closeTitleEditing; at most one of    *)
(* the three is open.                                                      *)
CloseEditors(s, kinds) ==
  IF s.ui.editor.kind \notin kinds THEN s
  ELSE Forget(Outdate([s EXCEPT !.ui.editor = NoEditor], {"tag", "createTab", "title"}), {"tag"})

AllEditors == {"tagging", "creating", "titling"}

ReloadFilter(s) ==
  LET blank == [s EXCEPT !.ui.sel = 0, !.ui.start = 0, !.ui.rows = <<>>, !.ui.offset = 0,
                         !.ui.total = 0]
  IN  SetQuery(HidePreview(CloseEditors(blank, {"tagging", "titling"})), s.ui.query, {})

(* Mutant: the list that is being read is not made stale.                  *)
Scrub_KeepsList(s) ==
  LET t == HidePreview(CloseEditors(ResetRefreshSelection(Outdate(s, {"removeTab"})), AllEditors))
  IN  [t EXCEPT !.ui.active = FALSE, !.ui.query = FALSE, !.ui.rows = <<>>, !.ui.offset = 0,
                !.ui.sel = 0, !.ui.start = 0, !.ui.total = 0, !.ui.tabs = {}, !.ui.failed = FALSE]

(* Everything of the history leaves the renderer's memory.                 *)
Scrub(s) ==
  LET t == HidePreview(CloseEditors(ResetRefreshSelection(
             Outdate(s, {"list", "search", "removeTab"})), AllEditors))
  IN  [t EXCEPT !.ui.active = FALSE, !.ui.query = FALSE, !.ui.rows = <<>>, !.ui.offset = 0,
                !.ui.sel = 0, !.ui.start = 0, !.ui.total = 0, !.ui.tabs = {}, !.ui.failed = FALSE]

-----------------------------------------------------------------------------
(* What the renderer does with what arrives from main.                     *)

OnShown(s) ==
  LET t == CloseEditors(ResetRefreshSelection(Outdate(s, {"removeTab"})), AllEditors)
  IN  Reload(HidePreview([t EXCEPT !.ui.active = TRUE, !.ui.query = FALSE, !.ui.mode = "recent",
                                   !.ui.sel = 0, !.ui.start = 0, !.ui.filter = "all",
                                   !.ui.drag = None, !.ui.dialog = None]), None, {})

(* A page has arrived, and it is not stale.                                *)
TakePage(s, answer) ==
  [s EXCEPT !.ui.rows = answer.rows, !.ui.offset = answer.offset, !.ui.total = answer.total,
            !.ui.tabs = answer.tabs, !.ui.failed = FALSE,
            !.ui.sel = IF @ >= answer.total THEN MaxOf(0, answer.total - 1) ELSE @]

Reselect(s, answer) ==
  LET at == {k \in DOMAIN s.ui.rows : s.ui.rows[k].id = answer.sel}
      low == MinOf(s.ui.start, MaxOf(0, s.ui.total - s.ui.height))
      sel == s.ui.offset + (CHOOSE k \in at : TRUE) - 1
  IN  IF at = {} THEN [s EXCEPT !.ui.start = low]
      ELSE [s EXCEPT !.ui.sel = sel,
                     !.ui.start = WindowStartFor(sel, low, s.ui.total, s.ui.height)]

(* Mutant: a page is taken even when a later call made it stale.           *)
OnList_Stale(s, answer) ==
  LET taken == IF answer.ok THEN TakePage(s, answer) ELSE [s EXCEPT !.ui.failed = TRUE]
  IN  IF answer.reload /\ answer.live /\ answer.ok
      THEN EnsureLoaded(Reselect(taken, answer), TRUE, answer.done)
      ELSE IF answer.preview THEN LoadPreview(taken, answer.done) ELSE Done(taken, answer.done)

OnList(s, answer) ==
  LET taken == IF ~answer.live THEN s
               ELSE IF answer.ok THEN TakePage(s, answer) ELSE [s EXCEPT !.ui.failed = TRUE]
  IN  IF answer.reload /\ answer.live /\ answer.ok
      THEN EnsureLoaded(Reselect(taken, answer), TRUE, answer.done)
      ELSE IF answer.preview THEN LoadPreview(taken, answer.done) ELSE Done(taken, answer.done)

OnSearch(s, answer) ==
  IF ~answer.live THEN Done(s, answer.done)
  ELSE LoadPreview(IF answer.ok
                   THEN [s EXCEPT !.ui.rows = answer.rows, !.ui.offset = 0,
                                  !.ui.total = Len(answer.rows), !.ui.tabs = answer.tabs,
                                  !.ui.failed = FALSE]
                   ELSE [s EXCEPT !.ui.failed = TRUE], answer.done)

OnPreview(s, answer) ==
  Done(IF answer.live THEN [s EXCEPT !.ui.preview = IF answer.ok THEN answer.id ELSE None] ELSE s,
       answer.done)

OnPinned(s, answer) == IF answer.ok THEN Refresh(s, {}) ELSE s

OnTagged(s, answer) ==
  LET waiters == IF answer.live THEN {"tag"} ELSE {}
      editor == s.ui.editor
      noted == IF editor.kind = "tagging" /\ editor.id = answer.id
               THEN [s EXCEPT !.ui.editor.tags = IF answer.tagged THEN @ \cup {answer.tab}
                                                 ELSE @ \ {answer.tab}]
               ELSE s
  IN  IF answer.ok THEN Refresh(noted, waiters) ELSE Done(s, waiters)

OnTitled(s, answer) ==
  IF answer.live /\ answer.ok THEN Refresh(HidePreview(CloseEditors(s, AllEditors)), {}) ELSE s

OnTabCreated(s, answer) ==
  IF ~answer.live THEN s
  ELSE IF answer.ok THEN Refresh(CloseEditors(s, AllEditors), {})
  ELSE [s EXCEPT !.ui.editor.saving = FALSE]

OnTabRemoved(s, answer) ==
  LET t == [s EXCEPT !.ui.removing = None]
  IN  IF ~answer.ok \/ ~answer.live THEN t
      ELSE IF s.ui.filter = answer.tab THEN ReloadFilter([t EXCEPT !.ui.filter = "all"])
      ELSE Refresh(t, {})

Handle(s, m) ==
  CASE m.kind = "changed"   -> IF s.ui.active THEN Refresh(s, {}) ELSE s
    [] m.kind = "hidden"    -> Scrub(s)
    [] m.kind = "shown"     -> OnShown(s)
    [] m.kind = "list"      -> OnList(s, m)
    [] m.kind = "search"    -> OnSearch(s, m)
    [] m.kind = "preview"   -> OnPreview(s, m)
    [] m.kind \in {"pin", "remove"} -> OnPinned(s, m)
    [] m.kind = "tag"       -> OnTagged(s, m)
    [] m.kind = "title"     -> OnTitled(s, m)
    [] m.kind = "createTab" -> OnTabCreated(s, m)
    [] m.kind = "removeTab" -> OnTabRemoved(s, m)
    [] m.kind = "copy"      -> s

World == [ui |-> ui, asked |-> asked, inbox |-> inbox]

Becomes(s) ==
  /\ ui' = s.ui
  /\ asked' = s.asked
  /\ inbox' = s.inbox

(* The next answer or event reaches the renderer.                          *)
Receive ==
  /\ inbox # <<>>
  /\ LET m == Head(inbox)
         s == Handle([World EXCEPT !.inbox = Tail(@)], m)
         page == m.kind = "list" /\ m.live
         read == m.kind \in {"list", "search"} /\ m.live /\ m.ok
     IN  /\ Becomes(s)
         /\ chosen' = IF m.kind \in {"shown", "hidden"} \/ (page /\ ~m.ok)
                         \/ (page /\ chosen \notin IdsOf(m.rows)) \/ s.ui.mode # "recent"
                         \/ s.ui.filter # ui.filter
                         \/ (page /\ ~m.reload /\ m.asOf # asOf)
                      THEN None ELSE chosen
         /\ asOf' = CASE m.kind \in {"changed", "shown"} -> {}
                      [] read -> m.asOf
                      [] OTHER -> asOf
         /\ shifted' = IF read THEN page /\ ~m.reload /\ (shifted \/ m.asOf # asOf) ELSE shifted
  /\ UNCHANGED <<db, named, expired, visible, left>>

-----------------------------------------------------------------------------
(* Main.                                                                   *)

IsRead(call) == call.kind \in {"list", "search", "preview"}

(* A call to the history waits while a load is in flight, but list and     *)
(* search do not: reads may overtake the rest.                             *)
Answerable == {k \in DOMAIN asked : \A j \in 1 .. k - 1 : IsRead(asked[j]) # IsRead(asked[k])}

Has(id) == id \in IdsOf(db)

(* resolveReps: the content of an item that has expired is refused.        *)
Resolves(id) == Has(id) /\ id \notin expired

RowOf(id) == db[CHOOSE k \in DOMAIN db : db[k].id = id]

Put(row) == [k \in DOMAIN db |-> IF db[k].id = row.id THEN row ELSE db[k]]

Event(kind) == [kind |-> kind, live |-> TRUE]

(* A call with the fields of its answer.                                   *)
Answered(call, answer) ==
  [x \in DOMAIN call \cup DOMAIN answer |-> IF x \in DOMAIN answer THEN answer[x] ELSE call[x]]

(* Main answers a call: the rows and tabs afterwards, whether the answer   *)
(* is ok, and the events sent before it.                                   *)
Reply(k, ok, rows, tabs, events) ==
  /\ db' = rows
  /\ named' = tabs
  /\ asked' = RemoveAt(asked, k)
  /\ inbox' = inbox \o events \o <<Answered(asked[k], [ok |-> ok])>>
  /\ UNCHANGED <<ui, chosen, asOf, shifted>>

Keep(k, ok) == Reply(k, ok, db, named, <<>>) /\ UNCHANGED <<expired, visible>>

AnswerRead(k) ==
  LET c == asked[k]
      answer == CASE c.kind = "list" ->
                       [rows |-> Page(Listed(c.filter, expired), c.offset, c.limit),
                        total |-> Len(Listed(c.filter, expired)), tabs |-> ShownTabs(expired),
                        asOf |-> expired, ok |-> TRUE]
                  [] c.kind = "search" ->
                       [rows |-> Found(c.filter, expired), tabs |-> ShownTabs(expired),
                        asOf |-> expired, ok |-> TRUE]
                  [] OTHER -> [ok |-> Resolves(c.id)]
  IN  /\ IsRead(c)
      /\ asked' = RemoveAt(asked, k)
      /\ inbox' = Append(inbox, Answered(c, answer))
      /\ UNCHANGED <<db, named, expired, visible, ui, chosen, asOf, shifted, left>>

AnswerPin(k) ==
  LET c == asked[k]
  IN  /\ c.kind = "pin"
      /\ IF Has(c.id)
         THEN /\ Reply(k, TRUE, Put([RowOf(c.id) EXCEPT !.pinned = c.pinned]), named,
                       <<Event("changed")>>)
              /\ UNCHANGED <<expired, visible>>
         ELSE Keep(k, FALSE)
      /\ UNCHANGED left

AnswerTag(k) ==
  LET c == asked[k]
      row == [RowOf(c.id) EXCEPT !.tags = IF c.tagged THEN @ \cup {c.tab} ELSE @ \ {c.tab}]
  IN  /\ c.kind = "tag"
      /\ IF ~Has(c.id) THEN Keep(k, FALSE)
         ELSE IF Put(row) = db THEN Keep(k, TRUE)
         ELSE /\ Reply(k, TRUE, Put(row), named, <<Event("changed")>>)
              /\ UNCHANGED <<expired, visible>>
      /\ UNCHANGED left

AnswerTitle(k) ==
  LET c == asked[k]
      row == [RowOf(c.id) EXCEPT !.titled = c.titled]
  IN  /\ c.kind = "title"
      /\ IF ~Has(c.id) THEN Keep(k, FALSE)
         ELSE IF Put(row) = db THEN Keep(k, TRUE)
         ELSE /\ Reply(k, TRUE, Put(row), named, <<Event("changed")>>)
              /\ UNCHANGED <<expired, visible>>
      /\ UNCHANGED left

AnswerCreateTab(k) ==
  /\ asked[k].kind = "createTab"
  /\ IF asked[k].tab \in named THEN Keep(k, TRUE)
     ELSE /\ Reply(k, TRUE, db, named \cup {asked[k].tab}, <<Event("changed")>>)
          /\ UNCHANGED <<expired, visible>>
  /\ UNCHANGED left

AnswerRemoveTab(k) ==
  LET tab == asked[k].tab
  IN  /\ asked[k].kind = "removeTab"
      /\ IF tab \notin ShownTabs({}) THEN Keep(k, TRUE)
         ELSE /\ Reply(k, TRUE, [j \in DOMAIN db |-> [db[j] EXCEPT !.tags = @ \ {tab}]],
                       named \ {tab}, <<Event("changed")>>)
              /\ UNCHANGED <<expired, visible>>
      /\ UNCHANGED left

(* Deleting the blobs may fail when the item is gone already.              *)
AnswerRemove(k) ==
  /\ asked[k].kind = "remove"
  /\ \/ /\ Has(asked[k].id)
        /\ \E ok \in {TRUE} \cup (IF left > 0 THEN {FALSE} ELSE {}) :
             /\ Reply(k, ok, Only(db, {row \in ToSet(db) : row.id # asked[k].id}), named,
                      <<Event("changed")>>)
             /\ left' = IF ok THEN left ELSE left - 1
        /\ expired' = expired \ {asked[k].id}
        /\ UNCHANGED visible
     \/ /\ ~Has(asked[k].id)
        /\ Keep(k, TRUE)
        /\ UNCHANGED left

(* A copy that went well hides the palette.                                *)
AnswerCopy(k) ==
  /\ asked[k].kind = "copy"
  /\ IF Resolves(asked[k].id)
     THEN /\ Reply(k, TRUE, db, named, IF visible THEN <<Event("hidden")>> ELSE <<>>)
          /\ visible' = FALSE
          /\ UNCHANGED expired
     ELSE Keep(k, FALSE)
  /\ UNCHANGED left

AnswerClose(k) ==
  /\ asked[k].kind = "close"
  /\ asked' = RemoveAt(asked, k)
  /\ inbox' = inbox \o (IF visible THEN <<Event("hidden")>> ELSE <<>>)
  /\ visible' = FALSE
  /\ UNCHANGED <<db, named, expired, ui, chosen, asOf, shifted, left>>

(* Any call may fail and change nothing: a log that cannot be written, a   *)
(* tab limit, a blob that cannot be read.                                  *)
AnswerFails(k) ==
  /\ asked[k].kind # "close"
  /\ left > 0
  /\ left' = left - 1
  /\ inbox' = Append(inbox, Answered(asked[k], [ok |-> FALSE]))
  /\ asked' = RemoveAt(asked, k)
  /\ UNCHANGED <<db, named, expired, visible, ui, chosen, asOf, shifted>>

Answer ==
  \E k \in Answerable :
    \/ AnswerRead(k) \/ AnswerPin(k) \/ AnswerTag(k) \/ AnswerTitle(k)
    \/ AnswerCreateTab(k) \/ AnswerRemoveTab(k) \/ AnswerRemove(k)
    \/ AnswerCopy(k) \/ AnswerClose(k) \/ AnswerFails(k)

(* Something is copied: a new row, or an old one moves to the top.  The    *)
(* sweep that follows deletes what has expired, or less when it fails.     *)
Copied(i) ==
  LET rows == <<IF Has(i) THEN RowOf(i) ELSE Row(i)>> \o Only(db, {row \in ToSet(db) : row.id # i})
  IN  /\ left > 0
      /\ left' = left - 1
      /\ \E swept \in SUBSET expired :
           /\ db' = Only(rows, {row \in ToSet(rows) : row.id \notin swept})
           /\ expired' = expired \ swept
      /\ inbox' = Append(inbox, Event("changed"))
      /\ UNCHANGED <<named, visible, asked, ui, chosen, asOf, shifted>>

(* The time of a secret runs out.                                          *)
Expire(i) ==
  /\ left > 0
  /\ left' = left - 1
  /\ i \in Secrets \ expired /\ Has(i)
  /\ expired' = expired \cup {i}
  /\ UNCHANGED <<db, named, visible, asked, inbox, ui, chosen, asOf, shifted>>

Show ==
  /\ left > 0
  /\ left' = left - 1
  /\ inbox' = inbox \o (IF visible THEN <<Event("hidden")>> ELSE <<>>) \o <<Event("shown")>>
  /\ visible' = TRUE
  /\ UNCHANGED <<db, named, expired, asked, ui, chosen, asOf, shifted>>

(* The window is hidden; as it loses the focus, a drag and the dialog end. *)
Hide ==
  /\ visible
  /\ visible' = FALSE
  /\ inbox' = Append(inbox, Event("hidden"))
  /\ ui' = [ui EXCEPT !.drag = None, !.dialog = None]
  /\ UNCHANGED <<db, named, expired, asked, chosen, asOf, shifted, left>>

-----------------------------------------------------------------------------
(* The user.                                                               *)

(* The window is in front of the user; a dialog or a drag takes all input. *)
InFront == visible /\ \A k \in DOMAIN inbox : inbox[k].kind # "shown"
Free == InFront /\ ui.dialog = None /\ ui.drag = None

Act(gesture, s) ==
  /\ gesture \in Gestures
  /\ left > 0
  /\ left' = left - 1
  /\ Becomes(s)
  /\ chosen' = IF s.ui.active /\ s.ui.mode = "recent" THEN Selected(s).id ELSE None
  /\ UNCHANGED <<db, named, expired, visible, asOf, shifted>>

VisibleRows == {k \in RangeStart(World) .. RangeEnd(World) - 1 : RowAt(World, k).id # None}

(* An action reaches a row by its key, or by the row's own button.         *)
Reached == {World} \cup {HidePreview([World EXCEPT !.ui.sel = k]) : k \in VisibleRows}

Type(query) == Free /\ Act("type", SetQuery(World, query, {}))

MoveSelection(key) ==
  LET s == HidePreview(ResetRefreshSelection(World))
      sel == NextIndex(ui.sel, key, ui.total)
  IN  /\ Free
      /\ ui.active
      /\ Act("move", EnsureLoaded([s EXCEPT !.ui.sel = sel, !.ui.start =
                                     WindowStartFor(sel, ui.start, ui.total, ui.height)],
                                  TRUE, {}))

RevealPreview(s) == LoadPreview([s EXCEPT !.ui.revealed = Selected(s).id], {})

Reveal ==
  /\ Free
  /\ Selected(World).id # None
  /\ Act("reveal", RevealPreview(World))

ViewItem(index) ==
  /\ Free
  /\ Act("reveal",
         RevealPreview([HidePreview(ResetRefreshSelection(World)) EXCEPT !.ui.sel = index]))

HideContent == Free /\ Selected(World).titled /\ Act("reveal", HidePreview(World))

SetScrollTop(row) ==
  /\ Free
  /\ Act("scroll", EnsureLoaded([World EXCEPT !.ui.start = MinOf(row, MaxOf(0, ui.total - ui.height))],
                                FALSE, {}))

SetViewportHeight(height) ==
  LET selectionVisible == ui.sel >= ui.start /\ ui.sel < ui.start + ui.height
      start == IF selectionVisible THEN WindowStartFor(ui.sel, ui.start, ui.total, height)
               ELSE MinOf(ui.start, MaxOf(0, ui.total - height))
  IN  /\ Free
      /\ height # ui.height
      /\ Act("scroll", EnsureLoaded([World EXCEPT !.ui.height = height, !.ui.start = start],
                                    FALSE, {}))

SelectTab(filter) ==
  /\ Free
  /\ filter \in {"all", "pinned"} \cup ui.tabs
  /\ filter # ui.filter
  /\ Act("filter", ReloadFilter([World EXCEPT !.ui.filter = filter]))

Recall ==
  /\ Free
  /\ \E s \in Reached :
       /\ Selected(s).id # None
       /\ Act("copy", Ask(s, [kind |-> "copy", live |-> TRUE, id |-> Selected(s).id]))

SetPin(s, row, pinned) ==
  IF row.id \in Secrets THEN s
  ELSE Ask(s, [kind |-> "pin", live |-> TRUE, id |-> row.id, pinned |-> pinned])

TogglePin ==
  /\ Free
  /\ \E s \in Reached :
       /\ Selected(s).id # None
       /\ Act("pin", SetPin(s, Selected(s), ~Selected(s).pinned))

RemoveSelected ==
  /\ Free
  /\ \E s \in Reached :
       /\ Selected(s).id # None
       /\ Act("remove", Ask(s, [kind |-> "remove", live |-> TRUE, id |-> Selected(s).id]))

OpenTagging ==
  /\ Free
  /\ \E s \in Reached :
       /\ Selected(s).id # None
       /\ Act("tag", [CloseEditors(s, AllEditors) EXCEPT !.ui.editor =
                        [kind |-> "tagging", id |-> Selected(s).id, tags |-> Selected(s).tags,
                         saving |-> FALSE]])

TaggingTags ==
  LET at == {k \in DOMAIN ui.rows : ui.rows[k].id = ui.editor.id}
  IN  IF at = {} THEN ui.editor.tags ELSE ui.rows[CHOOSE k \in at : TRUE].tags

ApplyTag(s, id, tab, tagged, live) ==
  Ask(s, [kind |-> "tag", live |-> live, id |-> id, tab |-> tab, tagged |-> tagged])

ToggleTag(tab) ==
  /\ Free
  /\ ui.editor.kind = "tagging" /\ ~ui.editor.saving
  /\ tab \in ui.tabs
  /\ Act("tag", ApplyTag([World EXCEPT !.ui.editor.saving = TRUE], ui.editor.id, tab,
                         tab \notin TaggingTags, TRUE))

OpenTitleEditing ==
  /\ Free
  /\ \E s \in Reached :
       /\ Selected(s).id # None
       /\ Act("title", [CloseEditors(s, AllEditors) EXCEPT !.ui.editor =
                          [NoEditor EXCEPT !.kind = "titling", !.id = Selected(s).id]])

CommitTitle(titled) ==
  /\ Free
  /\ ui.editor.kind = "titling"
  /\ Act("title", Ask(World, [kind |-> "title", live |-> TRUE, id |-> ui.editor.id,
                              titled |-> titled]))

OpenTabCreation ==
  /\ Free
  /\ Act("tabs", [CloseEditors(World, AllEditors) EXCEPT !.ui.editor =
                    [NoEditor EXCEPT !.kind = "creating"]])

CreateTab(tab) ==
  /\ Free
  /\ ui.editor.kind = "creating" /\ ~ui.editor.saving
  /\ Act("tabs", Ask([World EXCEPT !.ui.editor.saving = TRUE],
                     [kind |-> "createTab", live |-> TRUE, tab |-> tab]))

CancelEditor ==
  /\ Free
  /\ ui.editor.kind # "none"
  /\ Act("cancel", CloseEditors(World, AllEditors))

RequestTabRemoval(tab) ==
  /\ Free
  /\ tab \in ui.tabs /\ ui.removing = None
  /\ Act("tabs", [CloseEditors(World, AllEditors) EXCEPT !.ui.dialog = tab])

(* The dialog is answered, and the answer costs no act of its own.         *)
AnswerDialog(confirmed) ==
  LET s == [World EXCEPT !.ui.dialog = None]
  IN  /\ InFront
      /\ ui.dialog # None
      /\ Becomes(IF confirmed /\ ui.removing = None
                 THEN Ask([s EXCEPT !.ui.removing = ui.dialog],
                          [kind |-> "removeTab", live |-> ui.active, tab |-> ui.dialog])
                 ELSE s)
      /\ UNCHANGED <<db, named, expired, visible, chosen, asOf, shifted, left>>

StartDrag(index) ==
  /\ Free
  /\ Act("drag", [World EXCEPT !.ui.drag = RowAt(World, index).id])

(* The clip is dropped on a tab, on the pinned tab, or nowhere.            *)
DropClip(filter) ==
  LET s == [World EXCEPT !.ui.drag = None]
      row == [NoRow EXCEPT !.id = ui.drag]
  IN  /\ InFront
      /\ ui.drag # None
      /\ filter \in {"all", "pinned"} \cup ui.tabs
      /\ Becomes(CASE filter = "pinned" -> SetPin(s, row, TRUE)
                   [] filter = "all" -> s
                   [] OTHER -> ApplyTag(s, ui.drag, filter, TRUE, FALSE))
      /\ UNCHANGED <<db, named, expired, visible, chosen, asOf, shifted, left>>

Close == Free /\ Act("close", Ask(Scrub(World), [kind |-> "close", live |-> TRUE]))

User ==
  \/ \E query \in {TRUE, FALSE} : Type(query)
  \/ \E key \in {"Down", "Up", "Home", "End"} : MoveSelection(key)
  \/ Reveal \/ HideContent \/ \E k \in VisibleRows : ViewItem(k) \/ StartDrag(k)
  \/ \E row \in 0 .. Len(db) : SetScrollTop(row)
  \/ \E height \in Heights : SetViewportHeight(height)
  \/ \E filter \in Filters : SelectTab(filter) \/ DropClip(filter)
  \/ Recall \/ TogglePin \/ RemoveSelected \/ OpenTagging \/ OpenTitleEditing
  \/ OpenTabCreation \/ CancelEditor \/ Close
  \/ \E tab \in Tabs : ToggleTag(tab) \/ CreateTab(tab) \/ RequestTabRemoval(tab)
  \/ \E yes \in {TRUE, FALSE} : CommitTitle(yes) \/ AnswerDialog(yes)

-----------------------------------------------------------------------------

FirstUi ==
  [active |-> TRUE, query |-> FALSE, mode |-> "recent", filter |-> "all", sel |-> 0, start |-> 0,
   height |-> CHOOSE h \in Heights : TRUE,
   rows |-> <<>>, offset |-> 0, total |-> 0, tabs |-> {}, failed |-> FALSE, preview |-> None,
   revealed |-> None, keep |-> None, editor |-> NoEditor, dialog |-> None, drag |-> None,
   removing |-> None]

(* start() subscribes and loads the first page, with no window shown yet.  *)
Init ==
  /\ db = [k \in DOMAIN FirstItems |->
             [Row(FirstItems[k]) EXCEPT !.titled = FirstItems[k] \in Titled]]
  /\ named = Tabs
  /\ expired = {}
  /\ visible = FALSE
  /\ LET s == Reload([ui |-> FirstUi, asked |-> <<>>, inbox |-> <<>>], None, {})
     IN  ui = s.ui /\ asked = s.asked /\ inbox = s.inbox
  /\ chosen = None
  /\ asOf = {}
  /\ shifted = FALSE
  /\ left = MaxSteps

Next ==
  \/ Receive \/ Answer \/ Show \/ Hide \/ User
  \/ \E i \in Items : Copied(i) \/ Expire(i)

Spec == Init /\ [][Next]_vars

-----------------------------------------------------------------------------

(* With nothing under way, what is on screen is what main would answer     *)
(* now, but for the secrets that expired since it was read, which nothing  *)
(* takes off the screen: the rows and tabs of the filter and the query,    *)
(* every row of the window, and a preview only of the selected row, unless *)
(* a page read for a scroll has left out a secret and moved the rows.  A   *)
(* load that failed excuses it.  (The sequence numbers of reload,          *)
(* setQuery, ensureLoaded and loadPreview.)                                *)
ViewIsCurrent ==
  ui.active /\ asked = <<>> /\ inbox = <<>> /\ ~ui.failed =>
    /\ asOf \subseteq expired
    /\ ui.mode = (IF ui.query THEN "search" ELSE "recent")
    /\ ui.tabs = ShownTabs(asOf)
    /\ ui.mode = "search" => ui.rows = Found(ui.filter, asOf)
    /\ ui.mode = "recent" =>
         /\ ui.total = Len(Listed(ui.filter, asOf))
         /\ ui.rows = Page(Listed(ui.filter, asOf), ui.offset, Len(ui.rows))
         /\ \A i \in ui.start .. MinOf(ui.total, ui.start + ui.height) - 1 :
              RowAt(World, i).id # None
    /\ ~shifted /\ Selected(World).id # None => ui.preview \in {None, Selected(World).id}

(* A refresh, whatever set it off and however many overlap, leaves the     *)
(* selection on the item the user had selected, so that the next key acts  *)
(* on that item, unless a secret has expired since and a page read for a   *)
(* scroll moved the rows.  (refresh and reload, palette-state.svelte.ts.)  *)
SelectionFollowsItem ==
  chosen # None /\ ui.rows # <<>> => Selected(World).id = chosen

(* The content of an item that is known to have a title is not on screen   *)
(* unless the user revealed that very item, or a page read for a scroll    *)
(* has moved the rows since.  (contentHidden, loadPreview.)                *)
TitledStaysHidden ==
  \A k \in DOMAIN ui.rows :
    ~shifted /\ ui.rows[k].id = ui.preview /\ ui.rows[k].titled => ui.revealed = ui.preview

(* Once the palette is hidden, nothing of the history comes back into the  *)
(* renderer's memory before the next opening, whatever was on its way.     *)
(* (#scrub, palette-state.svelte.ts.)                                      *)
NothingWhileHidden ==
  ~ui.active => /\ ui.rows = <<>> /\ ui.tabs = {} /\ ui.total = 0
                /\ ui.preview = None /\ ui.revealed = None /\ ui.keep = None
                /\ ui.editor.id = None /\ ~ui.failed
=============================================================================
