------------------------- MODULE PaletteView_proofs -------------------------
(***************************************************************************)
(* What the palette shows, for any history, any list the user looks at and *)
(* any order of answers and events: it is what main would answer, but for  *)
(* what has expired, or a read that will say so is under way; the selection*)
(* stays on its item; nothing comes back once the palette is hidden.  On   *)
(* top of the types of module Palette_proofs.                              *)
(***************************************************************************)
EXTENDS Palette_proofs

-----------------------------------------------------------------------------
(* What is on screen.  l is the list the rows on screen come from and tabs *)
(* are its tabs.  h is what main would answer, whatever has expired; at    *)
(* are the secrets that had expired when the rows were read, now are those *)
(* that have; shifted says that a scroll has moved the rows since.         *)
Memory ==
  [listed |-> [f \in Filters |-> [gone \in SUBSET Secrets |-> Listed(f, gone)]],
   found |-> [f \in Filters |-> [gone \in SUBSET Secrets |-> Found(f, gone)]],
   tabs |-> [gone \in SUBSET Secrets |-> ShownTabs(gone)], at |-> asOf, now |-> expired,
   shifted |-> shifted]

MemoryOK(h) ==
  /\ h.at \subseteq Secrets /\ h.now \subseteq Secrets
  /\ \A f \in Filters, gone \in SUBSET Secrets :
       /\ h.listed[f][gone] \in Seq(ListRows) /\ Distinct(h.listed[f][gone])
       /\ h.found[f][gone] \in Seq(ListRows) /\ Distinct(h.found[f][gone])

LEMMA MemoryIs ==
  /\ DbOK /\ asOf \subseteq Secrets => MemoryOK(Memory)
  /\ \A f \in Filters, gone \in SUBSET Secrets :
       /\ Memory.listed[f][gone] = Listed(f, gone) /\ Memory.found[f][gone] = Found(f, gone)
       /\ Memory.tabs[gone] = ShownTabs(gone)
  /\ Memory.at = asOf /\ Memory.now = expired /\ Memory.shifted = shifted
<1>1. /\ \A f \in Filters, gone \in SUBSET Secrets :
           /\ Memory.listed[f][gone] = Listed(f, gone) /\ Memory.found[f][gone] = Found(f, gone)
           /\ Memory.tabs[gone] = ShownTabs(gone)
      /\ Memory.at = asOf /\ Memory.now = expired /\ Memory.shifted = shifted
  BY DEF Memory
<1>2. ASSUME DbOK, asOf \subseteq Secrets
      PROVE  MemoryOK(Memory)
  <2> HIDE DEF Memory
  <2>1. ASSUME NEW f \in Filters, NEW gone \in SUBSET Secrets
        PROVE  /\ Memory.listed[f][gone] \in Seq(ListRows) /\ Distinct(Memory.listed[f][gone])
               /\ Memory.found[f][gone] \in Seq(ListRows) /\ Distinct(Memory.found[f][gone])
    BY <1>1, <1>2, ListedIs, FoundIs
  <2>2. asOf \subseteq Secrets /\ expired \subseteq Secrets
    BY <1>2 DEF DbOK
  <2> QED BY <1>1, <2>1, <2>2 DEF MemoryOK
<1> QED BY <1>1, <1>2

LEMMA MemorySame ==
  ASSUME db' = db, named' = named, expired' = expired, asOf' = asOf,
         shifted' = shifted
  PROVE  Memory' = Memory
BY DEF Memory, Listed, Found, ShownTabs

Shows(u, l) ==
  /\ u.offset + Len(u.rows) <= Len(l)
  /\ \A k \in DOMAIN u.rows : u.rows[k] = l[u.offset + k]

(* The preview is of the selected row, and the user may see it; unless the *)
(* rows have moved.                                                        *)
Opened(id, u, l, h) ==
  ~h.shifted =>
    /\ u.sel + 1 \in DOMAIN l
    /\ id = l[u.sel + 1].id
    /\ l[u.sel + 1].titled => u.revealed = id

View(s, l, tabs, h) ==
  s.ui.active =>
    /\ l \in Seq(ListRows) /\ Distinct(l)
    /\ s.ui.rows # <<>> => Shows(s.ui, l)
    /\ s.ui.rows # <<>> /\ s.ui.mode = "recent" => s.ui.total = Len(l) /\ s.ui.tabs = tabs
    /\ s.ui.preview # None => Opened(s.ui.preview, s.ui, l, h)
    /\ \A k \in DOMAIN s.asked : Live(s.asked[k], {"preview"}) => Opened(s.asked[k].id, s.ui, l, h)
    /\ \A k \in DOMAIN s.inbox : Live(s.inbox[k], {"preview"}) => Opened(s.inbox[k].id, s.ui, l, h)

(* Main has not told of a change.                                          *)
Still(q, i, j) == \A k \in i .. j : q[k].kind # "changed"

(* The page is of the list on screen, unless more has expired.             *)
PageOf(m, p, q) == m.rows = Page(p, m.offset, m.limit) /\ m.total = Len(p) /\ m.tabs = q

PageDue(m, l, tabs, h, filter, still) ==
  /\ h.at \subseteq m.asOf
  /\ \E p, q :
       /\ PageOf(m, p, q) /\ p \in Seq(ListRows) /\ Distinct(p)
       /\ m.asOf = h.at => p = l /\ q = tabs
       /\ still => p = h.listed[filter][m.asOf] /\ q = h.tabs[m.asOf] /\ m.asOf \subseteq h.now

HitsDue(m, h, filter, still) ==
  /\ Distinct(m.rows)
  /\ still => /\ m.rows = h.found[filter][m.asOf] /\ m.tabs = h.tabs[m.asOf]
              /\ m.asOf \subseteq h.now

(* The answers on the way are of that list, or a change follows.           *)
Due(s, l, tabs, h) ==
  s.ui.active =>
    /\ Still(s.inbox, 1, Len(s.inbox)) => h.at \subseteq h.now
    /\ s.ui.mode = "recent" =>
         /\ \A k \in DOMAIN s.inbox :
              Live(s.inbox[k], {"list"}) /\ s.inbox[k].ok /\ Still(s.inbox, 1, k)
                => PageDue(s.inbox[k], l, tabs, h, s.ui.filter, Still(s.inbox, 1, Len(s.inbox)))
         /\ Still(s.inbox, 1, Len(s.inbox)) =>
              l = h.listed[s.ui.filter][h.at] /\ tabs = h.tabs[h.at]
    /\ \A k \in DOMAIN s.inbox :
         Live(s.inbox[k], {"search"}) /\ s.inbox[k].ok =>
           HitsDue(s.inbox[k], h, s.ui.filter, Still(s.inbox, k, Len(s.inbox)))

(* With no page to come, what is known of the list is so.                  *)
Known(s, l, tabs, h) ==
  s.ui.active /\ ~s.ui.failed =>
    /\ s.ui.mode = "recent" /\ NoneLive(s, {"list"}) => s.ui.total = Len(l) /\ s.ui.tabs = tabs
    /\ s.ui.mode = "search" /\ NoneLive(s, {"search"}) /\ Still(s.inbox, 1, Len(s.inbox)) =>
         s.ui.rows = h.found[s.ui.filter][h.at] /\ s.ui.tabs = h.tabs[h.at]

Full(u) ==
  \A i \in u.start .. MinOf(u.total, u.start + u.height) - 1 : i - u.offset + 1 \in DOMAIN u.rows

(* No window has room for more rows than a page is asked for at least.     *)
WindowFits == \A height \in Heights : height <= FetchSpan

(* And every row of the window is there, if it is such a window.           *)
Whole(s) ==
  WindowFits /\ s.ui.active /\ ~s.ui.failed /\ s.ui.mode = "recent" /\ NoneLive(s, {"list"})
    => Full(s.ui)

(* A page to come has the rows of the window.                              *)
Covers(c, s) ==
  Live(c, {"list"}) => Spans(s, c.offset, c.limit) /\ (~c.reload => Placed(s.ui))

Cover(s) ==
  /\ \A k \in DOMAIN s.asked : Covers(s.asked[k], s)
  /\ \A k \in DOMAIN s.inbox : Covers(s.inbox[k], s)

Looks(s, l, tabs, h) == View(s, l, tabs, h) /\ Due(s, l, tabs, h) /\ Known(s, l, tabs, h)
Seen(s, l, tabs, h) == Looks(s, l, tabs, h) /\ Whole(s) /\ Cover(s)

(* What is on screen is some list.                                         *)
Sound(s, h) == \E l, tabs : Seen(s, l, tabs, h)

-----------------------------------------------------------------------------
(* Steps that leave the view as it is.                                     *)
ViewFields == {"active", "mode", "filter", "rows", "offset", "total", "tabs", "failed"}
SameView(u, v) ==
  /\ v.active = u.active /\ v.mode = u.mode /\ v.filter = u.filter /\ v.rows = u.rows
  /\ v.offset = u.offset /\ v.total = u.total /\ v.tabs = u.tabs /\ v.failed = u.failed

LEMMA ButView ==
  ASSUME NEW u, NEW v, NEW F, DOMAIN u = UiFields, But(u, v, F), F \cap ViewFields = {}
  PROVE  SameView(u, v)
BY DEF But, UiFields, ViewFields, SameView

SameLive(c, d) ==
  c.kind \in {"list", "search"} => d.live = c.live

(* The calls stay what they are, and those that are waited for still are.  *)
AllReading(s, t) ==
  /\ AllSofter(s, t)
  /\ \A k \in DOMAIN s.asked : SameLive(s.asked[k], t.asked[k])
  /\ \A k \in DOMAIN s.inbox : SameLive(s.inbox[k], t.inbox[k])

LEMMA SofterKind ==
  ASSUME NEW s, Calls(s), NEW t, AllSofter(s, t)
  PROVE  /\ DOMAIN t.asked = DOMAIN s.asked /\ DOMAIN t.inbox = DOMAIN s.inbox
         /\ Len(t.inbox) = Len(s.inbox) /\ Len(s.inbox) \in Nat
         /\ DOMAIN s.inbox = 1 .. Len(s.inbox)
         /\ \A k \in DOMAIN s.asked : /\ t.asked[k].kind = s.asked[k].kind
                                      /\ \A K : Live(t.asked[k], K) => Live(s.asked[k], K)
         /\ \A k \in DOMAIN s.inbox : /\ t.inbox[k].kind = s.inbox[k].kind
                                      /\ \A K : Live(t.inbox[k], K) => Live(s.inbox[k], K)
<1>1. /\ \A k \in DOMAIN s.asked : Carries(s.asked[k], {"kind"})
      /\ \A k \in DOMAIN s.inbox : Carries(s.inbox[k], {"kind"})
  BY AllMarked DEF Marked, Carries
<1>2. IsSeq(s.inbox) /\ IsSeq(t.inbox)
  BY DEF Calls, AllSofter
<1>3. /\ DOMAIN s.inbox = 1 .. Len(s.inbox) /\ Len(s.inbox) \in Nat
      /\ DOMAIN t.inbox = 1 .. Len(t.inbox) /\ Len(t.inbox) \in Nat
  BY <1>2, SeqIs
<1>4. DOMAIN t.asked = DOMAIN s.asked /\ DOMAIN t.inbox = DOMAIN s.inbox
  BY DEF AllSofter
<1>5. Len(t.inbox) = Len(s.inbox)
  BY <1>3, <1>4, SameLen
<1>6. \A k \in DOMAIN s.asked : /\ t.asked[k].kind = s.asked[k].kind
                                /\ \A K : Live(t.asked[k], K) => Live(s.asked[k], K)
  BY <1>1, SofterOK DEF AllSofter
<1>7. \A k \in DOMAIN s.inbox : /\ t.inbox[k].kind = s.inbox[k].kind
                                /\ \A K : Live(t.inbox[k], K) => Live(s.inbox[k], K)
  BY <1>1, SofterOK DEF AllSofter
<1> QED BY <1>3, <1>4, <1>5, <1>6, <1>7

LEMMA StillSame ==
  ASSUME NEW s, Calls(s), NEW t, AllSofter(s, t), NEW i \in Nat \ {0}, NEW j \in Nat, j <= Len(s.inbox)
  PROVE  Still(t.inbox, i, j) <=> Still(s.inbox, i, j)
<1>1. \A k \in i .. j : k \in DOMAIN s.inbox
  BY SofterKind
<1>2. \A k \in i .. j : t.inbox[k].kind = s.inbox[k].kind
  BY <1>1, SofterKind
<1> QED BY <1>2 DEF Still

LEMMA ViewStays ==
  ASSUME NEW s, Calls(s), NEW t, AllSofter(s, t), SameView(s.ui, t.ui), NEW l, NEW tabs, NEW h,
         View(s, l, tabs, h),
         \/ t.ui.preview = None /\ NoneLive(t, {"preview"})
         \/ /\ t.ui.sel = s.ui.sel /\ t.ui.revealed = s.ui.revealed
            /\ t.ui.preview \in {None, s.ui.preview}
  PROVE  View(t, l, tabs, h)
<1> SUFFICES ASSUME t.ui.active PROVE View(t, l, tabs, h)
  BY DEF View
<1>1. /\ l \in Seq(ListRows) /\ Distinct(l)
      /\ t.ui.rows # <<>> => Shows(t.ui, l)
      /\ t.ui.rows # <<>> /\ t.ui.mode = "recent" => t.ui.total = Len(l) /\ t.ui.tabs = tabs
  BY DEF View, SameView, Shows
<1>2. CASE t.ui.preview = None /\ NoneLive(t, {"preview"})
  BY <1>1, <1>2 DEF View, NoneLive
<1>3. CASE /\ t.ui.sel = s.ui.sel /\ t.ui.revealed = s.ui.revealed
           /\ t.ui.preview \in {None, s.ui.preview}
  <2>1. \A id : Opened(id, s.ui, l, h) => Opened(id, t.ui, l, h)
    BY <1>3 DEF Opened
  <2>2. ASSUME NEW k \in DOMAIN t.asked, Live(t.asked[k], {"preview"})
        PROVE  Opened(t.asked[k].id, t.ui, l, h)
    <3>1. k \in DOMAIN s.asked /\ Live(s.asked[k], {"preview"}) /\ Softer(s.asked[k], t.asked[k])
      BY <2>2, SofterKind DEF AllSofter
    <3>2. "id" \in DOMAIN s.asked[k]
      BY <3>1 DEF Calls, CallOK, Carries, Live
    <3>3. t.asked[k].id = s.asked[k].id
      BY <3>1, <3>2 DEF Softer
    <3>4. Opened(s.asked[k].id, s.ui, l, h)
      BY <3>1 DEF View, SameView
    <3> QED BY <2>1, <3>3, <3>4
  <2>3. ASSUME NEW k \in DOMAIN t.inbox, Live(t.inbox[k], {"preview"})
        PROVE  Opened(t.inbox[k].id, t.ui, l, h)
    <3>1. k \in DOMAIN s.inbox /\ Live(s.inbox[k], {"preview"}) /\ Softer(s.inbox[k], t.inbox[k])
      BY <2>3, SofterKind DEF AllSofter
    <3>2. "id" \in DOMAIN s.inbox[k]
      BY <3>1 DEF Calls, MessageOK, EventKinds, AnswerOK, CallOK, Carries, Live
    <3>3. t.inbox[k].id = s.inbox[k].id
      BY <3>1, <3>2 DEF Softer
    <3>4. Opened(s.inbox[k].id, s.ui, l, h)
      BY <3>1 DEF View, SameView
    <3> QED BY <2>1, <3>3, <3>4
  <2>4. t.ui.preview # None => Opened(t.ui.preview, t.ui, l, h)
    BY <1>3, <2>1 DEF View, SameView
  <2> QED BY <1>1, <2>2, <2>3, <2>4 DEF View
<1> QED BY <1>2, <1>3

LEMMA DueStays ==
  ASSUME NEW s, Calls(s), NEW t, AllSofter(s, t), SameView(s.ui, t.ui), NEW l, NEW tabs, NEW h,
         Due(s, l, tabs, h)
  PROVE  Due(t, l, tabs, h)
<1> SUFFICES ASSUME t.ui.active PROVE Due(t, l, tabs, h)
  BY DEF Due
<1>1. s.ui.active /\ t.ui.mode = s.ui.mode /\ t.ui.filter = s.ui.filter
  BY DEF SameView
<1>2. DOMAIN t.inbox = DOMAIN s.inbox /\ Len(t.inbox) = Len(s.inbox) /\ Len(s.inbox) \in Nat
      /\ DOMAIN s.inbox = 1 .. Len(s.inbox)
  BY SofterKind
<1>3. ASSUME NEW k \in DOMAIN s.inbox
      PROVE  /\ Still(t.inbox, 1, k) <=> Still(s.inbox, 1, k)
             /\ Still(t.inbox, k, Len(t.inbox)) <=> Still(s.inbox, k, Len(s.inbox))
  BY <1>2, StillSame
<1>4. Still(t.inbox, 1, Len(t.inbox)) <=> Still(s.inbox, 1, Len(s.inbox))
  BY <1>2, StillSame
<1>5. ASSUME NEW k \in DOMAIN s.inbox, Live(t.inbox[k], {"list"}), t.inbox[k].ok
      PROVE  /\ Live(s.inbox[k], {"list"}) /\ s.inbox[k].ok
             /\ \A f, still : PageDue(s.inbox[k], l, tabs, h, f, still)
                              => PageDue(t.inbox[k], l, tabs, h, f, still)
  <2>1. Live(s.inbox[k], {"list"}) /\ Softer(s.inbox[k], t.inbox[k])
    BY <1>5, SofterKind DEF AllSofter
  <2>2. AnswerOK(s.inbox[k]) /\ s.inbox[k].kind = "list"
    BY <2>1 DEF Calls, MessageOK, EventKinds, Live
  <2>3. t.inbox[k].ok = s.inbox[k].ok
    BY <2>1, <2>2 DEF AnswerOK, Carries, Softer
  <2>4. /\ t.inbox[k].rows = s.inbox[k].rows /\ t.inbox[k].total = s.inbox[k].total
        /\ t.inbox[k].tabs = s.inbox[k].tabs /\ t.inbox[k].asOf = s.inbox[k].asOf
    BY <1>5, <2>1, <2>2, <2>3 DEF AnswerOK, Carries, Softer
  <2>5. t.inbox[k].offset = s.inbox[k].offset /\ t.inbox[k].limit = s.inbox[k].limit
    BY <2>1, <2>2 DEF AnswerOK, CallOK, Carries, Softer
  <2> QED BY <1>5, <2>1, <2>3, <2>4, <2>5 DEF PageDue, PageOf
<1>6. ASSUME NEW k \in DOMAIN s.inbox, Live(t.inbox[k], {"search"}), t.inbox[k].ok
      PROVE  /\ Live(s.inbox[k], {"search"}) /\ s.inbox[k].ok
             /\ \A f, still : HitsDue(s.inbox[k], h, f, still) => HitsDue(t.inbox[k], h, f, still)
  <2>1. Live(s.inbox[k], {"search"}) /\ Softer(s.inbox[k], t.inbox[k])
    BY <1>6, SofterKind DEF AllSofter
  <2>2. AnswerOK(s.inbox[k]) /\ s.inbox[k].kind = "search"
    BY <2>1 DEF Calls, MessageOK, EventKinds, Live
  <2>3. t.inbox[k].ok = s.inbox[k].ok
    BY <2>1, <2>2 DEF AnswerOK, Carries, Softer
  <2>4. /\ t.inbox[k].rows = s.inbox[k].rows /\ t.inbox[k].tabs = s.inbox[k].tabs
        /\ t.inbox[k].asOf = s.inbox[k].asOf
    BY <1>6, <2>1, <2>2, <2>3 DEF AnswerOK, Carries, Softer
  <2> QED BY <1>6, <2>1, <2>3, <2>4 DEF HitsDue
<1>7. ASSUME t.ui.mode = "recent", NEW k \in DOMAIN t.inbox, Live(t.inbox[k], {"list"}),
             t.inbox[k].ok, Still(t.inbox, 1, k)
      PROVE  PageDue(t.inbox[k], l, tabs, h, t.ui.filter, Still(t.inbox, 1, Len(t.inbox)))
  <2>1. PageDue(s.inbox[k], l, tabs, h, s.ui.filter, Still(s.inbox, 1, Len(s.inbox)))
    BY <1>1, <1>2, <1>3, <1>5, <1>7 DEF Due
  <2>2. PageDue(t.inbox[k], l, tabs, h, s.ui.filter, Still(s.inbox, 1, Len(s.inbox)))
    BY <1>2, <1>5, <1>7, <2>1
  <2> QED BY <1>1, <1>4, <2>2 DEF PageDue
<1>8. ASSUME NEW k \in DOMAIN t.inbox, Live(t.inbox[k], {"search"}), t.inbox[k].ok
      PROVE  HitsDue(t.inbox[k], h, t.ui.filter, Still(t.inbox, k, Len(t.inbox)))
  <2>1. HitsDue(s.inbox[k], h, s.ui.filter, Still(s.inbox, k, Len(s.inbox)))
    BY <1>1, <1>2, <1>6, <1>8 DEF Due
  <2>2. HitsDue(t.inbox[k], h, s.ui.filter, Still(s.inbox, k, Len(s.inbox)))
    BY <1>2, <1>6, <1>8, <2>1
  <2> QED BY <1>1, <1>2, <1>3, <2>2 DEF HitsDue
<1>9. /\ Still(t.inbox, 1, Len(t.inbox)) => h.at \subseteq h.now
      /\ t.ui.mode = "recent" /\ Still(t.inbox, 1, Len(t.inbox)) =>
           l = h.listed[t.ui.filter][h.at] /\ tabs = h.tabs[h.at]
  BY <1>1, <1>4 DEF Due
<1> QED BY <1>7, <1>8, <1>9 DEF Due

LEMMA ReadingLive ==
  ASSUME NEW s, Calls(s), NEW t, AllReading(s, t), NEW K \in SUBSET {"list", "search"},
         NoneLive(t, K)
  PROVE  NoneLive(s, K)
<1>1. AllSofter(s, t)
  BY DEF AllReading
<1>2. ASSUME NEW k \in DOMAIN s.asked, Live(s.asked[k], K) PROVE FALSE
  <2>1. s.asked[k].kind \in K /\ s.asked[k].kind \in {"list", "search"} /\ s.asked[k].live
    BY <1>2 DEF Live
  <2>2. t.asked[k].live = s.asked[k].live
    BY <2>1 DEF AllReading, SameLive
  <2>3. t.asked[k].kind = s.asked[k].kind /\ k \in DOMAIN t.asked
    BY <1>1, SofterKind
  <2>4. Live(t.asked[k], K)
    BY <2>1, <2>2, <2>3 DEF Live
  <2> QED BY <2>3, <2>4 DEF NoneLive
<1>3. ASSUME NEW k \in DOMAIN s.inbox, Live(s.inbox[k], K) PROVE FALSE
  <2>1. s.inbox[k].kind \in K /\ s.inbox[k].kind \in {"list", "search"} /\ s.inbox[k].live
    BY <1>3 DEF Live
  <2>2. t.inbox[k].live = s.inbox[k].live
    BY <2>1 DEF AllReading, SameLive
  <2>3. t.inbox[k].kind = s.inbox[k].kind /\ k \in DOMAIN t.inbox
    BY <1>1, SofterKind
  <2>4. Live(t.inbox[k], K)
    BY <2>1, <2>2, <2>3 DEF Live
  <2> QED BY <2>3, <2>4 DEF NoneLive
<1> QED BY <1>2, <1>3 DEF NoneLive

LEMMA KnownStays ==
  ASSUME NEW s, Calls(s), NEW t, AllReading(s, t), SameView(s.ui, t.ui), NEW l, NEW tabs, NEW h,
         Known(s, l, tabs, h)
  PROVE  Known(t, l, tabs, h)
<1>1. /\ NoneLive(t, {"list"}) => NoneLive(s, {"list"})
      /\ NoneLive(t, {"search"}) => NoneLive(s, {"search"})
  BY ReadingLive
<1>2. Still(t.inbox, 1, Len(t.inbox)) <=> Still(s.inbox, 1, Len(s.inbox))
  <2>1. AllSofter(s, t)
    BY DEF AllReading
  <2>2. Len(t.inbox) = Len(s.inbox) /\ Len(s.inbox) \in Nat
    BY <2>1, SofterKind
  <2> QED BY <2>1, <2>2, StillSame
<1> QED BY <1>1, <1>2 DEF Known, SameView

LEMMA LooksStay ==
  ASSUME NEW s, Calls(s), NEW t, AllReading(s, t), SameView(s.ui, t.ui), NEW l, NEW tabs, NEW h,
         Looks(s, l, tabs, h),
         \/ t.ui.preview = None /\ NoneLive(t, {"preview"})
         \/ /\ t.ui.sel = s.ui.sel /\ t.ui.revealed = s.ui.revealed
            /\ t.ui.preview \in {None, s.ui.preview}
  PROVE  Looks(t, l, tabs, h)
<1>1. AllSofter(s, t)
  BY DEF AllReading
<1>2. View(t, l, tabs, h)
  BY <1>1, ViewStays DEF Looks
<1>3. Due(t, l, tabs, h)
  BY <1>1, DueStays DEF Looks
<1>4. Known(t, l, tabs, h)
  BY KnownStays DEF Looks
<1> QED BY <1>2, <1>3, <1>4 DEF Looks

(* And the window stays where it is.                                       *)
SameWindow(u, v) == v.start = u.start /\ v.height = u.height

LEMMA CoverStays ==
  ASSUME NEW s, Calls(s), NEW t, AllSofter(s, t), SameView(s.ui, t.ui), SameWindow(s.ui, t.ui),
         Cover(s)
  PROVE  Cover(t)
<1>1. /\ \A offset, limit : Spans(t, offset, limit) <=> Spans(s, offset, limit)
      /\ Placed(t.ui) <=> Placed(s.ui)
  BY DEF Spans, RangeStart, RangeEnd, SameView, SameWindow, Placed
<1>2. ASSUME NEW c, NEW d, Softer(c, d), CallOK(c), Live(d, {"list"}) => Live(c, {"list"}),
             Covers(c, s)
      PROVE  Covers(d, t)
  <2> SUFFICES ASSUME Live(d, {"list"}) PROVE Covers(d, t)
    BY DEF Covers
  <2>1. d.offset = c.offset /\ d.limit = c.limit /\ d.reload = c.reload
    BY <1>2 DEF Softer, CallOK, Carries, Live
  <2> QED BY <1>1, <1>2, <2>1 DEF Covers
<1>3. ASSUME NEW k \in DOMAIN s.asked PROVE Covers(t.asked[k], t)
  BY <1>2, SofterKind DEF AllSofter, Calls, Cover
<1>4. ASSUME NEW k \in DOMAIN s.inbox PROVE Covers(t.inbox[k], t)
  <2>1. CASE CallOK(s.inbox[k])
    BY <1>2, <2>1, SofterKind DEF AllSofter, Cover
  <2>2. CASE ~CallOK(s.inbox[k])
    <3>1. s.inbox[k].kind \in EventKinds
      BY <2>2 DEF Calls, MessageOK, AnswerOK
    <3>2. ~Live(t.inbox[k], {"list"})
      BY <3>1, SofterKind DEF Live, EventKinds
    <3> QED BY <3>2 DEF Covers
  <2> QED BY <2>1, <2>2
<1> QED BY <1>3, <1>4 DEF Cover, AllSofter

LEMMA WholeStays ==
  ASSUME NEW s, Calls(s), NEW t, AllReading(s, t), SameView(s.ui, t.ui), SameWindow(s.ui, t.ui),
         Whole(s)
  PROVE  Whole(t)
<1>1. NoneLive(t, {"list"}) => NoneLive(s, {"list"})
  BY ReadingLive
<1> QED BY <1>1 DEF Whole, Full, SameView, SameWindow

LEMMA SeenStays ==
  ASSUME NEW s, Calls(s), NEW t, AllReading(s, t), SameView(s.ui, t.ui), SameWindow(s.ui, t.ui),
         NEW l, NEW tabs, NEW h, Seen(s, l, tabs, h),
         \/ t.ui.preview = None /\ NoneLive(t, {"preview"})
         \/ /\ t.ui.sel = s.ui.sel /\ t.ui.revealed = s.ui.revealed
            /\ t.ui.preview \in {None, s.ui.preview}
  PROVE  Seen(t, l, tabs, h)
<1>1. Looks(t, l, tabs, h)
  BY LooksStay DEF Seen
<1>2. Whole(t)
  BY WholeStays DEF Seen
<1>3. Cover(t)
  BY CoverStays DEF Seen, AllReading
<1> QED BY <1>1, <1>2, <1>3 DEF Seen

-----------------------------------------------------------------------------
(* The renderer's steps.                                                   *)
LEMMA ReadingSame ==
  ASSUME NEW s, Calls(s), NEW t, t.asked = s.asked, t.inbox = s.inbox
  PROVE  AllReading(s, t)
BY BesideSame, BesideSofter DEF AllReading, SameLive

LEMMA ReadingBeside ==
  ASSUME NEW s, NEW t, AllBeside(s, t)
  PROVE  AllReading(s, t)
BY BesideSofter DEF AllReading, SameLive, AllBeside, Beside

LEMMA ReadingStale ==
  ASSUME NEW s, Calls(s), NEW t, AllSofter(s, t), NEW K, K \cap {"list", "search"} = {},
         \A k \in DOMAIN s.asked : t.asked[k] = Stale(s.asked[k], K),
         \A k \in DOMAIN s.inbox : t.inbox[k] = Stale(s.inbox[k], K)
  PROVE  AllReading(s, t)
<1>1. \A c : c.kind \in {"list", "search"} => Stale(c, K) = c
  BY DEF Stale
<1> QED BY <1>1 DEF AllReading, SameLive

LEMMA DoneSeen ==
  ASSUME NEW s, Base(s), NEW l, NEW tabs, NEW h, Seen(s, l, tabs, h), NEW W
  PROVE  Seen(Done(s, W), l, tabs, h)
<1> DEFINE t == Done(s, W)
<1>1. Pre(s) /\ Calls(s) /\ DOMAIN s.ui = UiFields
  BY DEF Base, Pre, UiOK
<1>2. t.asked = s.asked /\ t.inbox = s.inbox /\ But(s.ui, t.ui, {"keep", "editor"})
  BY <1>1, DoneIs
<1> HIDE DEF t
<1>3. SameView(s.ui, t.ui)
  BY <1>1, <1>2, ButView DEF ViewFields
<1>4. SameWindow(s.ui, t.ui) /\ t.ui.sel = s.ui.sel /\ t.ui.revealed = s.ui.revealed
      /\ t.ui.preview = s.ui.preview
  BY <1>1, <1>2 DEF But, UiFields, SameWindow
<1>5. AllReading(s, t)
  BY <1>1, <1>2, ReadingSame
<1>6. Seen(t, l, tabs, h)
  BY <1>1, <1>3, <1>4, <1>5, SeenStays
<1> QED BY <1>6 DEF t

LEMMA HideSeen ==
  ASSUME NEW s, Base(s), NEW l, NEW tabs, NEW h, Seen(s, l, tabs, h)
  PROVE  Seen(HidePreview(s), l, tabs, h)
<1> DEFINE t == HidePreview(s)
<1>1. Pre(s) /\ Calls(s) /\ DOMAIN s.ui = UiFields
  BY DEF Base, Pre, UiOK
<1>2. /\ Pre(t) /\ AllSofter(s, t) /\ NoneLive(t, {"preview"})
      /\ But(s.ui, t.ui, {"preview", "revealed"})
      /\ t.ui.preview = None /\ t.ui.revealed = None
      /\ \A k \in DOMAIN s.asked : t.asked[k] = Stale(s.asked[k], {"preview"})
      /\ \A k \in DOMAIN s.inbox : t.inbox[k] = Stale(s.inbox[k], {"preview"})
  BY <1>1, HidePreviewIs
<1> HIDE DEF t
<1>3. SameView(s.ui, t.ui)
  BY <1>1, <1>2, ButView DEF ViewFields
<1>4. SameWindow(s.ui, t.ui)
  BY <1>1, <1>2 DEF But, UiFields, SameWindow
<1>5. AllReading(s, t)
  BY <1>1, <1>2, ReadingStale
<1>6. Seen(t, l, tabs, h)
  BY <1>1, <1>2, <1>3, <1>4, <1>5, SeenStays
<1> QED BY <1>6 DEF t

LEMMA CloseSeen ==
  ASSUME NEW s, Base(s), NEW l, NEW tabs, NEW h, Seen(s, l, tabs, h), NEW kinds
  PROVE  Seen(CloseEditors(s, kinds), l, tabs, h)
<1> DEFINE t == CloseEditors(s, kinds)
<1>1. Pre(s) /\ Calls(s) /\ DOMAIN s.ui = UiFields
  BY DEF Base, Pre, UiOK
<1>2. AllBeside(s, t) /\ But(s.ui, t.ui, {"editor"})
  BY <1>1, CloseEditorsIs
<1> HIDE DEF t
<1>3. SameView(s.ui, t.ui)
  BY <1>1, <1>2, ButView DEF ViewFields
<1>4. SameWindow(s.ui, t.ui) /\ t.ui.sel = s.ui.sel /\ t.ui.revealed = s.ui.revealed
      /\ t.ui.preview = s.ui.preview
  BY <1>1, <1>2 DEF But, UiFields, SameWindow
<1>5. AllReading(s, t)
  BY <1>2, ReadingBeside
<1>6. Seen(t, l, tabs, h)
  BY <1>1, <1>3, <1>4, <1>5, SeenStays
<1> QED BY <1>6 DEF t

LEMMA ResetSeen ==
  ASSUME NEW s, Base(s), NEW l, NEW tabs, NEW h, Seen(s, l, tabs, h)
  PROVE  Seen(ResetRefreshSelection(s), l, tabs, h)
<1> DEFINE t == ResetRefreshSelection(s)
<1>1. Pre(s) /\ Calls(s) /\ DOMAIN s.ui = UiFields
  BY DEF Base, Pre, UiOK
<1>2. /\ IsState(t) /\ t.ui = [s.ui EXCEPT !.keep = None] /\ AllSofter(s, t) /\ Calls(t)
      /\ \A k \in DOMAIN s.asked : t.asked[k] = Unselect(s.asked[k])
      /\ \A k \in DOMAIN s.inbox : t.inbox[k] = Unselect(s.inbox[k])
  BY <1>1, ResetIs
<1> HIDE DEF t
<1>3. But(s.ui, t.ui, {"keep"})
  BY <1>1, <1>2 DEF But
<1>4. SameView(s.ui, t.ui)
  BY <1>1, <1>3, ButView DEF ViewFields
<1>5. SameWindow(s.ui, t.ui) /\ t.ui.sel = s.ui.sel /\ t.ui.revealed = s.ui.revealed
      /\ t.ui.preview = s.ui.preview
  BY <1>1, <1>3 DEF But, UiFields, SameWindow
<1>6. \A c : Unselect(c).live = c.live
  BY DEF Unselect
<1>7. AllReading(s, t)
  BY <1>2, <1>6 DEF AllReading, SameLive
<1>8. Seen(t, l, tabs, h)
  BY <1>1, <1>4, <1>5, <1>7, SeenStays
<1> QED BY <1>8 DEF t

(* One more call.                                                          *)
LEMMA AskSeen ==
  ASSUME NEW s, Base(s), NEW l, NEW tabs, NEW h, Seen(s, l, tabs, h), NEW c, CallOK(c),
         \A k \in DOMAIN s.asked : ~Clash(s.asked[k], c),
         \A k \in DOMAIN s.inbox : ~Clash(s.inbox[k], c),
         ~Live(c, {"list", "search"}),
         Live(c, {"preview"}) /\ s.ui.active => Opened(c.id, s.ui, l, h)
  PROVE  Seen(Ask(s, c), l, tabs, h)
<1> DEFINE t == Ask(s, c)
           n == Len(s.asked)
<1>1. /\ IsState(t) /\ t.ui = s.ui /\ t.inbox = s.inbox /\ Calls(t)
      /\ DOMAIN t.asked = 1 .. n + 1 /\ DOMAIN s.asked = 1 .. n
      /\ n \in Nat
      /\ \A k \in DOMAIN s.asked : t.asked[k] = s.asked[k]
      /\ t.asked[n + 1] = c
  BY AskIs DEF Base
<1> HIDE DEF t, n
<1>2. \A k \in DOMAIN t.asked : k \in DOMAIN s.asked \/ k = n + 1
  BY <1>1
<1>3. ~Live(c, {"list"}) /\ ~Live(c, {"search"})
  BY DEF Live
<1>4. View(t, l, tabs, h)
  BY <1>1, <1>2 DEF Seen, Looks, View
<1>5. Due(t, l, tabs, h)
  BY <1>1 DEF Seen, Looks, Due
<1>6. /\ NoneLive(t, {"list"}) => NoneLive(s, {"list"})
      /\ NoneLive(t, {"search"}) => NoneLive(s, {"search"})
  BY <1>1, <1>2 DEF NoneLive
<1>7. Known(t, l, tabs, h) /\ Whole(t)
  BY <1>1, <1>6 DEF Seen, Looks, Known, Whole
<1>8. \A d : Covers(d, s) => Covers(d, t)
  BY <1>1 DEF Covers, Spans, RangeStart, RangeEnd
<1>9. Cover(t)
  BY <1>1, <1>2, <1>3, <1>8 DEF Seen, Cover, Covers
<1> QED BY <1>4, <1>5, <1>7, <1>9 DEF Seen, Looks, t

LEMMA AskAsideSeen ==
  ASSUME NEW s, Base(s), NEW l, NEW tabs, NEW h, Seen(s, l, tabs, h), NEW c, CallOK(c),
         c.kind \notin {"list", "search", "preview"}
  PROVE  Seen(Ask(s, c), l, tabs, h)
<1>1. ~Live(c, {"list", "search"}) /\ ~Live(c, {"preview"}) /\ \A d : ~Clash(d, c)
  BY DEF Live, Clash
<1> QED BY <1>1, AskSeen

LEMMA LoadPreviewSeen ==
  ASSUME NEW s, Base(s), NEW l, NEW tabs, NEW h, Seen(s, l, tabs, h), NEW W \in SUBSET Waiters
  PROVE  Seen(LoadPreview(s, W), l, tabs, h)
<1> DEFINE o == Outdate(s, {"preview"})
           p == [o EXCEPT !.ui.preview = None]
           c == PreviewCall(s, W)
<1>1. IsState(s) /\ UiOK(s.ui) /\ Calls(s) /\ DOMAIN s.ui = UiFields
  BY DEF Base, UiOK
<1>2. /\ IsState(o) /\ o.ui = s.ui /\ AllSofter(s, o) /\ Calls(o) /\ NoneLive(o, {"preview"})
      /\ \A k \in DOMAIN s.asked : o.asked[k] = Stale(s.asked[k], {"preview"})
      /\ \A k \in DOMAIN s.inbox : o.inbox[k] = Stale(s.inbox[k], {"preview"})
  BY <1>1, OutdateIs
<1>3. \/ /\ LoadPreview(s, W) = Done(p, W)
         /\ Base(p) /\ p.asked = o.asked /\ p.inbox = o.inbox
         /\ But(s.ui, p.ui, {"preview"}) /\ p.ui.preview = None
         /\ Base(LoadPreview(s, W))
      \/ /\ s.ui.active /\ Selected(s).id \in Items /\ ~ContentHidden(s)
         /\ LoadPreview(s, W) = Ask(o, c)
         /\ CallOK(c) /\ c.id = Selected(s).id /\ c.done = W /\ ~Live(c, {"list", "search"})
         /\ \A k \in DOMAIN o.asked : ~Clash(o.asked[k], c)
         /\ \A k \in DOMAIN o.inbox : ~Clash(o.inbox[k], c)
         /\ Base(LoadPreview(s, W))
  BY LoadPreviewIs
<1>4. Base(o)
  BY BaseOutdate
<1> HIDE DEF o, p, c
<1>5. AllReading(s, o)
  BY <1>1, <1>2, ReadingStale
<1>6. CASE /\ LoadPreview(s, W) = Done(p, W)
           /\ Base(p) /\ p.asked = o.asked /\ p.inbox = o.inbox
           /\ But(s.ui, p.ui, {"preview"}) /\ p.ui.preview = None
  <2>1. SameView(s.ui, p.ui)
    BY <1>1, <1>6, ButView DEF ViewFields
  <2>2. SameWindow(s.ui, p.ui) /\ p.ui.sel = s.ui.sel /\ p.ui.revealed = s.ui.revealed
    BY <1>1, <1>6 DEF But, UiFields, SameWindow
  <2>3. AllReading(s, p)
    BY <1>5, <1>6 DEF AllReading, AllSofter
  <2>4. Seen(p, l, tabs, h)
    BY <1>1, <1>6, <2>1, <2>2, <2>3, SeenStays
  <2> QED BY <1>6, <2>4, DoneSeen
<1>7. CASE /\ s.ui.active /\ Selected(s).id \in Items /\ ~ContentHidden(s)
           /\ LoadPreview(s, W) = Ask(o, c)
           /\ CallOK(c) /\ c.id = Selected(s).id /\ ~Live(c, {"list", "search"})
           /\ \A k \in DOMAIN o.asked : ~Clash(o.asked[k], c)
           /\ \A k \in DOMAIN o.inbox : ~Clash(o.inbox[k], c)
  <2>1. Seen(o, l, tabs, h)
    BY <1>1, <1>2, <1>5, SeenStays DEF SameView, SameWindow
  <2>2. Opened(Selected(s).id, s.ui, l, h)
    <3>1. /\ Selected(s).id # None /\ s.ui.rows # <<>>
          /\ s.ui.sel - s.ui.offset + 1 \in DOMAIN s.ui.rows
          /\ Selected(s) = s.ui.rows[s.ui.sel - s.ui.offset + 1]
      BY <1>1, <1>7, SelectedIs, PaletteAssumption
    <3>2. Shows(s.ui, l) /\ l \in Seq(ListRows)
      BY <1>7, <3>1 DEF Seen, Looks, View
    <3>3. /\ s.ui.offset + (s.ui.sel - s.ui.offset + 1) = s.ui.sel + 1
          /\ DOMAIN s.ui.rows = 1 .. Len(s.ui.rows) /\ Len(s.ui.rows) \in Nat
          /\ s.ui.offset \in Nat /\ s.ui.sel \in Nat
      BY <1>1 DEF UiOK
    <3>4. s.ui.sel + 1 \in DOMAIN l
      BY <3>1, <3>2, <3>3, SMTT(30) DEF Shows
    <3>5. Selected(s) = l[s.ui.sel + 1] /\ Distinct(l)
      BY <1>7, <3>1, <3>2, <3>3 DEF Shows, Seen, Looks, View
    <3> QED BY <1>7, <3>4, <3>5 DEF Opened, ContentHidden
  <2> QED BY <1>2, <1>4, <1>7, <2>1, <2>2, AskSeen
<1> QED BY <1>3, <1>6, <1>7

LEMMA GoOnSeen ==
  ASSUME NEW s, Base(s), NEW l, NEW tabs, NEW h, Seen(s, l, tabs, h), NEW preview \in BOOLEAN,
         NEW W \in SUBSET Waiters
  PROVE  Seen(GoOn(s, preview, W), l, tabs, h)
BY LoadPreviewSeen, DoneSeen DEF GoOn

(* The view asked for anew is the list main has.                           *)
LEMMA FreshSeen ==
  ASSUME NEW t, Fresh(t), NEW h, MemoryOK(h), NEW l, l \in Seq(ListRows), Distinct(l), NEW tabs,
         t.ui.rows # <<>> => Shows(t.ui, l),
         Still(t.inbox, 1, Len(t.inbox)) => h.at \subseteq h.now
  PROVE  Sound(t, h)
<1>1. /\ t.ui.active /\ t.ui.preview = None /\ t.ui.mode \in {"recent", "search"}
      /\ t.ui.filter \in Filters
  BY DEF Fresh, Base, UiOK
<1>2. \A c : ~Live(c, Reads) => ~Live(c, {"list"}) /\ ~Live(c, {"search"}) /\ ~Live(c, {"preview"})
  BY DEF Live, Reads
<1>3. \A k \in DOMAIN t.inbox : /\ ~Live(t.inbox[k], {"list"}) /\ ~Live(t.inbox[k], {"search"})
                                /\ ~Live(t.inbox[k], {"preview"})
  BY <1>2 DEF Fresh
<1>4. \A c : Live(c, {"preview"}) => Live(c, Reads) /\ ~Live(c, {"list"}) /\ ~Live(c, {"search"})
  BY DEF Live, Reads
<1>5. \A k \in DOMAIN t.asked : ~Live(t.asked[k], {"preview"})
  BY <1>1, <1>4 DEF Fresh
<1>6. CASE t.ui.mode = "recent"
  <2> DEFINE n == h.listed[t.ui.filter][h.at]
             q == h.tabs[h.at]
  <2>1. t.ui.rows = <<>> /\ ~NoneLive(t, {"list"})
    BY <1>6 DEF Fresh, NoneLive
  <2>2. n \in Seq(ListRows) /\ Distinct(n)
    BY <1>1 DEF MemoryOK
  <2> HIDE DEF n, q
  <2>3. View(t, n, q, h)
    BY <1>1, <1>3, <1>5, <2>1, <2>2 DEF View
  <2>4. Due(t, n, q, h)
    BY <1>3 DEF Due, n, q
  <2>5. Known(t, n, q, h) /\ Whole(t)
    BY <1>6, <2>1 DEF Known, Whole
  <2>6. \A k \in DOMAIN t.asked : Live(t.asked[k], {"list"}) => Live(t.asked[k], Reads)
    BY DEF Live, Reads
  <2>7. Cover(t)
    BY <1>3, <1>6, <2>6 DEF Cover, Covers, Fresh
  <2> QED BY <2>3, <2>4, <2>5, <2>7 DEF Sound, Seen, Looks
<1>7. CASE t.ui.mode = "search"
  <2>1. ~NoneLive(t, {"search"}) /\ t.ui.mode # "recent"
    BY <1>7 DEF Fresh, NoneLive
  <2>2. \A k \in DOMAIN t.asked : ~Live(t.asked[k], {"list"})
    BY <2>1 DEF Fresh, Base, AllFit, Fits
  <2>3. View(t, l, tabs, h)
    BY <1>1, <1>3, <1>5, <2>1 DEF View
  <2>4. Due(t, l, tabs, h)
    BY <1>3, <2>1 DEF Due
  <2>5. Known(t, l, tabs, h) /\ Whole(t)
    BY <2>1 DEF Known, Whole
  <2>6. Cover(t)
    BY <1>3, <2>2 DEF Cover, Covers
  <2> QED BY <2>3, <2>4, <2>5, <2>6 DEF Sound, Seen, Looks
<1> QED BY <1>1, <1>6, <1>7

(* A list is read only while the palette shows the list.                   *)
LEMMA ListNow ==
  ASSUME NEW s, Base(s), ~NoneLive(s, {"list"})
  PROVE  s.ui.active /\ s.ui.mode = "recent"
<1>1. s.ui.mode = "recent"
  BY DEF Base, AllFit, Fits, NoneLive
<1>2. ~NoneLive(s, {"list", "search", "preview", "removeTab"})
  BY DEF NoneLive, Live
<1>3. s.ui.active
  BY <1>2 DEF Base, Quiet
<1> QED BY <1>1, <1>3

LEMMA FetchingIs ==
  ASSUME NEW s
  PROVE  /\ \A k \in DOMAIN s.asked : Live(s.asked[k], {"list"}) => s.asked[k] \in Fetching(s)
         /\ \A k \in DOMAIN s.inbox : Live(s.inbox[k], {"list"}) => s.inbox[k] \in Fetching(s)
         /\ \A c \in Fetching(s) : /\ Live(c, {"list"})
                                   /\ \/ \E k \in DOMAIN s.asked : c = s.asked[k]
                                      \/ \E k \in DOMAIN s.inbox : c = s.inbox[k]
BY DEF Fetching, InFlight, ToSet, Live

(* Two lists are never read at once.                                       *)
LEMMA OneFetching ==
  ASSUME NEW s, Calls(s), NEW c \in Fetching(s), NEW e \in Fetching(s)
  PROVE  e = c
<1>1. Live(c, {"list"}) /\ Live(e, {"list"}) /\ Clash(c, e) /\ Clash(e, c)
  BY FetchingIs DEF Clash, Live
<1>2. /\ \A i \in DOMAIN s.asked : i \in Nat
      /\ \A i \in DOMAIN s.inbox : i \in Nat
  BY SeqIs DEF Calls
<1>3. \A i, j \in DOMAIN s.asked : c = s.asked[i] /\ e = s.asked[j] => i = j
  <2> SUFFICES ASSUME NEW i \in DOMAIN s.asked, NEW j \in DOMAIN s.asked, c = s.asked[i],
                      e = s.asked[j]
               PROVE  i = j
    OBVIOUS
  <2>1. i \in Nat /\ j \in Nat
    BY <1>2
  <2>2. ~(i < j) /\ ~(j < i)
    BY <1>1 DEF Calls, Orderly
  <2> QED BY <2>1, <2>2
<1>4. \A i, j \in DOMAIN s.inbox : c = s.inbox[i] /\ e = s.inbox[j] => i = j
  <2> SUFFICES ASSUME NEW i \in DOMAIN s.inbox, NEW j \in DOMAIN s.inbox, c = s.inbox[i],
                      e = s.inbox[j]
               PROVE  i = j
    OBVIOUS
  <2>1. i \in Nat /\ j \in Nat
    BY <1>2
  <2>2. ~(i < j) /\ ~(j < i)
    BY <1>1 DEF Calls, Orderly
  <2> QED BY <2>1, <2>2
<1>5. \A i \in DOMAIN s.inbox, j \in DOMAIN s.asked :
        ~(c = s.inbox[i] /\ e = s.asked[j]) /\ ~(e = s.inbox[i] /\ c = s.asked[j])
  BY <1>1 DEF Calls, Orderly
<1>6. /\ (\E k \in DOMAIN s.asked : c = s.asked[k]) \/ (\E k \in DOMAIN s.inbox : c = s.inbox[k])
      /\ (\E k \in DOMAIN s.asked : e = s.asked[k]) \/ (\E k \in DOMAIN s.inbox : e = s.inbox[k])
  BY FetchingIs
<1> QED BY <1>3, <1>4, <1>5, <1>6

(* No row is there, and the window needs none.                             *)
LEMMA NothingNeeded ==
  ASSUME NEW s, Base(s), Placed(s.ui), s.ui.rows = <<>>, Spans(s, s.ui.offset, Len(s.ui.rows)),
         s.ui.active, s.ui.mode = "recent", NEW c \in Fetching(s)
  PROVE  Spans(s, c.offset, c.limit)
<1>1. UiOK(s.ui) /\ Len(s.ui.rows) = 0
  BY DEF Base
<1>2. /\ RangeStart(s) \in Nat /\ RangeEnd(s) \in Nat /\ RangeStart(s) <= RangeEnd(s)
      /\ RangeStart(s) <= s.ui.start /\ s.ui.offset \in Nat
      /\ s.ui.height \in Nat \ {0} /\ s.ui.start \in Nat /\ s.ui.total \in Nat
      /\ RangeEnd(s) >= MinOf(s.ui.total, s.ui.start + s.ui.height)
  BY <1>1, RangeIs
<1>3. RangeStart(s) >= s.ui.offset /\ RangeEnd(s) <= s.ui.offset
  BY <1>1, <1>2 DEF Spans
<1>4. s.ui.total = 0
  BY <1>2, <1>3, SMTT(30) DEF Placed, MaxOf, MinOf
<1>5. s.ui.start = 0 /\ RangeStart(s) = 0 /\ s.ui.offset = 0
  BY <1>2, <1>3, <1>4 DEF Placed, MaxOf
<1>6. RangeEnd(s) = 0
  BY <1>2, <1>3, <1>5
<1>7. Live(c, {"list"}) /\ Fits(c, s.ui) /\ CallOK(c)
  BY FetchingIs DEF Base, AllFit, Calls, MessageOK, AnswerOK, Live, EventKinds
<1>8. c.offset = 0 /\ c.limit \in Nat
  BY <1>4, <1>5, <1>7 DEF Fits, CallOK, Live
<1> QED BY <1>5, <1>6, <1>8 DEF Spans

LEMMA SpansFull ==
  ASSUME NEW s, UiOK(s.ui), Spans(s, s.ui.offset, Len(s.ui.rows))
  PROVE  Full(s.ui)
<1>1. /\ RangeStart(s) \in Nat /\ RangeEnd(s) \in Nat /\ RangeStart(s) <= s.ui.start
      /\ s.ui.height \in Nat \ {0} /\ s.ui.start \in Nat /\ s.ui.total \in Nat
      /\ RangeEnd(s) >= MinOf(s.ui.total, s.ui.start + s.ui.height) /\ s.ui.offset \in Nat
  BY RangeIs
<1>2. DOMAIN s.ui.rows = 1 .. Len(s.ui.rows) /\ Len(s.ui.rows) \in Nat
  BY DEF UiOK
<1>3. RangeStart(s) >= s.ui.offset /\ RangeEnd(s) <= s.ui.offset + Len(s.ui.rows)
  BY DEF Spans
<1>4. ASSUME NEW i \in s.ui.start .. MinOf(s.ui.total, s.ui.start + s.ui.height) - 1
      PROVE  i - s.ui.offset + 1 \in 1 .. Len(s.ui.rows)
  <2> DEFINE n == MinOf(s.ui.total, s.ui.start + s.ui.height)
  <2>1. n \in Nat
    BY <1>1 DEF MinOf
  <2>2. n <= RangeEnd(s) /\ i \in s.ui.start .. n - 1
    BY <1>1
  <2> HIDE DEF n
  <2>3. i \in Nat /\ i >= RangeStart(s) /\ i < RangeEnd(s)
    BY <1>1, <2>1, <2>2
  <2>4. i >= s.ui.offset /\ i < s.ui.offset + Len(s.ui.rows)
    BY <1>1, <1>2, <1>3, <2>3
  <2>5. i \in Nat /\ s.ui.offset \in Nat /\ Len(s.ui.rows) \in Nat
    BY <1>1, <1>2, <2>3
  <2> QED BY <2>4, <2>5
<1> QED BY <1>2, <1>4 DEF Full

(* The window has moved: nothing is known yet of its rows.                 *)
LEMMA EnsureLoadedSeen ==
  ASSUME NEW s, Base(s), Placed(s.ui), NEW l, NEW tabs, NEW h, Looks(s, l, tabs, h),
         NEW preview \in BOOLEAN, NEW W \in SUBSET Waiters
  PROVE  Seen(EnsureLoaded(s, preview, W), l, tabs, h)
<1> DEFINE t == EnsureLoaded(s, preview, W)
           o == Outdate(s, {"list", "search"})
           j == MapCalls(s, LAMBDA c : Joined(c, preview, W))
           d == ListCall(s, RangeStart(s), FALSE, None, preview, W)
<1>1. IsState(s) /\ UiOK(s.ui) /\ Calls(s) /\ DOMAIN s.ui = UiFields
  BY DEF Base, UiOK
<1>2. /\ IsState(o) /\ o.ui = s.ui /\ AllSofter(s, o) /\ Calls(o)
      /\ NoneLive(o, {"list", "search"})
      /\ \A k \in DOMAIN s.asked : o.asked[k] = Stale(s.asked[k], {"list", "search"})
      /\ \A k \in DOMAIN s.inbox : o.inbox[k] = Stale(s.inbox[k], {"list", "search"})
  BY <1>1, OutdateIs
<1>3. Base(o)
  BY BaseOutdate
<1>4. /\ IsState(j) /\ j.ui = s.ui /\ AllSofter(s, j) /\ Calls(j)
      /\ \A k \in DOMAIN s.asked : j.asked[k] = Joined(s.asked[k], preview, W)
      /\ \A k \in DOMAIN s.inbox : j.inbox[k] = Joined(s.inbox[k], preview, W)
  BY <1>1, JoinIs
<1>5. \/ /\ ~s.ui.active \/ s.ui.mode # "recent"
         /\ t = GoOn(s, preview, W)
      \/ /\ s.ui.active /\ s.ui.mode = "recent"
         /\ Spans(s, s.ui.offset, Len(s.ui.rows))
         /\ \/ /\ \E c \in Fetching(s) : ~Spans(s, c.offset, c.limit)
               /\ t = GoOn(o, preview, W)
            \/ /\ \A c \in Fetching(s) : Spans(s, c.offset, c.limit)
               /\ t = GoOn(s, preview, W)
      \/ /\ s.ui.active /\ s.ui.mode = "recent"
         /\ ~Spans(s, s.ui.offset, Len(s.ui.rows))
         /\ \/ /\ \E c \in Fetching(s) : Spans(s, c.offset, c.limit)
               /\ t = j
            \/ /\ \A c \in Fetching(s) : ~Spans(s, c.offset, c.limit)
               /\ t = Ask(o, d) /\ CallOK(d) /\ Live(d, {"list"})
               /\ \A k \in DOMAIN o.asked : ~Clash(o.asked[k], d)
               /\ \A k \in DOMAIN o.inbox : ~Clash(o.inbox[k], d)
  BY EnsureLoadedIs
<1> HIDE DEF t, o, j
<1>6. NoneLive(o, {"list"}) /\ NoneLive(o, {"search"})
  BY <1>2 DEF NoneLive, Live
<1>7. View(o, l, tabs, h) /\ Due(o, l, tabs, h)
  BY <1>1, <1>2, ViewStays, DueStays DEF Looks, SameView
<1>8. CASE (~s.ui.active \/ s.ui.mode # "recent") /\ t = GoOn(s, preview, W)
  <2>1. NoneLive(s, {"list"})
    BY <1>8, ListNow
  <2>2. Cover(s)
    BY <2>1 DEF Cover, Covers, NoneLive
  <2>3. Whole(s)
    BY <1>8 DEF Whole
  <2>4. Seen(s, l, tabs, h)
    BY <2>2, <2>3 DEF Seen
  <2> QED BY <1>8, <2>4, GoOnSeen DEF t
<1>9. CASE /\ s.ui.active /\ s.ui.mode = "recent"
           /\ Spans(s, s.ui.offset, Len(s.ui.rows))
           /\ \E c \in Fetching(s) : ~Spans(s, c.offset, c.limit)
           /\ t = GoOn(o, preview, W)
  <2>1. s.ui.rows # <<>>
    BY <1>9, NothingNeeded
  <2>2. s.ui.total = Len(l) /\ s.ui.tabs = tabs
    BY <1>9, <2>1 DEF Looks, View
  <2>3. Known(o, l, tabs, h)
    BY <1>2, <1>9, <2>2 DEF Known
  <2>4. Full(o.ui)
    BY <1>1, <1>2, <1>9, SpansFull
  <2>5. Whole(o) /\ Cover(o)
    BY <1>6, <2>4 DEF Whole, Cover, Covers, NoneLive
  <2>6. Seen(o, l, tabs, h)
    BY <1>7, <2>3, <2>5 DEF Seen, Looks
  <2> QED BY <1>3, <1>9, <2>6, GoOnSeen DEF t
<1>10. CASE /\ s.ui.active /\ s.ui.mode = "recent"
            /\ Spans(s, s.ui.offset, Len(s.ui.rows))
            /\ \A c \in Fetching(s) : Spans(s, c.offset, c.limit)
            /\ t = GoOn(s, preview, W)
  <2>1. Full(s.ui)
    BY <1>1, <1>10, SpansFull
  <2>2. Whole(s) /\ Cover(s)
    BY <1>10, <2>1, FetchingIs DEF Whole, Cover, Covers
  <2>3. Seen(s, l, tabs, h)
    BY <2>2 DEF Seen
  <2> QED BY <1>10, <2>3, GoOnSeen DEF t
<1>11. CASE /\ s.ui.active /\ s.ui.mode = "recent"
            /\ \E c \in Fetching(s) : Spans(s, c.offset, c.limit)
            /\ t = j
  <2>1. PICK c \in Fetching(s) : Spans(s, c.offset, c.limit)
    BY <1>11
  <2>2. \A e : Joined(e, preview, W).live = e.live
    BY DEF Joined
  <2>3. AllReading(s, j)
    BY <1>4, <2>2 DEF AllReading, SameLive
  <2>4. Looks(j, l, tabs, h)
    BY <1>1, <1>4, <2>3, LooksStay DEF SameView
  <2>5. ~NoneLive(s, {"list"})
    BY FetchingIs DEF NoneLive
  <2>6. ~NoneLive(j, {"list"})
    BY <1>1, <2>3, <2>5, ReadingLive
  <2>7. Whole(j)
    BY <2>6 DEF Whole
  <2>8. \A e \in Fetching(s) : e = c
    BY <1>1, <2>1, OneFetching
  <2>9. Cover(s)
    BY <2>1, <2>8, FetchingIs DEF Cover, Covers
  <2>10. Cover(j)
    BY <1>1, <1>4, <2>9, CoverStays DEF SameView, SameWindow
  <2> QED BY <1>11, <2>4, <2>7, <2>10 DEF Seen, t
<1>12. CASE /\ s.ui.active /\ s.ui.mode = "recent"
            /\ t = Ask(o, d) /\ CallOK(d) /\ Live(d, {"list"})
            /\ \A k \in DOMAIN o.asked : ~Clash(o.asked[k], d)
            /\ \A k \in DOMAIN o.inbox : ~Clash(o.inbox[k], d)
  <2> DEFINE n == Len(o.asked)
             r == Ask(o, d)
  <2>0. /\ IsState(r) /\ r.ui = o.ui /\ r.inbox = o.inbox /\ Calls(r)
        /\ r.asked = Append(o.asked, d)
        /\ DOMAIN r.asked = 1 .. n + 1 /\ DOMAIN o.asked = 1 .. n
        /\ n \in Nat
        /\ \A k \in DOMAIN o.asked : r.asked[k] = o.asked[k]
        /\ r.asked[n + 1] = d
        /\ \A K : ~Live(d, K) /\ NoneLive(o, K) => NoneLive(r, K)
    <3> HIDE DEF d
    <3> QED BY <1>2, <1>12, AskIs
  <2> HIDE DEF n, r
  <2>1. /\ IsState(t) /\ t.ui = o.ui /\ t.inbox = o.inbox
        /\ DOMAIN t.asked = 1 .. n + 1 /\ DOMAIN o.asked = 1 .. n
        /\ n \in Nat
        /\ \A k \in DOMAIN o.asked : t.asked[k] = o.asked[k]
        /\ t.asked[n + 1] = d
    BY <1>12, <2>0 DEF r
  <2>2. \A k \in DOMAIN t.asked : k \in DOMAIN o.asked \/ k = n + 1
    BY <2>1
  <2>3. ~Live(d, {"preview"}) /\ d.offset = RangeStart(s) /\ d.limit \in Nat
        /\ d.limit >= s.ui.height + 2 * Overscan
    <3>1. RangeStart(s) \in Nat /\ None \in Some /\ FALSE \in BOOLEAN
      BY <1>1, RangeIs DEF Some
    <3>2. /\ CallOK(d) /\ Live(d, {"list"}) /\ Live(d, {"list", "search"})
          /\ ~Live(d, {"preview"}) /\ ~Live(d, {"search"})
          /\ d.limit \in Nat /\ d.limit >= FetchSpan /\ d.limit >= s.ui.height + 2 * Overscan
      BY <1>1, <3>1, ListCallIs
    <3>3. d.offset = RangeStart(s)
      BY DEF ListCall
    <3> QED BY <3>2, <3>3
  <2> HIDE DEF d
  <2>4. View(t, l, tabs, h)
    BY <1>7, <2>1, <2>2, <2>3 DEF View
  <2>5. Due(t, l, tabs, h)
    BY <1>7, <2>1 DEF Due
  <2>6. ~NoneLive(t, {"list"})
    BY <1>12, <2>1 DEF NoneLive
  <2>7. Known(t, l, tabs, h) /\ Whole(t)
    BY <1>2, <1>12, <2>1, <2>6 DEF Known, Whole
  <2>8. Spans(s, d.offset, d.limit)
    BY <1>1, <2>3, SpansAll
  <2>9. Spans(t, d.offset, d.limit) /\ Placed(t.ui)
    BY <1>2, <2>1, <2>8 DEF Spans, RangeStart, RangeEnd
  <2>10. Cover(t)
    BY <1>6, <2>1, <2>2, <2>9 DEF Cover, Covers, NoneLive
  <2> QED BY <2>4, <2>5, <2>7, <2>10 DEF Seen, Looks, t
<1> QED BY <1>5, <1>8, <1>9, <1>10, <1>11, <1>12

-----------------------------------------------------------------------------
(* What the user does.                                                     *)
Fine(s, h) == Base(s) /\ Sound(s, h)

LEMMA InactiveFine ==
  ASSUME NEW s, Base(s), ~s.ui.active, NEW h
  PROVE  Fine(s, h)
<1>1. NoneLive(s, {"list"})
  BY DEF Base, Quiet, NoneLive, Live
<1>2. Seen(s, <<>>, {}, h)
  BY <1>1 DEF Seen, Looks, View, Due, Known, Whole, Cover, Covers, NoneLive
<1> QED BY <1>2 DEF Fine, Sound

LEMMA FineSame ==
  ASSUME NEW s, NEW h, Fine(s, h), NEW t, IsState(t), t.ui = s.ui, t.asked = s.asked,
         t.inbox = s.inbox
  PROVE  Fine(t, h)
<1>1. Base(t)
  BY BaseSame DEF Fine
<1>2. AllReading(s, t) /\ Calls(s)
  BY ReadingSame DEF Fine, Base
<1>3. SameView(s.ui, t.ui) /\ SameWindow(s.ui, t.ui)
  BY DEF SameView, SameWindow
<1>4. PICK l, tabs : Seen(s, l, tabs, h)
  BY DEF Fine, Sound
<1>5. Seen(t, l, tabs, h)
  BY <1>2, <1>3, <1>4, SeenStays
<1> QED BY <1>1, <1>5 DEF Fine, Sound

LEMMA FineBecomes ==
  ASSUME NEW s, NEW h, Fine(s, h), Becomes(s)
  PROVE  Fine(World', h)
BY FineSame, WorldIs DEF Becomes

LEMMA FineAsk ==
  ASSUME NEW s, NEW h, Fine(s, h), NEW c, CallOK(c), c.kind \notin {"list", "search", "preview"},
         ~s.ui.active => ~Live(c, {"removeTab"})
  PROVE  Fine(Ask(s, c), h)
BY BaseAskAside, AskAsideSeen DEF Fine, Sound

LEMMA FineClose ==
  ASSUME NEW s, NEW h, Fine(s, h), NEW kinds
  PROVE  Fine(CloseEditors(s, kinds), h)
BY BaseCloseEditors, CloseSeen DEF Fine, Sound

LEMMA FineHide ==
  ASSUME NEW s, NEW h, Fine(s, h)
  PROVE  Fine(HidePreview(s), h)
BY BaseHidePreview, HideSeen DEF Fine, Sound

LEMMA FineReset ==
  ASSUME NEW s, NEW h, Fine(s, h)
  PROVE  Fine(ResetRefreshSelection(s), h)
BY BaseReset, ResetSeen DEF Fine, Sound

LEMMA FineDone ==
  ASSUME NEW s, NEW h, Fine(s, h), NEW W
  PROVE  Fine(Done(s, W), h)
BY BaseDone, DoneSeen DEF Fine, Sound

LEMMA FineLoadPreview ==
  ASSUME NEW s, NEW h, Fine(s, h), NEW W \in SUBSET Waiters
  PROVE  Fine(LoadPreview(s, W), h)
BY BaseLoadPreview, LoadPreviewSeen DEF Fine, Sound

LEMMA FineBeside ==
  ASSUME NEW s, NEW h, Fine(s, h), NEW t, Base(t), AllBeside(s, t), But(s.ui, t.ui, AsideFields)
  PROVE  Fine(t, h)
<1>1. Calls(s) /\ DOMAIN s.ui = UiFields
  BY DEF Fine, Base, UiOK
<1>2. AllReading(s, t)
  BY ReadingBeside
<1>3. SameView(s.ui, t.ui)
  BY <1>1, ButView DEF AsideFields, ViewFields
<1>4. SameWindow(s.ui, t.ui) /\ t.ui.sel = s.ui.sel /\ t.ui.revealed = s.ui.revealed
      /\ t.ui.preview = s.ui.preview
  BY <1>1 DEF But, UiFields, AsideFields, SameWindow
<1>5. PICK l, tabs : Seen(s, l, tabs, h)
  BY DEF Fine, Sound
<1>6. Seen(t, l, tabs, h)
  BY <1>1, <1>2, <1>3, <1>4, <1>5, SeenStays
<1> QED BY <1>6 DEF Fine, Sound

(* A field that is the user's own.                                         *)
LEMMA FineAside ==
  ASSUME NEW s, NEW h, Fine(s, h), NEW t, IsState(t), t.asked = s.asked, t.inbox = s.inbox,
         But(s.ui, t.ui, AsideFields), t.ui.keep \in Some, t.ui.drag \in Some,
         EditorOK(t.ui.editor), t.ui.dialog \in Tabs \cup {None},
         t.ui.removing \in Tabs \cup {None},
         ~s.ui.active => t.ui.keep = None /\ t.ui.editor.id = None
  PROVE  Fine(t, h)
<1>1. Base(t) /\ AllBeside(s, t)
  BY AsideSame DEF Fine
<1> QED BY <1>1, FineBeside

LEMMA FineFresh ==
  ASSUME NEW s, NEW h, Fine(s, h), MemoryOK(h), NEW t, Fresh(t), s.ui.active,
         t.ui.rows # <<>> => t.ui.rows = s.ui.rows /\ t.ui.offset = s.ui.offset, SameKinds(s, t)
  PROVE  Fine(t, h)
<1>1. PICK l, tabs : Seen(s, l, tabs, h)
  BY DEF Fine, Sound
<1>2. /\ l \in Seq(ListRows) /\ Distinct(l) /\ (t.ui.rows # <<>> => Shows(t.ui, l))
      /\ Still(s.inbox, 1, Len(s.inbox)) => h.at \subseteq h.now
  BY <1>1 DEF Seen, Looks, View, Due, Shows
<1>3. Still(t.inbox, 1, Len(t.inbox)) => h.at \subseteq h.now
  BY <1>2 DEF SameKinds, Still
<1>4. Sound(t, h)
  BY <1>2, <1>3, FreshSeen
<1> QED BY <1>4 DEF Fine, Fresh

(* The window or the selection moves.                                      *)
MoveFields == {"sel", "start", "height", "revealed"}

LEMMA Moved ==
  ASSUME NEW s, Base(s), NEW l, NEW tabs, NEW h, Looks(s, l, tabs, h),
         NEW t, IsState(t), t.asked = s.asked, t.inbox = s.inbox,
         But(s.ui, t.ui, MoveFields),
         t.ui.sel \in Nat, t.ui.start \in Nat, t.ui.height \in Heights, t.ui.revealed \in Some,
         ~s.ui.active => t.ui.revealed = None,
         \/ t.ui.preview = None /\ NoneLive(t, {"preview"})
         \/ t.ui.sel = s.ui.sel /\ t.ui.revealed = s.ui.revealed
  PROVE  Base(t) /\ Looks(t, l, tabs, h) /\ AllReading(s, t) /\ SameView(s.ui, t.ui)
<1>1. Calls(s) /\ UiOK(s.ui) /\ DOMAIN s.ui = UiFields
  BY DEF Base, UiOK
<1>2. DOMAIN t.ui = UiFields /\ \A x \in UiFields \ MoveFields : t.ui[x] = s.ui[x]
  BY <1>1 DEF But
<1>3. /\ t.ui.active = s.ui.active /\ t.ui.query = s.ui.query /\ t.ui.mode = s.ui.mode
      /\ t.ui.filter = s.ui.filter /\ t.ui.rows = s.ui.rows /\ t.ui.offset = s.ui.offset
      /\ t.ui.total = s.ui.total /\ t.ui.tabs = s.ui.tabs /\ t.ui.failed = s.ui.failed
      /\ t.ui.preview = s.ui.preview /\ t.ui.keep = s.ui.keep /\ t.ui.editor = s.ui.editor
      /\ t.ui.dialog = s.ui.dialog /\ t.ui.drag = s.ui.drag /\ t.ui.removing = s.ui.removing
  BY <1>2 DEF UiFields, MoveFields
<1>4. UiOK(t.ui)
  BY <1>1, <1>2, <1>3 DEF UiOK
<1>5. AllSofter(s, t) /\ AllReading(s, t)
  BY <1>1, BesideSame, BesideSofter, ReadingSame
<1>6. Calls(t)
  BY <1>1 DEF Calls, Orderly
<1>7. But(s.ui, t.ui, FreeFields)
  BY DEF But, MoveFields, FreeFields
<1>8. ~s.ui.active => /\ t.ui.preview = None /\ t.ui.revealed = None
                      /\ t.ui.keep = None /\ t.ui.editor.id = None
  BY <1>3 DEF Base, Quiet, Blank
<1>9. Base(t)
  BY <1>3, <1>4, <1>5, <1>6, <1>7, <1>8, BaseStays DEF Pre
<1>10. SameView(s.ui, t.ui)
  BY <1>3 DEF SameView
<1>11. Looks(t, l, tabs, h)
  BY <1>1, <1>3, <1>5, <1>10, LooksStay
<1> QED BY <1>5, <1>9, <1>10, <1>11

(* It does, and what the window needs is read.                             *)
LEMMA FineMoved ==
  ASSUME NEW s, NEW h, Fine(s, h),
         NEW t, IsState(t), t.asked = s.asked, t.inbox = s.inbox,
         But(s.ui, t.ui, MoveFields),
         t.ui.sel \in Nat, t.ui.start \in Nat, t.ui.height \in Heights, t.ui.revealed \in Some,
         ~s.ui.active => t.ui.revealed = None,
         \/ t.ui.preview = None /\ NoneLive(t, {"preview"})
         \/ t.ui.sel = s.ui.sel /\ t.ui.revealed = s.ui.revealed,
         NEW preview \in BOOLEAN
  PROVE  /\ SameWindow(s.ui, t.ui) => Fine(t, h)
         /\ Placed(t.ui) => Fine(EnsureLoaded(t, preview, {}), h)
<1>1. PICK l, tabs : Seen(s, l, tabs, h)
  BY DEF Fine, Sound
<1>2. Base(t) /\ Looks(t, l, tabs, h) /\ AllReading(s, t) /\ SameView(s.ui, t.ui)
  BY <1>1, Moved DEF Fine, Seen
<1>3. Calls(s) /\ t.ui.preview = s.ui.preview
  BY DEF Fine, Base, UiOK, But, UiFields, MoveFields
<1>4. ASSUME SameWindow(s.ui, t.ui)
      PROVE  Fine(t, h)
  <2>1. Seen(t, l, tabs, h)
    BY <1>1, <1>2, <1>3, <1>4, SeenStays
  <2> QED BY <1>2, <2>1 DEF Fine, Sound
<1>5. ASSUME Placed(t.ui)
      PROVE  Fine(EnsureLoaded(t, preview, {}), h)
  <2>1. Base(EnsureLoaded(t, preview, {}))
    BY <1>2, <1>5, BaseEnsureLoaded
  <2>2. Seen(EnsureLoaded(t, preview, {}), l, tabs, h)
    BY <1>2, <1>5, EnsureLoadedSeen
  <2> QED BY <2>1, <2>2 DEF Fine, Sound
<1> QED BY <1>4, <1>5

LEMMA ActIs ==
  ASSUME NEW gesture, NEW s, Act(gesture, s)
  PROVE  Becomes(s) /\ db' = db /\ named' = named
BY DEF Act

LEMMA FreeIs ==
  ASSUME NEW h, Fine(World, h)
  PROVE  /\ IsState(World) /\ UiOK(ui) /\ DOMAIN ui = UiFields /\ World.ui = ui /\ Base(World)
         /\ Pre(World) /\ Calls(World)
BY WorldIs DEF Fine, Base, Pre, UiOK

LEMMA MayType ==
  ASSUME NEW h, MemoryOK(h), Fine(World, h), NEW query \in BOOLEAN, Type(query)
  PROVE  Fine(World', h)
<1> DEFINE t == SetQuery(World, query, {})
<1>1. Becomes(t)
  BY ActIs DEF Type
<1>2. CASE ui.active
  <2>1. /\ Fresh(t) /\ t.ui.filter = World.ui.filter /\ t.ui.keep = None
        /\ t.ui.mode = "search" => t.ui.rows = World.ui.rows /\ t.ui.offset = World.ui.offset
        /\ t.ui.mode = (IF query THEN "search" ELSE "recent")
        /\ SameKinds(World, t)
    BY <1>2, FreeIs, FreshSetQuery
  <2> HIDE DEF t
  <2>2. t.ui.rows # <<>> => t.ui.rows = World.ui.rows /\ t.ui.offset = World.ui.offset
    BY <2>1 DEF Fresh
  <2>3. Fine(t, h)
    BY <1>2, <2>1, <2>2, FineFresh, FreeIs
  <2> QED BY <1>1, <2>3, FineBecomes
<1>3. CASE ~ui.active
  <2>1. t = Done(World, {})
    BY <1>3, FreeIs DEF SetQuery
  <2> QED BY <1>1, <2>1, FineDone, FineBecomes
<1> QED BY <1>2, <1>3

LEMMA NextIndexIs ==
  ASSUME NEW sel \in Nat, NEW total \in Nat, NEW key \in {"Down", "Up", "Home", "End"}
  PROVE  NextIndex(sel, key, total) \in Nat
<1>1. CASE total <= 0
  BY <1>1 DEF NextIndex
<1>2. CASE total > 0 /\ key = "Down"
  <2>1. (sel + 1) % total \in 0 .. total - 1
    BY <1>2
  <2> QED BY <1>2, <2>1 DEF NextIndex
<1>3. CASE total > 0 /\ key = "Up"
  BY <1>3 DEF NextIndex
<1>4. CASE total > 0 /\ key = "Home"
  BY <1>4 DEF NextIndex
<1>5. CASE total > 0 /\ key = "End"
  BY <1>5 DEF NextIndex
<1> QED BY <1>1, <1>2, <1>3, <1>4, <1>5

LEMMA MayMove ==
  ASSUME NEW h, Fine(World, h), NEW key \in {"Down", "Up", "Home", "End"}, MoveSelection(key)
  PROVE  Fine(World', h)
<1> DEFINE r == ResetRefreshSelection(World)
           s == HidePreview(r)
           sel == NextIndex(ui.sel, key, ui.total)
           start == WindowStartFor(sel, ui.start, ui.total, ui.height)
           t == [s EXCEPT !.ui.sel = sel, !.ui.start = start]
<1>1. Becomes(EnsureLoaded(t, TRUE, {}))
  BY ActIs DEF MoveSelection
<1>2. Fine(r, h)
  BY FineReset
<1>3. r.ui = [ui EXCEPT !.keep = None] /\ DOMAIN ui = UiFields /\ UiOK(ui)
  BY ResetIs, FreeIs
<1> HIDE DEF r
<1>4. Fine(s, h)
  BY <1>2, FineHide
<1>5. /\ Pre(s) /\ NoneLive(s, {"preview"})
      /\ But(r.ui, s.ui, {"preview", "revealed"})
      /\ s.ui.preview = None /\ s.ui.revealed = None
  BY <1>2, HidePreviewIs DEF Fine, Base, Pre
<1>6. s.ui.total = ui.total /\ s.ui.height = ui.height
  BY <1>3, <1>5 DEF But, UiFields
<1> HIDE DEF s
<1>7. ui.sel \in Nat /\ ui.total \in Nat /\ ui.start \in Nat /\ ui.height \in Nat \ {0}
  BY <1>3, PaletteAssumption DEF UiOK
<1>8. sel \in Nat
  BY <1>7, NextIndexIs
<1> HIDE DEF sel
<1>9. start \in Nat /\ start <= MaxOf(0, ui.total - ui.height)
  BY <1>7, <1>8, WindowStartIs
<1> HIDE DEF start
<1>10. IsState(t) /\ t.asked = s.asked /\ t.inbox = s.inbox
       /\ t.ui = [s.ui EXCEPT !.sel = sel, !.start = start]
  BY <1>5 DEF Pre, IsState, Carries
<1> HIDE DEF t
<1>11. UiOK(s.ui) /\ DOMAIN s.ui = UiFields
  BY <1>5 DEF Pre, UiOK
<1>12. /\ But(s.ui, t.ui, {"sel", "start"}) /\ t.ui.sel = sel /\ t.ui.start = start
       /\ t.ui.height = s.ui.height /\ t.ui.revealed = s.ui.revealed
       /\ t.ui.preview = s.ui.preview /\ t.ui.total = s.ui.total
  BY <1>10, <1>11 DEF But, UiFields
<1>13. But(s.ui, t.ui, MoveFields)
  BY <1>12 DEF But, MoveFields
<1>14. Placed(t.ui)
  BY <1>6, <1>9, <1>12 DEF Placed
<1>15. t.ui.height \in Heights /\ t.ui.revealed \in Some /\ t.ui.revealed = None
  BY <1>5, <1>11, <1>12 DEF UiOK, Some
<1>16. NoneLive(t, {"preview"}) /\ t.ui.preview = None
  BY <1>5, <1>10, <1>12 DEF NoneLive
<1>17. t.ui.sel \in Nat /\ t.ui.start \in Nat
  BY <1>8, <1>9, <1>12
<1>18. TRUE \in BOOLEAN
  OBVIOUS
<1>19. Fine(EnsureLoaded(t, TRUE, {}), h)
  BY <1>4, <1>10, <1>13, <1>14, <1>15, <1>16, <1>17, <1>18, FineMoved
<1> QED BY <1>1, <1>19, FineBecomes

(* The selected row is the list's.                                         *)
LEMMA SelectedShown ==
  ASSUME NEW s, Base(s), NEW l, NEW tabs, NEW h, View(s, l, tabs, h), Selected(s).id # None
  PROVE  s.ui.active /\ s.ui.sel + 1 \in DOMAIN l /\ Selected(s) = l[s.ui.sel + 1]
<1>1. UiOK(s.ui)
  BY DEF Base
<1>2. /\ s.ui.rows # <<>>
      /\ s.ui.sel - s.ui.offset + 1 \in DOMAIN s.ui.rows
      /\ Selected(s) = s.ui.rows[s.ui.sel - s.ui.offset + 1]
  BY <1>1, SelectedIs
<1>3. s.ui.active
  BY <1>2 DEF Base, Quiet, Blank
<1>4. Shows(s.ui, l) /\ l \in Seq(ListRows)
  BY <1>2, <1>3 DEF View
<1>5. /\ s.ui.offset + (s.ui.sel - s.ui.offset + 1) = s.ui.sel + 1
      /\ DOMAIN s.ui.rows = 1 .. Len(s.ui.rows) /\ Len(s.ui.rows) \in Nat
      /\ s.ui.offset \in Nat /\ s.ui.sel \in Nat
  BY <1>1 DEF UiOK
<1>6. s.ui.sel + 1 \in DOMAIN l
  BY <1>2, <1>4, <1>5 DEF Shows
<1>7. Selected(s) = l[s.ui.sel + 1]
  BY <1>2, <1>4, <1>5 DEF Shows
<1> QED BY <1>3, <1>6, <1>7

LEMMA FineReveal ==
  ASSUME NEW s, NEW h, Fine(s, h), Selected(s).id # None
  PROVE  Fine(RevealPreview(s), h)
<1> DEFINE t == [s EXCEPT !.ui.revealed = Selected(s).id]
<1>1. IsState(s) /\ UiOK(s.ui) /\ Calls(s) /\ DOMAIN s.ui = UiFields /\ Base(s)
  BY DEF Fine, Base, UiOK
<1>2. t.ui = [s.ui EXCEPT !.revealed = Selected(s).id] /\ IsState(t)
      /\ t.asked = s.asked /\ t.inbox = s.inbox
  BY <1>1 DEF IsState, Carries
<1> HIDE DEF t
<1>3. PICK l, tabs : Seen(s, l, tabs, h)
  BY DEF Fine, Sound
<1>4. s.ui.active /\ s.ui.sel + 1 \in DOMAIN l /\ Selected(s) = l[s.ui.sel + 1]
  BY <1>1, <1>3, SelectedShown DEF Seen, Looks
<1>5. Selected(s).id \in Some
  BY <1>1, SelectedIs
<1>6. But(s.ui, t.ui, {"revealed"}) /\ t.ui.revealed = Selected(s).id
      /\ t.ui.sel = s.ui.sel /\ t.ui.preview = s.ui.preview
  BY <1>1, <1>2 DEF But, UiFields
<1>7. /\ t.ui.active = s.ui.active /\ t.ui.query = s.ui.query /\ t.ui.mode = s.ui.mode
      /\ t.ui.filter = s.ui.filter /\ t.ui.rows = s.ui.rows /\ t.ui.offset = s.ui.offset
      /\ t.ui.total = s.ui.total /\ t.ui.tabs = s.ui.tabs /\ t.ui.failed = s.ui.failed
      /\ t.ui.start = s.ui.start /\ t.ui.height = s.ui.height
      /\ t.ui.keep = s.ui.keep /\ t.ui.editor = s.ui.editor
      /\ t.ui.dialog = s.ui.dialog /\ t.ui.drag = s.ui.drag /\ t.ui.removing = s.ui.removing
  BY <1>1, <1>6 DEF But, UiFields
<1>8. UiOK(t.ui)
  BY <1>1, <1>2, <1>5, <1>6, <1>7 DEF UiOK
<1>9. AllSofter(s, t) /\ AllReading(s, t)
  BY <1>1, <1>2, BesideSame, BesideSofter, ReadingSame
<1>10. Calls(t)
  BY <1>1, <1>2 DEF Calls, Orderly
<1>11. Base(t)
  <2>1. But(s.ui, t.ui, FreeFields)
    BY <1>6 DEF But, FreeFields
  <2> QED BY <1>1, <1>2, <1>4, <1>6, <1>8, <1>9, <1>10, <2>1, BaseStays DEF Pre
<1>12. SameView(s.ui, t.ui) /\ SameWindow(s.ui, t.ui)
  BY <1>7 DEF SameView, SameWindow
<1>13. View(t, l, tabs, h)
  <2>1. \A id : Opened(id, s.ui, l, h) => Opened(id, t.ui, l, h)
    BY <1>4, <1>6 DEF Opened
  <2>2. View(s, l, tabs, h)
    BY <1>3 DEF Seen, Looks
  <2> QED BY <1>2, <1>6, <1>7, <2>1, <2>2 DEF View, Shows
<1>14. Due(t, l, tabs, h)
  BY <1>1, <1>3, <1>9, <1>12, DueStays DEF Seen, Looks
<1>15. Known(t, l, tabs, h)
  BY <1>1, <1>3, <1>9, <1>12, KnownStays DEF Seen, Looks
<1>16. Whole(t) /\ Cover(t)
  BY <1>1, <1>3, <1>9, <1>12, WholeStays, CoverStays DEF Seen
<1>17. Fine(t, h)
  BY <1>11, <1>13, <1>14, <1>15, <1>16 DEF Fine, Sound, Seen, Looks
<1>18. Fine(LoadPreview(t, {}), h)
  BY <1>17, FineLoadPreview
<1> QED BY <1>18 DEF RevealPreview, t

LEMMA FineSelect ==
  ASSUME NEW s, NEW h, Fine(s, h), NEW k \in Nat, NoneLive(s, {"preview"}), s.ui.preview = None
  PROVE  Fine([s EXCEPT !.ui.sel = k], h)
<1> DEFINE t == [s EXCEPT !.ui.sel = k]
<1>1. IsState(s) /\ UiOK(s.ui) /\ DOMAIN s.ui = UiFields /\ Base(s)
  BY DEF Fine, Base, UiOK
<1>2. IsState(t) /\ t.asked = s.asked /\ t.inbox = s.inbox /\ t.ui = [s.ui EXCEPT !.sel = k]
  BY <1>1 DEF IsState, Carries
<1> HIDE DEF t
<1>3. /\ But(s.ui, t.ui, {"sel"}) /\ t.ui.sel = k
      /\ t.ui.height = s.ui.height /\ t.ui.revealed = s.ui.revealed
      /\ t.ui.preview = s.ui.preview /\ t.ui.start = s.ui.start
  BY <1>1, <1>2 DEF But, UiFields
<1>4. But(s.ui, t.ui, MoveFields) /\ SameWindow(s.ui, t.ui)
  BY <1>3 DEF But, MoveFields, SameWindow
<1>5. t.ui.height \in Heights /\ t.ui.revealed \in Some /\ t.ui.start \in Nat /\ t.ui.sel \in Nat
  BY <1>1, <1>3 DEF UiOK, Some
<1>6. ~s.ui.active => t.ui.revealed = None
  BY <1>1, <1>3 DEF Base, Quiet, Blank
<1>7. NoneLive(t, {"preview"}) /\ t.ui.preview = None
  BY <1>2, <1>3 DEF NoneLive
<1>8. TRUE \in BOOLEAN
  OBVIOUS
<1>9. Fine(t, h)
  BY <1>2, <1>4, <1>5, <1>6, <1>7, <1>8, FineMoved
<1> QED BY <1>9 DEF t

LEMMA VisibleNat ==
  ASSUME UiOK(ui), NEW k \in VisibleRows
  PROVE  k \in Nat
<1>1. UiOK(World.ui)
  BY WorldIs
<1>2. RangeStart(World) \in Nat /\ RangeEnd(World) \in Nat
  BY <1>1, RangeIs
<1>3. k \in RangeStart(World) .. RangeEnd(World) - 1
  BY DEF VisibleRows
<1> QED BY <1>2, <1>3

LEMMA HiddenCalls ==
  ASSUME NEW s, IsState(s)
  PROVE  LET t == HidePreview(s)
         IN  /\ t.ui = [s.ui EXCEPT !.revealed = None, !.preview = None]
             /\ t.asked = [k \in DOMAIN s.asked |-> Stale(s.asked[k], {"preview"})]
             /\ t.inbox = [k \in DOMAIN s.inbox |-> Stale(s.inbox[k], {"preview"})]
<1> DEFINE r == [s EXCEPT !.ui.revealed = None, !.ui.preview = None]
<1>1. r.asked = s.asked /\ r.inbox = s.inbox
      /\ r.ui = [s.ui EXCEPT !.revealed = None, !.preview = None]
  BY DEF IsState, Carries
<1> HIDE DEF r
<1>2. HidePreview(s) = Outdate(r, {"preview"})
  BY DEF HidePreview, r
<1> QED BY <1>1, <1>2 DEF Outdate, MapCalls

LEMMA FineReached ==
  ASSUME NEW h, Fine(World, h), NEW s \in Reached
  PROVE  Fine(s, h)
<1>1. CASE s = World
  BY <1>1
<1>2. CASE \E k \in VisibleRows : s = HidePreview([World EXCEPT !.ui.sel = k])
  <2>1. PICK k \in VisibleRows : s = HidePreview([World EXCEPT !.ui.sel = k])
    BY <1>2
  <2>2. k \in Nat /\ IsState(World) /\ UiOK(ui) /\ DOMAIN ui = UiFields /\ World.ui = ui /\ Pre(World)
    BY FreeIs, VisibleNat
  <2> DEFINE p == [World EXCEPT !.ui.sel = k]
             q == HidePreview(World)
             r == [q EXCEPT !.ui.sel = k]
  <2>3. IsState(p) /\ p.ui = [ui EXCEPT !.sel = k] /\ p.asked = World.asked /\ p.inbox = World.inbox
    BY <2>2 DEF IsState, Carries
  <2> HIDE DEF p
  <2>4. /\ s.ui = [p.ui EXCEPT !.revealed = None, !.preview = None]
        /\ s.asked = [j \in DOMAIN p.asked |-> Stale(p.asked[j], {"preview"})]
        /\ s.inbox = [j \in DOMAIN p.inbox |-> Stale(p.inbox[j], {"preview"})]
    BY <2>1, <2>3, HiddenCalls DEF p
  <2>5. /\ q.ui = [World.ui EXCEPT !.revealed = None, !.preview = None]
        /\ q.asked = [j \in DOMAIN World.asked |-> Stale(World.asked[j], {"preview"})]
        /\ q.inbox = [j \in DOMAIN World.inbox |-> Stale(World.inbox[j], {"preview"})]
    BY <2>2, HiddenCalls
  <2>6. /\ Pre(q) /\ NoneLive(q, {"preview"}) /\ q.ui.preview = None
    BY <2>2, HidePreviewIs
  <2>7. Fine(q, h)
    BY FineHide
  <2> HIDE DEF q
  <2>8. Fine(r, h)
    BY <2>2, <2>6, <2>7, FineSelect
  <2>9. IsState(q)
    BY <2>6 DEF Pre
  <2>10. r.ui = [q.ui EXCEPT !.sel = k] /\ r.asked = q.asked /\ r.inbox = q.inbox
    BY <2>9 DEF IsState, Carries
  <2> HIDE DEF r
  <2>11. r.ui = s.ui
    <3>1. r.ui = [[ui EXCEPT !.revealed = None, !.preview = None] EXCEPT !.sel = k]
      BY <2>2, <2>5, <2>10
    <3>2. s.ui = [[ui EXCEPT !.sel = k] EXCEPT !.revealed = None, !.preview = None]
      BY <2>3, <2>4
    <3> QED BY <2>2, <3>1, <3>2 DEF UiFields
  <2>12. r.asked = s.asked /\ r.inbox = s.inbox
    BY <2>3, <2>4, <2>5, <2>10
  <2>13. IsState(s)
    <3>1. \A x : IsState(HidePreview(x))
      BY SMTT(30) DEF HidePreview, Outdate, MapCalls, IsState, Carries
    <3> QED BY <2>1, <3>1
  <2> QED BY <2>8, <2>11, <2>12, <2>13, FineSame
<1> QED BY <1>1, <1>2 DEF Reached

LEMMA MayReveal ==
  ASSUME NEW h, Fine(World, h), Reveal
  PROVE  Fine(World', h)
<1>1. Selected(World).id # None /\ Becomes(RevealPreview(World))
  BY ActIs DEF Reveal
<1> QED BY <1>1, FineReveal, FineBecomes

LEMMA FineRevealPreview ==
  ASSUME NEW s, NEW h, Fine(s, h), NoneLive(s, {"preview"}), s.ui.preview = None, Selected(s).id = None
  PROVE  Fine(RevealPreview(s), h)
<1> DEFINE t == [s EXCEPT !.ui.revealed = Selected(s).id]
<1>1. IsState(s) /\ UiOK(s.ui) /\ DOMAIN s.ui = UiFields /\ Base(s)
  BY DEF Fine, Base, UiOK
<1>2. IsState(t) /\ t.asked = s.asked /\ t.inbox = s.inbox /\ t.ui = [s.ui EXCEPT !.revealed = None]
  BY <1>1 DEF IsState, Carries
<1>3. /\ But(s.ui, t.ui, {"revealed"}) /\ t.ui.sel = s.ui.sel
      /\ t.ui.height = s.ui.height /\ t.ui.revealed = None
      /\ t.ui.preview = s.ui.preview /\ t.ui.start = s.ui.start
  BY <1>1, <1>2 DEF But, UiFields
<1> HIDE DEF t
<1>4. But(s.ui, t.ui, MoveFields) /\ SameWindow(s.ui, t.ui)
  BY <1>3 DEF But, MoveFields, SameWindow
<1>5. t.ui.height \in Heights /\ t.ui.revealed \in Some /\ t.ui.start \in Nat /\ t.ui.sel \in Nat
  BY <1>1, <1>3 DEF UiOK, Some
<1>6. NoneLive(t, {"preview"}) /\ t.ui.preview = None
  BY <1>2, <1>3 DEF NoneLive
<1>7. TRUE \in BOOLEAN
  OBVIOUS
<1>8. Fine(t, h)
  BY <1>2, <1>3, <1>4, <1>5, <1>6, <1>7, FineMoved
<1>9. Fine(LoadPreview(t, {}), h)
  BY <1>8, FineLoadPreview
<1> QED BY <1>9 DEF RevealPreview, t

LEMMA MayView ==
  ASSUME NEW h, Fine(World, h), NEW k \in VisibleRows, ViewItem(k)
  PROVE  Fine(World', h)
<1> DEFINE r == ResetRefreshSelection(World)
           s == HidePreview(r)
           t == [s EXCEPT !.ui.sel = k]
<1>1. Becomes(RevealPreview(t)) /\ k \in Nat
  BY ActIs, VisibleNat, FreeIs DEF ViewItem
<1>2. Fine(r, h) /\ Fine(s, h)
  BY FineReset, FineHide
<1>3. NoneLive(s, {"preview"}) /\ s.ui.preview = None /\ Pre(s)
  BY <1>2, HidePreviewIs DEF Fine, Base, Pre
<1> HIDE DEF r, s
<1>4. Fine(t, h)
  BY <1>1, <1>2, <1>3, FineSelect
<1>5. t.asked = s.asked /\ t.inbox = s.inbox /\ t.ui = [s.ui EXCEPT !.sel = k]
  BY <1>3 DEF Pre, IsState, Carries
<1> HIDE DEF t
<1>6. NoneLive(t, {"preview"}) /\ t.ui.preview = None
  <2>1. t.ui.preview = s.ui.preview
    BY <1>3, <1>5 DEF Pre, UiOK, UiFields
  <2> QED BY <1>3, <1>5, <2>1 DEF NoneLive
<1>7. Fine(RevealPreview(t), h)
  BY <1>4, <1>6, FineReveal, FineRevealPreview
<1> QED BY <1>1, <1>7, FineBecomes

LEMMA MayHide ==
  ASSUME NEW h, Fine(World, h), HideContent
  PROVE  Fine(World', h)
<1>1. Becomes(HidePreview(World))
  BY ActIs DEF HideContent
<1> QED BY <1>1, FineHide, FineBecomes

LEMMA MayScroll ==
  ASSUME NEW h, Fine(World, h), NEW row \in Nat, SetScrollTop(row)
  PROVE  Fine(World', h)
<1> DEFINE start == MinOf(row, MaxOf(0, ui.total - ui.height))
           t == [World EXCEPT !.ui.start = start]
<1>1. Becomes(EnsureLoaded(t, FALSE, {}))
  BY ActIs DEF SetScrollTop
<1>2. IsState(World) /\ UiOK(ui) /\ DOMAIN ui = UiFields /\ World.ui = ui /\ Base(World)
  BY FreeIs
<1>3. ui.total \in Nat /\ ui.height \in Nat
  BY <1>2, PaletteAssumption DEF UiOK
<1>4. start \in Nat /\ start <= MaxOf(0, ui.total - ui.height)
  BY <1>3 DEF MinOf, MaxOf
<1> HIDE DEF start
<1>5. IsState(t) /\ t.asked = World.asked /\ t.inbox = World.inbox
      /\ t.ui = [ui EXCEPT !.start = start]
  BY <1>2 DEF IsState, Carries
<1> HIDE DEF t
<1>6. /\ But(ui, t.ui, {"start"}) /\ t.ui.start = start /\ t.ui.sel = ui.sel
      /\ t.ui.height = ui.height /\ t.ui.revealed = ui.revealed /\ t.ui.total = ui.total
  BY <1>2, <1>5 DEF But, UiFields
<1>7. But(World.ui, t.ui, MoveFields)
  BY <1>2, <1>6 DEF But, MoveFields
<1>8. Placed(t.ui)
  BY <1>4, <1>6 DEF Placed
<1>9. t.ui.sel \in Nat /\ t.ui.start \in Nat /\ t.ui.height \in Heights /\ t.ui.revealed \in Some
  BY <1>2, <1>4, <1>6 DEF UiOK
<1>10. ~World.ui.active => t.ui.revealed = None
  BY <1>2, <1>6 DEF Base, Quiet, Blank
<1>11. FALSE \in BOOLEAN
  OBVIOUS
<1>12. t.ui.sel = World.ui.sel /\ t.ui.revealed = World.ui.revealed
  BY <1>2, <1>6
<1>13. Fine(EnsureLoaded(t, FALSE, {}), h)
  BY <1>5, <1>7, <1>8, <1>9, <1>10, <1>11, <1>12, FineMoved
<1> QED BY <1>1, <1>13, FineBecomes

LEMMA MayResize ==
  ASSUME NEW h, Fine(World, h), NEW height \in Heights, SetViewportHeight(height)
  PROVE  Fine(World', h)
<1> DEFINE visibly == ui.sel >= ui.start /\ ui.sel < ui.start + ui.height
           start == IF visibly THEN WindowStartFor(ui.sel, ui.start, ui.total, height)
                    ELSE MinOf(ui.start, MaxOf(0, ui.total - height))
           t == [World EXCEPT !.ui.height = height, !.ui.start = start]
<1>1. Becomes(EnsureLoaded(t, FALSE, {}))
  BY ActIs DEF SetViewportHeight
<1>2. IsState(World) /\ UiOK(ui) /\ DOMAIN ui = UiFields /\ World.ui = ui /\ Base(World)
  BY FreeIs
<1>3. ui.total \in Nat /\ height \in Nat \ {0} /\ ui.sel \in Nat /\ ui.start \in Nat
  BY <1>2, PaletteAssumption DEF UiOK
<1>4. start \in Nat /\ start <= MaxOf(0, ui.total - height)
  <2>1. LET n == WindowStartFor(ui.sel, ui.start, ui.total, height)
        IN  n \in Nat /\ n <= MaxOf(0, ui.total - height)
    BY <1>3, WindowStartIs
  <2>2. LET n == MinOf(ui.start, MaxOf(0, ui.total - height))
        IN  n \in Nat /\ n <= MaxOf(0, ui.total - height)
    BY <1>3 DEF MinOf, MaxOf
  <2> QED BY <2>1, <2>2
<1> HIDE DEF start
<1>5. IsState(t) /\ t.asked = World.asked /\ t.inbox = World.inbox
      /\ t.ui = [ui EXCEPT !.height = height, !.start = start]
  BY <1>2 DEF IsState, Carries
<1> HIDE DEF t
<1>6. /\ But(ui, t.ui, {"start", "height"}) /\ t.ui.start = start /\ t.ui.sel = ui.sel
      /\ t.ui.height = height /\ t.ui.revealed = ui.revealed /\ t.ui.total = ui.total
  BY <1>2, <1>5 DEF But, UiFields
<1>7. But(World.ui, t.ui, MoveFields)
  BY <1>2, <1>6 DEF But, MoveFields
<1>8. Placed(t.ui)
  BY <1>4, <1>6 DEF Placed
<1>9. t.ui.sel \in Nat /\ t.ui.start \in Nat /\ t.ui.height \in Heights /\ t.ui.revealed \in Some
  BY <1>2, <1>4, <1>6 DEF UiOK
<1>10. ~World.ui.active => t.ui.revealed = None
  BY <1>2, <1>6 DEF Base, Quiet, Blank
<1>11. FALSE \in BOOLEAN
  OBVIOUS
<1>12. t.ui.sel = World.ui.sel /\ t.ui.revealed = World.ui.revealed
  BY <1>2, <1>6
<1>13. Fine(EnsureLoaded(t, FALSE, {}), h)
  BY <1>5, <1>7, <1>8, <1>9, <1>10, <1>11, <1>12, FineMoved
<1> QED BY <1>1, <1>13, FineBecomes

(* The palette is not active, and nothing of the history is in memory.     *)
LEMMA QuietBase ==
  ASSUME NEW s, Base(s), ~s.ui.active, NEW t, Pre(t), AllSofter(s, t), ~t.ui.active, Blank(t.ui)
  PROVE  Base(t)
<1>1. NoneLive(s, {"list", "search", "preview", "removeTab"}) /\ Calls(s)
  BY DEF Base, Quiet
<1>2. NoneLive(t, {"list", "search", "preview", "removeTab"})
  BY <1>1, SofterCalls
<1>3. AllFit(t)
  BY <1>2 DEF AllFit, Fits, NoneLive, Live
<1> QED BY <1>2, <1>3 DEF Pre, Base, Quiet

LEMMA MaySelectTab ==
  ASSUME NEW h, MemoryOK(h), Fine(World, h), NEW filter \in Filters, SelectTab(filter)
  PROVE  Fine(World', h)
<1> DEFINE p == [World EXCEPT !.ui.filter = filter]
           t == ReloadFilter(p)
<1>1. Becomes(t)
  BY ActIs DEF SelectTab
<1>2. /\ Pre(World) /\ DOMAIN ui = UiFields /\ World.ui = ui /\ Base(World)
  BY FreeIs
<1>3. /\ Pre(p) /\ But(ui, p.ui, {"filter"}) /\ p.ui.filter = filter
      /\ p.asked = World.asked /\ p.inbox = World.inbox
  BY <1>2, SetFilter
<1> HIDE DEF p
<1>4. /\ p.ui.active = ui.active /\ p.ui.tabs = ui.tabs /\ p.ui.failed = ui.failed
      /\ p.ui.keep = ui.keep /\ p.ui.editor = ui.editor
  BY <1>2, <1>3 DEF But, UiFields
<1>5. CASE ui.active
  <2>1. /\ Fresh(t) /\ t.ui.filter = p.ui.filter /\ t.ui.rows = <<>> /\ t.ui.keep = None
        /\ SameKinds(p, t)
    BY <1>3, <1>4, <1>5, ReloadFilterIs
  <2> HIDE DEF t
  <2>2. SameKinds(World, t)
    BY <1>3, <2>1 DEF SameKinds
  <2>3. Fine(t, h)
    BY <1>2, <1>5, <2>1, <2>2, FineFresh
  <2> QED BY <1>1, <2>3, FineBecomes
<1>6. CASE ~ui.active
  <2> DEFINE b == [p EXCEPT !.ui.sel = 0, !.ui.start = 0, !.ui.rows = <<>>, !.ui.offset = 0,
                            !.ui.total = 0]
             g == HidePreview(CloseEditors(b, {"tagging", "titling"}))
  <2>1. /\ t = SetQuery(g, p.ui.query, {})
        /\ Pre(g) /\ AllSofter(p, g) /\ NoneLive(g, {"preview"})
        /\ g.ui.active = p.ui.active /\ g.ui.filter = p.ui.filter /\ g.ui.rows = <<>>
        /\ g.ui.total = 0 /\ g.ui.tabs = p.ui.tabs /\ g.ui.failed = p.ui.failed
        /\ g.ui.preview = None /\ g.ui.revealed = None /\ g.ui.keep = p.ui.keep
        /\ g.ui.editor \in {NoEditor, p.ui.editor}
    BY <1>3, BlankedIs
  <2> HIDE DEF g, t
  <2>2. AllSofter(World, g)
    BY <1>3, <2>1 DEF AllSofter
  <2>3. Blank(g.ui)
    BY <1>2, <1>4, <1>6, <2>1 DEF Base, Quiet, Blank, NoEditor
  <2>4. Base(g)
    BY <1>2, <1>4, <1>6, <2>1, <2>2, <2>3, QuietBase
  <2>5. t = Done(g, {})
    BY <1>4, <1>6, <2>1 DEF SetQuery
  <2>6. Fine(t, h)
    BY <1>4, <1>6, <2>1, <2>4, <2>5, InactiveFine, FineDone
  <2> QED BY <1>1, <2>6, FineBecomes
<1> QED BY <1>5, <1>6

-----------------------------------------------------------------------------
(* Calls that change the history.                                          *)
LEMMA AsideCalls ==
  ASSUME NEW i \in Items
  PROVE  /\ CallOK([kind |-> "copy", live |-> TRUE, id |-> i])
         /\ CallOK([kind |-> "remove", live |-> TRUE, id |-> i])
         /\ \A b \in BOOLEAN : CallOK([kind |-> "pin", live |-> TRUE, id |-> i, pinned |-> b])
         /\ \A b \in BOOLEAN : CallOK([kind |-> "title", live |-> TRUE, id |-> i, titled |-> b])
         /\ \A live, b \in BOOLEAN, tab \in Tabs :
              CallOK([kind |-> "tag", live |-> live, id |-> i, tab |-> tab, tagged |-> b])
BY DEF CallOK, Carries, CallKinds

LEMMA TabCalls ==
  ASSUME NEW tab \in Tabs
  PROVE  /\ CallOK([kind |-> "createTab", live |-> TRUE, tab |-> tab])
         /\ \A b \in BOOLEAN : CallOK([kind |-> "removeTab", live |-> b, tab |-> tab])
         /\ CallOK([kind |-> "close", live |-> TRUE])
BY DEF CallOK, Carries, CallKinds

LEMMA FineSetPin ==
  ASSUME NEW s, NEW h, Fine(s, h), NEW row, row.id \in Items, NEW pinned \in BOOLEAN
  PROVE  Fine(SetPin(s, row, pinned), h)
<1> DEFINE c == [kind |-> "pin", live |-> TRUE, id |-> row.id, pinned |-> pinned]
<1>1. CallOK(c)
  BY AsideCalls
<1>2. c.kind \notin {"list", "search", "preview"} /\ ~Live(c, {"removeTab"})
  BY DEF Live
<1> HIDE DEF c
<1>3. Fine(Ask(s, c), h)
  BY <1>1, <1>2, FineAsk
<1> QED BY <1>3 DEF SetPin, c

LEMMA FineApplyTag ==
  ASSUME NEW s, NEW h, Fine(s, h), NEW id \in Items, NEW tab \in Tabs, NEW tagged \in BOOLEAN,
         NEW live \in BOOLEAN
  PROVE  Fine(ApplyTag(s, id, tab, tagged, live), h)
<1> DEFINE c == [kind |-> "tag", live |-> live, id |-> id, tab |-> tab, tagged |-> tagged]
<1>1. CallOK(c)
  BY AsideCalls
<1>2. c.kind \notin {"list", "search", "preview"} /\ ~Live(c, {"removeTab"})
  BY DEF Live
<1> HIDE DEF c
<1>3. Fine(Ask(s, c), h)
  BY <1>1, <1>2, FineAsk
<1> QED BY <1>3 DEF ApplyTag, c

LEMMA SelectedItem ==
  ASSUME NEW s, NEW h, Fine(s, h), Selected(s).id # None
  PROVE  Selected(s).id \in Items /\ Selected(s).pinned \in BOOLEAN /\ s.ui.active
<1>1. UiOK(s.ui) /\ Base(s)
  BY DEF Fine, Base
<1>2. /\ s.ui.rows # <<>> /\ Selected(s).id \in Items
      /\ s.ui.sel - s.ui.offset + 1 \in DOMAIN s.ui.rows
      /\ Selected(s) = s.ui.rows[s.ui.sel - s.ui.offset + 1]
  BY <1>1, SelectedIs
<1>3. Selected(s) \in ListRows
  BY <1>1, <1>2 DEF UiOK
<1>4. Selected(s).pinned \in BOOLEAN
  BY <1>3 DEF ListRows
<1> QED BY <1>1, <1>2, <1>4 DEF Base, Quiet, Blank

LEMMA MayCall ==
  ASSUME NEW h, Fine(World, h), Recall \/ TogglePin \/ RemoveSelected
  PROVE  Fine(World', h)
<1>1. ASSUME Recall PROVE Fine(World', h)
  <2>1. PICK s \in Reached : /\ Selected(s).id # None
                             /\ Becomes(Ask(s, [kind |-> "copy", live |-> TRUE, id |-> Selected(s).id]))
    BY <1>1, ActIs DEF Recall
  <2> DEFINE c == [kind |-> "copy", live |-> TRUE, id |-> Selected(s).id]
  <2>2. Fine(s, h) /\ Selected(s).id \in Items
    BY <2>1, FineReached, SelectedItem
  <2>3. CallOK(c) /\ c.kind \notin {"list", "search", "preview"} /\ ~Live(c, {"removeTab"})
    BY <2>2, AsideCalls DEF Live
  <2> HIDE DEF c
  <2>4. Fine(Ask(s, c), h)
    BY <2>2, <2>3, FineAsk
  <2> QED BY <2>1, <2>4, FineBecomes DEF c
<1>2. ASSUME TogglePin PROVE Fine(World', h)
  <2>1. PICK s \in Reached : /\ Selected(s).id # None
                             /\ Becomes(SetPin(s, Selected(s), ~Selected(s).pinned))
    BY <1>2, ActIs DEF TogglePin
  <2>2. Fine(s, h) /\ Selected(s).id \in Items /\ Selected(s).pinned \in BOOLEAN
    BY <2>1, FineReached, SelectedItem
  <2> DEFINE pinned == ~Selected(s).pinned
  <2>3. pinned \in BOOLEAN
    BY <2>2
  <2> HIDE DEF pinned
  <2>4. Fine(SetPin(s, Selected(s), pinned), h)
    BY <2>2, <2>3, FineSetPin
  <2> QED BY <2>1, <2>4, FineBecomes DEF pinned
<1>3. ASSUME RemoveSelected PROVE Fine(World', h)
  <2>1. PICK s \in Reached : /\ Selected(s).id # None
                             /\ Becomes(Ask(s, [kind |-> "remove", live |-> TRUE, id |-> Selected(s).id]))
    BY <1>3, ActIs DEF RemoveSelected
  <2> DEFINE c == [kind |-> "remove", live |-> TRUE, id |-> Selected(s).id]
  <2>2. Fine(s, h) /\ Selected(s).id \in Items
    BY <2>1, FineReached, SelectedItem
  <2>3. CallOK(c) /\ c.kind \notin {"list", "search", "preview"} /\ ~Live(c, {"removeTab"})
    BY <2>2, AsideCalls DEF Live
  <2> HIDE DEF c
  <2>4. Fine(Ask(s, c), h)
    BY <2>2, <2>3, FineAsk
  <2> QED BY <2>1, <2>4, FineBecomes DEF c
<1> QED BY <1>1, <1>2, <1>3

-----------------------------------------------------------------------------
(* The editors.                                                            *)
Editors == [kind : {"none"} \cup AllEditors, id : Some, tags : SUBSET Tabs, saving : BOOLEAN]

LEMMA NoEditorIs ==
  NoEditor \in Editors /\ NoEditor.id = None
<1>1. FALSE \in BOOLEAN
  OBVIOUS
<1> QED BY <1>1 DEF NoEditor, Editors, Some

LEMMA FineEditor ==
  ASSUME NEW s, NEW h, Fine(s, h), NEW e, EditorOK(e), ~s.ui.active => e.id = None
  PROVE  Fine([s EXCEPT !.ui.editor = e], h)
<1> DEFINE t == [s EXCEPT !.ui.editor = e]
<1>1. IsState(s) /\ UiOK(s.ui) /\ DOMAIN s.ui = UiFields /\ Base(s)
  BY DEF Fine, Base, UiOK
<1>2. IsState(t) /\ t.asked = s.asked /\ t.inbox = s.inbox /\ t.ui = [s.ui EXCEPT !.editor = e]
  BY <1>1 DEF IsState, Carries
<1> HIDE DEF t
<1>3. Base(t) /\ AllBeside(s, t) /\ But(s.ui, t.ui, {"editor"})
  BY <1>1, <1>2, SetEditor
<1>4. But(s.ui, t.ui, AsideFields)
  BY <1>3 DEF But, AsideFields
<1>5. Fine(t, h)
  BY <1>3, <1>4, FineBeside
<1> QED BY <1>5 DEF t

LEMMA FineSaving ==
  ASSUME NEW s, NEW h, Fine(s, h)
  PROVE  /\ Fine([s EXCEPT !.ui.editor.saving = TRUE], h)
         /\ [s EXCEPT !.ui.editor.saving = TRUE].ui.active = s.ui.active
<1> DEFINE t == [s EXCEPT !.ui.editor.saving = TRUE]
<1>1. Base(s) /\ DOMAIN s.ui = UiFields
  BY DEF Fine, Base, UiOK
<1>2. TRUE \in BOOLEAN
  OBVIOUS
<1>3. Base(t) /\ AllBeside(s, t) /\ But(s.ui, t.ui, {"editor"})
  BY <1>1, <1>2, NotSaving
<1> HIDE DEF t
<1>4. But(s.ui, t.ui, AsideFields) /\ t.ui.active = s.ui.active
  BY <1>1, <1>3 DEF But, AsideFields, UiFields
<1>5. Fine(t, h)
  BY <1>3, <1>4, FineBeside
<1> QED BY <1>4, <1>5 DEF t

LEMMA ClosedActive ==
  ASSUME NEW s, NEW h, Fine(s, h), NEW kinds
  PROVE  CloseEditors(s, kinds).ui.active = s.ui.active
<1> DEFINE t == CloseEditors(s, kinds)
<1>1. Pre(s) /\ DOMAIN s.ui = UiFields
  BY DEF Fine, Base, Pre, UiOK
<1>2. But(s.ui, t.ui, {"editor"})
  BY <1>1, CloseEditorsIs
<1> HIDE DEF t
<1>3. t.ui.active = s.ui.active
  BY <1>1, <1>2 DEF But, UiFields
<1> QED BY <1>3 DEF t

LEMMA MayOpen ==
  ASSUME NEW h, Fine(World, h), OpenTagging \/ OpenTitleEditing \/ OpenTabCreation \/ CancelEditor
  PROVE  Fine(World', h)
<1>1. ASSUME OpenTagging PROVE Fine(World', h)
  <2>1. PICK s \in Reached :
          /\ Selected(s).id # None
          /\ Becomes([CloseEditors(s, AllEditors) EXCEPT !.ui.editor =
                        [kind |-> "tagging", id |-> Selected(s).id, tags |-> Selected(s).tags,
                         saving |-> FALSE]])
    BY <1>1, ActIs DEF OpenTagging
  <2> DEFINE r == CloseEditors(s, AllEditors)
             e == [kind |-> "tagging", id |-> Selected(s).id, tags |-> Selected(s).tags,
                   saving |-> FALSE]
  <2>2. Fine(s, h) /\ Selected(s).id \in Items /\ s.ui.active
    BY <2>1, FineReached, SelectedItem
  <2>3. Fine(r, h) /\ r.ui.active
    BY <2>2, FineClose, ClosedActive
  <2>4. Selected(s).tags \in SUBSET Tabs
    BY <2>2, SelectedIs DEF Fine, Base
  <2>5. EditorOK(e)
    BY <2>2, <2>4, PaletteAssumption DEF EditorOK, AllEditors, Some
  <2> HIDE DEF r, e
  <2>6. Fine([r EXCEPT !.ui.editor = e], h)
    BY <2>3, <2>5, FineEditor
  <2> QED BY <2>1, <2>6, FineBecomes DEF r, e
<1>2. ASSUME OpenTitleEditing PROVE Fine(World', h)
  <2>1. PICK s \in Reached :
          /\ Selected(s).id # None
          /\ Becomes([CloseEditors(s, AllEditors) EXCEPT !.ui.editor =
                        [NoEditor EXCEPT !.kind = "titling", !.id = Selected(s).id]])
    BY <1>2, ActIs DEF OpenTitleEditing
  <2> DEFINE r == CloseEditors(s, AllEditors)
             e == [NoEditor EXCEPT !.kind = "titling", !.id = Selected(s).id]
  <2>2. Fine(s, h) /\ Selected(s).id \in Items /\ s.ui.active
    BY <2>1, FineReached, SelectedItem
  <2>3. Fine(r, h) /\ r.ui.active
    BY <2>2, FineClose, ClosedActive
  <2>4. e \in Editors /\ e.kind = "titling" /\ e.id = Selected(s).id
    BY <2>2, NoEditorIs DEF Editors, AllEditors, Some
  <2>5. EditorOK(e)
    BY <2>2, <2>4, PaletteAssumption DEF EditorOK, Editors
  <2> HIDE DEF r, e
  <2>6. Fine([r EXCEPT !.ui.editor = e], h)
    BY <2>3, <2>5, FineEditor
  <2> QED BY <2>1, <2>6, FineBecomes DEF r, e
<1>3. ASSUME OpenTabCreation PROVE Fine(World', h)
  <2> DEFINE r == CloseEditors(World, AllEditors)
             e == [NoEditor EXCEPT !.kind = "creating"]
  <2>1. Becomes([r EXCEPT !.ui.editor = e])
    BY <1>3, ActIs DEF OpenTabCreation
  <2>2. Fine(r, h)
    BY FineClose
  <2>3. e \in Editors /\ e.kind = "creating" /\ e.id = None
    BY NoEditorIs DEF Editors, AllEditors, Some
  <2>4. EditorOK(e) /\ e.id = None
    BY <2>3 DEF EditorOK, Editors
  <2> HIDE DEF r, e
  <2>5. Fine([r EXCEPT !.ui.editor = e], h)
    BY <2>2, <2>4, FineEditor
  <2> QED BY <2>1, <2>5, FineBecomes
<1>4. ASSUME CancelEditor PROVE Fine(World', h)
  <2>1. Becomes(CloseEditors(World, AllEditors))
    BY <1>4, ActIs DEF CancelEditor
  <2> QED BY <2>1, FineClose, FineBecomes
<1> QED BY <1>1, <1>2, <1>3, <1>4

LEMMA MayEdit ==
  ASSUME NEW h, Fine(World, h), NEW tab \in Tabs, ToggleTag(tab) \/ CreateTab(tab)
  PROVE  Fine(World', h)
<1> DEFINE s == [World EXCEPT !.ui.editor.saving = TRUE]
<1>1. Fine(s, h)
  BY FineSaving
<1> HIDE DEF s
<1>2. UiOK(ui)
  BY FreeIs
<1>3. ASSUME ToggleTag(tab) PROVE Fine(World', h)
  <2> DEFINE tagged == tab \notin TaggingTags
  <2>1. ui.editor.kind = "tagging" /\ Becomes(ApplyTag(s, ui.editor.id, tab, tagged, TRUE))
    BY <1>3, ActIs DEF ToggleTag, s
  <2>2. ui.editor.id \in Items
    BY <1>2, <2>1 DEF UiOK, EditorOK, Some
  <2>3. tagged \in BOOLEAN /\ TRUE \in BOOLEAN
    OBVIOUS
  <2> HIDE DEF tagged
  <2>4. \A id \in Items, b, live \in BOOLEAN : Fine(ApplyTag(s, id, tab, b, live), h)
    BY <1>1, FineApplyTag
  <2>5. Fine(ApplyTag(s, ui.editor.id, tab, tagged, TRUE), h)
    BY <2>2, <2>3, <2>4
  <2> QED BY <2>1, <2>5, FineBecomes
<1>4. ASSUME CreateTab(tab) PROVE Fine(World', h)
  <2> DEFINE c == [kind |-> "createTab", live |-> TRUE, tab |-> tab]
  <2>1. Becomes(Ask(s, c))
    BY <1>4, ActIs DEF CreateTab, s
  <2>2. CallOK(c) /\ c.kind \notin {"list", "search", "preview"} /\ ~Live(c, {"removeTab"})
    BY TabCalls DEF Live
  <2> HIDE DEF c
  <2>3. Fine(Ask(s, c), h)
    BY <1>1, <2>2, FineAsk
  <2> QED BY <2>1, <2>3, FineBecomes
<1> QED BY <1>3, <1>4

LEMMA MayCommit ==
  ASSUME NEW h, Fine(World, h), NEW titled \in BOOLEAN, CommitTitle(titled)
  PROVE  Fine(World', h)
<1> DEFINE c == [kind |-> "title", live |-> TRUE, id |-> ui.editor.id, titled |-> titled]
<1>1. ui.editor.kind = "titling" /\ Becomes(Ask(World, c))
  BY ActIs DEF CommitTitle
<1>2. ui.editor.id \in Items
  BY <1>1, FreeIs DEF UiOK, EditorOK, Some
<1>3. CallOK(c) /\ c.kind \notin {"list", "search", "preview"} /\ ~Live(c, {"removeTab"})
  BY <1>2, AsideCalls DEF Live
<1> HIDE DEF c
<1>4. Fine(Ask(World, c), h)
  BY <1>3, FineAsk
<1> QED BY <1>1, <1>4, FineBecomes

-----------------------------------------------------------------------------
(* The dialog, a drag, and closing.                                        *)
LEMMA FineDialog ==
  ASSUME NEW s, NEW h, Fine(s, h), NEW x \in Tabs \cup {None}
  PROVE  LET t == [s EXCEPT !.ui.dialog = x]
         IN  Fine(t, h) /\ t.ui.active = s.ui.active
<1> DEFINE t == [s EXCEPT !.ui.dialog = x]
<1>1. IsState(s) /\ UiOK(s.ui) /\ DOMAIN s.ui = UiFields /\ Base(s)
  BY DEF Fine, Base, UiOK
<1>2. IsState(t) /\ t.asked = s.asked /\ t.inbox = s.inbox /\ t.ui = [s.ui EXCEPT !.dialog = x]
  BY <1>1 DEF IsState, Carries
<1> HIDE DEF t
<1>3. /\ But(s.ui, t.ui, {"dialog"}) /\ t.ui.dialog = x /\ t.ui.active = s.ui.active
      /\ t.ui.keep = s.ui.keep /\ t.ui.drag = s.ui.drag /\ t.ui.editor = s.ui.editor
      /\ t.ui.removing = s.ui.removing
  BY <1>1, <1>2 DEF But, UiFields
<1>4. But(s.ui, t.ui, AsideFields)
  BY <1>3 DEF But, AsideFields
<1>5. /\ t.ui.keep \in Some /\ t.ui.drag \in Some /\ EditorOK(t.ui.editor)
      /\ t.ui.dialog \in Tabs \cup {None} /\ t.ui.removing \in Tabs \cup {None}
  BY <1>1, <1>3 DEF UiOK
<1>6. ~s.ui.active => t.ui.keep = None /\ t.ui.editor.id = None
  BY <1>1, <1>3 DEF Base, Quiet, Blank
<1>7. Fine(t, h)
  BY <1>2, <1>4, <1>5, <1>6, FineAside
<1> QED BY <1>3, <1>7 DEF t

LEMMA FineRemoving ==
  ASSUME NEW s, NEW h, Fine(s, h), NEW x \in Tabs \cup {None}
  PROVE  LET t == [s EXCEPT !.ui.removing = x]
         IN  Fine(t, h) /\ t.ui.active = s.ui.active
<1> DEFINE t == [s EXCEPT !.ui.removing = x]
<1>1. Base(s) /\ DOMAIN s.ui = UiFields
  BY DEF Fine, Base, UiOK
<1>2. Base(t) /\ AllBeside(s, t) /\ But(s.ui, t.ui, {"removing"})
  BY <1>1, SetRemoving
<1> HIDE DEF t
<1>3. But(s.ui, t.ui, AsideFields) /\ t.ui.active = s.ui.active
  BY <1>1, <1>2 DEF But, AsideFields, UiFields
<1>4. Fine(t, h)
  BY <1>2, <1>3, FineBeside
<1> QED BY <1>3, <1>4 DEF t

LEMMA FineDrag ==
  ASSUME NEW s, NEW h, Fine(s, h), NEW x \in Some
  PROVE  Fine([s EXCEPT !.ui.drag = x], h)
<1> DEFINE t == [s EXCEPT !.ui.drag = x]
<1>1. IsState(s) /\ UiOK(s.ui) /\ DOMAIN s.ui = UiFields /\ Base(s)
  BY DEF Fine, Base, UiOK
<1>2. IsState(t) /\ t.asked = s.asked /\ t.inbox = s.inbox /\ t.ui = [s.ui EXCEPT !.drag = x]
  BY <1>1 DEF IsState, Carries
<1> HIDE DEF t
<1>3. /\ But(s.ui, t.ui, {"drag"}) /\ t.ui.drag = x /\ t.ui.active = s.ui.active
      /\ t.ui.keep = s.ui.keep /\ t.ui.dialog = s.ui.dialog /\ t.ui.editor = s.ui.editor
      /\ t.ui.removing = s.ui.removing
  BY <1>1, <1>2 DEF But, UiFields
<1>4. But(s.ui, t.ui, AsideFields)
  BY <1>3 DEF But, AsideFields
<1>5. /\ t.ui.keep \in Some /\ t.ui.drag \in Some /\ EditorOK(t.ui.editor)
      /\ t.ui.dialog \in Tabs \cup {None} /\ t.ui.removing \in Tabs \cup {None}
  BY <1>1, <1>3 DEF UiOK
<1>6. ~s.ui.active => t.ui.keep = None /\ t.ui.editor.id = None
  BY <1>1, <1>3 DEF Base, Quiet, Blank
<1>7. Fine(t, h)
  BY <1>2, <1>4, <1>5, <1>6, FineAside
<1> QED BY <1>7 DEF t

LEMMA MayRequest ==
  ASSUME NEW h, Fine(World, h), NEW tab \in Tabs, RequestTabRemoval(tab)
  PROVE  Fine(World', h)
<1> DEFINE r == CloseEditors(World, AllEditors)
           t == [r EXCEPT !.ui.dialog = tab]
<1>1. Becomes(t)
  BY ActIs DEF RequestTabRemoval
<1>2. Fine(r, h)
  BY FineClose
<1> HIDE DEF r
<1>3. Fine(t, h)
  BY <1>2, FineDialog
<1> QED BY <1>1, <1>3, FineBecomes

LEMMA MayAnswerDialog ==
  ASSUME NEW h, Fine(World, h), NEW confirmed \in BOOLEAN, AnswerDialog(confirmed)
  PROVE  Fine(World', h)
<1> DEFINE s == [World EXCEPT !.ui.dialog = None]
           r == [s EXCEPT !.ui.removing = ui.dialog]
           c == [kind |-> "removeTab", live |-> ui.active, tab |-> ui.dialog]
<1>1. /\ ui.dialog # None
      /\ Becomes(Ask(r, c)) \/ Becomes(s)
  BY DEF AnswerDialog
<1>2. UiOK(ui) /\ World.ui = ui
  BY FreeIs
<1>3. Fine(s, h) /\ s.ui.active = ui.active
  BY <1>2, FineDialog
<1> HIDE DEF s
<1>4. ui.dialog \in Tabs /\ ui.active \in BOOLEAN
  BY <1>1, <1>2 DEF UiOK
<1>5. Fine(r, h) /\ r.ui.active = s.ui.active
  BY <1>3, <1>4, FineRemoving
<1> HIDE DEF r
<1>6. CallOK(c) /\ c.kind \notin {"list", "search", "preview"}
  BY <1>4, TabCalls
<1>7. ~r.ui.active => ~Live(c, {"removeTab"})
  BY <1>3, <1>5 DEF Live
<1> HIDE DEF c
<1>8. Fine(Ask(r, c), h)
  BY <1>5, <1>6, <1>7, FineAsk
<1> QED BY <1>1, <1>3, <1>8, FineBecomes

LEMMA MayDrag ==
  ASSUME NEW h, Fine(World, h), NEW k \in VisibleRows, StartDrag(k)
  PROVE  Fine(World', h)
<1> DEFINE x == RowAt(World, k).id
<1>1. Becomes([World EXCEPT !.ui.drag = x])
  BY ActIs DEF StartDrag
<1>2. k \in Nat /\ UiOK(World.ui)
  BY VisibleNat, FreeIs
<1>3. x \in Some
  BY <1>2, RowAtIs
<1> HIDE DEF x
<1>4. Fine([World EXCEPT !.ui.drag = x], h)
  BY <1>3, FineDrag
<1> QED BY <1>1, <1>4, FineBecomes

LEMMA MayDrop ==
  ASSUME NEW h, Fine(World, h), NEW filter \in Filters, DropClip(filter)
  PROVE  Fine(World', h)
<1> DEFINE s == [World EXCEPT !.ui.drag = None]
           row == [NoRow EXCEPT !.id = ui.drag]
<1>1. /\ ui.drag # None /\ filter \in {"all", "pinned"} \cup ui.tabs
      /\ Becomes(CASE filter = "pinned" -> SetPin(s, row, TRUE)
                   [] filter = "all" -> s
                   [] OTHER -> ApplyTag(s, ui.drag, filter, TRUE, FALSE))
  BY DEF DropClip
<1>2. UiOK(ui) /\ World.ui = ui
  BY FreeIs
<1>3. Fine(s, h)
  BY FineDrag DEF Some
<1>4. ui.drag \in Items /\ row.id = ui.drag
  BY <1>1, <1>2 DEF UiOK, Some, NoRow, Row
<1> HIDE DEF s, row
<1>5. CASE filter = "pinned"
  <2>1. \A b \in BOOLEAN : Fine(SetPin(s, row, b), h)
    BY <1>3, <1>4, FineSetPin
  <2>2. Fine(SetPin(s, row, TRUE), h)
    BY <2>1
  <2>3. Becomes(SetPin(s, row, TRUE))
    BY <1>1, <1>5
  <2> QED BY <2>2, <2>3, FineBecomes
<1>6. CASE filter = "all"
  <2>1. Becomes(s)
    BY <1>1, <1>6
  <2> QED BY <1>3, <2>1, FineBecomes
<1>7. CASE filter \notin {"all", "pinned"}
  <2>1. filter \in Tabs
    BY <1>1, <1>2, <1>7 DEF UiOK
  <2>2. \A tagged, live \in BOOLEAN : Fine(ApplyTag(s, ui.drag, filter, tagged, live), h)
    BY <1>3, <1>4, <2>1, FineApplyTag
  <2>3. Fine(ApplyTag(s, ui.drag, filter, TRUE, FALSE), h)
    BY <2>2
  <2>4. Becomes(ApplyTag(s, ui.drag, filter, TRUE, FALSE))
    BY <1>1, <1>7
  <2> QED BY <2>3, <2>4, FineBecomes
<1> QED BY <1>5, <1>6, <1>7

LEMMA MayClose ==
  ASSUME NEW h, Fine(World, h), Close
  PROVE  Fine(World', h)
<1> DEFINE s == Scrub(World)
           c == [kind |-> "close", live |-> TRUE]
<1>1. Becomes(Ask(s, c))
  BY ActIs DEF Close
<1>2. Base(s) /\ ~s.ui.active
  BY FreeIs, ScrubIs
<1> HIDE DEF s
<1>3. Fine(s, h)
  BY <1>2, InactiveFine
<1>4. CallOK(c) /\ c.kind \notin {"list", "search", "preview"} /\ ~Live(c, {"removeTab"})
  BY TabCalls DEF Live, CallOK, Carries, CallKinds
<1> HIDE DEF c
<1>5. Fine(Ask(s, c), h)
  BY <1>3, <1>4, FineAsk
<1> QED BY <1>1, <1>5, FineBecomes

LEMMA UserKeeps ==
  ASSUME User
  PROVE  db' = db /\ named' = named /\ expired' = expired /\ asOf' = asOf
         /\ shifted' = shifted
BY DEF User, Type, MoveSelection, Reveal, ViewItem, HideContent, SetScrollTop, SetViewportHeight,
       SelectTab, Recall, TogglePin, RemoveSelected, OpenTagging, ToggleTag, OpenTitleEditing,
       CommitTitle, OpenTabCreation, CreateTab, CancelEditor, RequestTabRemoval, AnswerDialog,
       StartDrag, DropClip, Close, Act

LEMMA UserFine ==
  ASSUME NEW h, MemoryOK(h), Fine(World, h), DbOK, User
  PROVE  Fine(World', h)
<1>1. UiOK(ui) /\ Len(db) \in Nat
  BY FreeIs DEF DbOK
<1>2. CASE \E query \in {TRUE, FALSE} : Type(query)
  BY <1>2, MayType
<1>3. CASE \E key \in {"Down", "Up", "Home", "End"} : MoveSelection(key)
  BY <1>3, MayMove
<1>4. CASE Reveal \/ HideContent \/ \E k \in VisibleRows : ViewItem(k) \/ StartDrag(k)
  BY <1>4, MayReveal, MayHide, MayView, MayDrag
<1>5. CASE \E row \in 0 .. Len(db) : SetScrollTop(row)
  BY <1>1, <1>5, MayScroll
<1>6. CASE \E height \in Heights : SetViewportHeight(height)
  BY <1>6, MayResize
<1>7. CASE \E filter \in Filters : SelectTab(filter) \/ DropClip(filter)
  BY <1>7, MaySelectTab, MayDrop
<1>8. CASE Recall \/ TogglePin \/ RemoveSelected
  BY <1>8, MayCall
<1>9. CASE OpenTagging \/ OpenTitleEditing \/ OpenTabCreation \/ CancelEditor
  BY <1>9, MayOpen
<1>10. CASE Close
  BY <1>10, MayClose
<1>11. CASE \E tab \in Tabs : ToggleTag(tab) \/ CreateTab(tab) \/ RequestTabRemoval(tab)
  BY <1>11, MayEdit, MayRequest
<1>12. CASE \E yes \in {TRUE, FALSE} : CommitTitle(yes) \/ AnswerDialog(yes)
  BY <1>12, MayCommit, MayAnswerDialog
<1> QED BY <1>2, <1>3, <1>4, <1>5, <1>6, <1>7, <1>8, <1>9, <1>10, <1>11, <1>12 DEF User

-----------------------------------------------------------------------------
(* At first the palette asks for its first page.                           *)
LEMMA FirstUiOK ==
  UiOK(FirstUi) /\ FirstUi.active /\ ~FirstUi.query
<1>1. FirstUi.height \in Heights
  BY PaletteAssumption DEF FirstUi
<1>2. DOMAIN FirstUi = UiFields
  BY DEF FirstUi, UiFields
<1>3. /\ FirstUi.active \in BOOLEAN /\ FirstUi.query \in BOOLEAN /\ FirstUi.failed \in BOOLEAN
      /\ FirstUi.active /\ ~FirstUi.query
  BY DEF FirstUi
<1>4. /\ FirstUi.mode = "recent" /\ FirstUi.filter = "all" /\ FirstUi.sel = 0 /\ FirstUi.start = 0
      /\ FirstUi.rows = <<>> /\ FirstUi.offset = 0 /\ FirstUi.total = 0 /\ FirstUi.tabs = {}
      /\ FirstUi.preview = None /\ FirstUi.revealed = None /\ FirstUi.keep = None
      /\ FirstUi.editor = NoEditor /\ FirstUi.dialog = None /\ FirstUi.drag = None
      /\ FirstUi.removing = None
  BY DEF FirstUi
<1>5. EditorOK(NoEditor)
  <2>1. NoEditor.kind = "none"
    BY DEF NoEditor
  <2> QED BY <2>1, NoEditorIs DEF EditorOK, Editors
<1>6. FirstUi.rows \in Seq(ListRows)
  BY <1>4
<1> QED BY <1>1, <1>2, <1>3, <1>4, <1>5, <1>6 DEF UiOK, Filters, Some

LEMMA FirstRowsOK ==
  LET q == [k \in DOMAIN FirstItems |->
              [Row(FirstItems[k]) EXCEPT !.titled = FirstItems[k] \in Titled]]
  IN  q \in Seq(ListRows) /\ Distinct(q)
<1> DEFINE row(k) == [Row(FirstItems[k]) EXCEPT !.titled = FirstItems[k] \in Titled]
           q == [k \in DOMAIN FirstItems |-> row(k)]
<1>1. ASSUME NEW k \in DOMAIN FirstItems
      PROVE  row(k) \in ListRows /\ row(k).id = FirstItems[k]
  <2>1. FirstItems[k] \in Items
    BY PaletteAssumption
  <2>2. Row(FirstItems[k]) \in ListRows /\ Row(FirstItems[k]).id = FirstItems[k]
    BY <2>1 DEF Row, ListRows
  <2> DEFINE b == FirstItems[k] \in Titled
  <2>3. b \in BOOLEAN
    OBVIOUS
  <2> HIDE DEF b
  <2> QED BY <2>2, <2>3 DEF ListRows, b
<1>2. DOMAIN FirstItems = 1 .. Len(FirstItems) /\ Len(FirstItems) \in Nat
  BY PaletteAssumption
<1>3. \A k \in DOMAIN q : q[k] \in ListRows /\ q[k].id = FirstItems[k]
  BY <1>1
<1> HIDE DEF row
<1>4. DOMAIN q = DOMAIN FirstItems
  OBVIOUS
<1>5. q \in [1 .. Len(FirstItems) -> ListRows]
  BY <1>2, <1>3
<1>6. q \in Seq(ListRows)
  BY <1>2, <1>5
<1>7. Distinct(q)
  BY <1>3, <1>4, PaletteAssumption DEF Distinct
<1> QED BY <1>6, <1>7 DEF row

LEMMA FirstState ==
  LET s == [ui |-> FirstUi, asked |-> <<>>, inbox |-> <<>>]
      t == Reload(s, None, {})
  IN  /\ Fresh(t) /\ t.ui.rows = <<>> /\ t.ui.filter = "all"
<1> DEFINE s == [ui |-> FirstUi, asked |-> <<>>, inbox |-> <<>>]
           t == Reload(s, None, {})
<1>1. IsState(s) /\ s.ui = FirstUi /\ s.asked = <<>> /\ s.inbox = <<>>
  BY DEF IsState, Carries
<1> HIDE DEF s
<1>2. IsSeq(<<>>) /\ DOMAIN <<>> = {}
  BY DEF IsSeq
<1>3. Calls(s)
  BY <1>1, <1>2 DEF Calls, Orderly
<1>4. Pre(s) /\ s.ui.active /\ ~s.ui.query
  BY <1>1, <1>3, FirstUiOK DEF Pre
<1>5. None \in Some /\ {} \in SUBSET Waiters
  BY DEF Some
<1>6. Fresh(t) /\ t.ui.filter = s.ui.filter /\ t.ui.rows = <<>>
  BY <1>4, <1>5, FreshReload
<1>7. s.ui.filter = "all"
  BY <1>1 DEF FirstUi
<1> QED BY <1>6, <1>7 DEF s

LEMMA TypesInit ==
  ASSUME Init
  PROVE  Types /\ \A h : MemoryOK(h) /\ h.at = {} => Fine(World, h)
<1> DEFINE s == [ui |-> FirstUi, asked |-> <<>>, inbox |-> <<>>]
           t == Reload(s, None, {})
<1>1. Fresh(t) /\ t.ui.rows = <<>>
  BY FirstState
<1>2. ui = t.ui /\ asked = t.asked /\ inbox = t.inbox
  BY DEF Init
<1> HIDE DEF t
<1>3. Base(World)
  BY <1>1, <1>2, WorldIs, BaseSame DEF Fresh
<1>4. DbOK
  BY FirstRowsOK DEF Init, DbOK
<1>5. ASSUME NEW h, MemoryOK(h), h.at = {}
      PROVE  Fine(World, h)
  <2>1. <<>> \in Seq(ListRows) /\ Distinct(<<>>)
    BY DEF Distinct
  <2>2. Sound(t, h)
    BY <1>1, <1>5, <2>1, FreshSeen
  <2> QED BY <1>1, <1>2, <2>2, WorldIs, FineSame DEF Fine, Fresh
<1>6. asOf \subseteq Secrets
  BY DEF Init
<1> QED BY <1>3, <1>4, <1>5, <1>6 DEF Types

LEMMA TypesReceive ==
  ASSUME Types, Receive
  PROVE  Types'
<1> DEFINE p == [World EXCEPT !.inbox = Tail(@)]
           m == Head(World.inbox)
           s == Handle(p, m)
<1>1. inbox # <<>> /\ Becomes(s) /\ db' = db /\ named' = named /\ expired' = expired
      /\ asOf' = CASE m.kind \in {"changed", "shown"} -> {}
                   [] m.kind \in {"list", "search"} /\ m.live /\ m.ok -> m.asOf
                   [] OTHER -> asOf
  BY DEF Receive, World
<1>2. Incoming(p, m)
  BY <1>1, PopIs, WorldIs DEF Types
<1> HIDE DEF p, m
<1>3. Base(s)
  BY <1>2, BaseHandle
<1> HIDE DEF s
<1>4. Base(World')
  BY <1>1, <1>3, WorldIs, BaseSame DEF Becomes
<1>5. asOf' \subseteq Secrets
  <2>1. m.kind \in {"list", "search"} /\ m.ok => m.asOf \subseteq Secrets
    BY <1>2 DEF Incoming, MessageOK, AnswerOK, EventKinds
  <2>2. asOf \subseteq Secrets
    BY DEF Types
  <2> QED BY <1>1, <2>1, <2>2
<1> QED BY <1>1, <1>4, <1>5 DEF Types, DbOK

LEMMA TypesUser ==
  ASSUME Types, NEW h, MemoryOK(h), Fine(World, h), User
  PROVE  Types'
<1>1. Fine(World', h)
  BY UserFine DEF Types
<1> QED BY <1>1, UserKeeps DEF Types, DbOK, Fine

-----------------------------------------------------------------------------
(* What main sends.                                                        *)
LEMMA StillMore ==
  ASSUME NEW q, NEW i \in Nat, NEW n \in Nat, NEW p, \A k \in 1 .. n : p[k] = q[k], i >= 1
  PROVE  /\ Still(p, i, n + 1) => Still(q, i, n)
         /\ \A k \in 1 .. n : Still(p, i, k) <=> Still(q, i, k)
<1>1. ASSUME Still(p, i, n + 1) PROVE Still(q, i, n)
  <2>1. \A k \in i .. n : k \in i .. n + 1 /\ k \in 1 .. n
    OBVIOUS
  <2> QED BY <1>1, <2>1 DEF Still
<1>2. ASSUME NEW k \in 1 .. n PROVE Still(p, i, k) <=> Still(q, i, k)
  <2>1. \A j \in i .. k : j \in 1 .. n
    OBVIOUS
  <2> QED BY <2>1 DEF Still
<1> QED BY <1>1, <1>2

(* What is on the way may wait: nothing of it changes but what main has.   *)
LEMMA DueLater ==
  ASSUME NEW m, NEW l, NEW tabs, NEW h, NEW f, NEW still \in BOOLEAN, NEW g, g.at = h.at,
         NEW later \in BOOLEAN, later => still /\ g = h
  PROVE  PageDue(m, l, tabs, h, f, still) => PageDue(m, l, tabs, g, f, later)
<1>1. CASE later
  BY <1>1
<1>2. CASE ~later
  BY <1>2 DEF PageDue
<1> QED BY <1>1, <1>2

(* Another message, which does not change what is known of the list; or    *)
(* the word of a change, after which what main has may be any.             *)
LEMMA SentSeen ==
  ASSUME NEW s, Base(s), s.ui.active, NEW l, NEW tabs, NEW h, Seen(s, l, tabs, h),
         NEW m, ~Live(m, {"list"}), ~Live(m, {"search"}),
         Live(m, {"preview"}) => Opened(m.id, s.ui, l, h),
         NEW t, Base(t), t.ui = s.ui, t.asked = s.asked,
         NEW n \in Nat, n = Len(s.inbox), DOMAIN s.inbox = 1 .. n, DOMAIN t.inbox = 1 .. n + 1,
         \A k \in DOMAIN s.inbox : t.inbox[k] = s.inbox[k],
         t.inbox[n + 1] = m, NEW g, g = h \/ m.kind = "changed",
         g.at = h.at, g.shifted = h.shifted
  PROVE  Seen(t, l, tabs, g)
<1>1. \A k \in DOMAIN t.inbox : k \in DOMAIN s.inbox \/ k = n + 1
  OBVIOUS
<1>2. Len(t.inbox) = n + 1
  <2>1. IsSeq(t.inbox)
    BY DEF Base, Calls
  <2>2. DOMAIN t.inbox = 1 .. Len(t.inbox) /\ Len(t.inbox) \in Nat
    BY <2>1, SeqIs
  <2> QED BY <2>2, SameLen
<1>3. \A k \in 1 .. n : t.inbox[k] = s.inbox[k]
  OBVIOUS
<1>4. ASSUME NEW k \in Nat, k >= 1
      PROVE  /\ Still(t.inbox, k, n + 1) => Still(s.inbox, k, n)
             /\ \A j \in 1 .. n : Still(t.inbox, k, j) <=> Still(s.inbox, k, j)
  BY <1>3, <1>4, StillMore
<1>5. \A k \in 1 .. n + 1 : Still(t.inbox, k, n + 1) => g = h
  <2>1. \A k \in 1 .. n + 1 : n + 1 \in k .. n + 1
    OBVIOUS
  <2> QED BY <2>1 DEF Still
<1>6. View(t, l, tabs, g)
  BY <1>1 DEF Seen, Looks, View, Opened
<1>7. Due(t, l, tabs, g)
  <2>1. /\ Still(t.inbox, 1, n + 1) \in BOOLEAN /\ Still(s.inbox, 1, n) \in BOOLEAN
        /\ \A k \in DOMAIN s.inbox : /\ Still(t.inbox, k, n + 1) \in BOOLEAN
                                     /\ Still(s.inbox, k, n) \in BOOLEAN
    BY DEF Still
  <2>2. Due(s, l, tabs, h) /\ s.ui.active
    BY DEF Seen, Looks
  <2>3. Still(t.inbox, 1, n + 1) => Still(s.inbox, 1, n) /\ g = h
    BY <1>4, <1>5
  <2>4. ASSUME t.ui.mode = "recent", NEW k \in DOMAIN t.inbox, Live(t.inbox[k], {"list"}),
               t.inbox[k].ok, Still(t.inbox, 1, k)
        PROVE  PageDue(t.inbox[k], l, tabs, g, t.ui.filter, Still(t.inbox, 1, n + 1))
    <3>1. k \in DOMAIN s.inbox /\ t.inbox[k] = s.inbox[k]
      BY <1>1, <2>4
    <3>2. Still(s.inbox, 1, k)
      BY <1>4, <2>4, <3>1
    <3>3. PageDue(t.inbox[k], l, tabs, h, t.ui.filter, Still(s.inbox, 1, n))
      BY <2>2, <2>4, <3>1, <3>2 DEF Due
    <3> QED BY <2>1, <2>3, <3>3, DueLater
  <2>5. ASSUME NEW k \in DOMAIN t.inbox, Live(t.inbox[k], {"search"}), t.inbox[k].ok
        PROVE  HitsDue(t.inbox[k], g, t.ui.filter, Still(t.inbox, k, n + 1))
    <3>1. k \in DOMAIN s.inbox /\ t.inbox[k] = s.inbox[k]
      BY <1>1, <2>5
    <3>2. HitsDue(t.inbox[k], h, t.ui.filter, Still(s.inbox, k, n))
      BY <2>2, <2>5, <3>1 DEF Due
    <3>3. Still(t.inbox, k, n + 1) => Still(s.inbox, k, n) /\ g = h
      BY <1>4, <1>5, <3>1
    <3> DEFINE still == Still(s.inbox, k, n)
               later == Still(t.inbox, k, n + 1)
    <3>4. still \in BOOLEAN /\ later \in BOOLEAN /\ (later => still /\ g = h)
          /\ HitsDue(t.inbox[k], h, t.ui.filter, still)
      BY <2>1, <3>1, <3>2, <3>3
    <3> HIDE DEF still, later
    <3>5. HitsDue(t.inbox[k], g, t.ui.filter, later)
      BY <3>4 DEF HitsDue
    <3> QED BY <3>5 DEF later
  <2>6. /\ Still(t.inbox, 1, n + 1) => g.at \subseteq g.now
        /\ t.ui.mode = "recent" /\ Still(t.inbox, 1, n + 1) =>
             l = g.listed[t.ui.filter][g.at] /\ tabs = g.tabs[g.at]
    BY <2>2, <2>3 DEF Due
  <2> QED BY <1>2, <2>4, <2>5, <2>6 DEF Due
<1>8. /\ NoneLive(t, {"list"}) => NoneLive(s, {"list"})
      /\ NoneLive(t, {"search"}) => NoneLive(s, {"search"})
  BY <1>1 DEF NoneLive
<1>9. Still(t.inbox, 1, Len(t.inbox)) => Still(s.inbox, 1, n) /\ g = h
  BY <1>2, <1>4, <1>5
<1>10. Known(t, l, tabs, g) /\ Whole(t)
  BY <1>8, <1>9 DEF Seen, Looks, Known, Whole
<1>11. \A d : Covers(d, s) => Covers(d, t)
  BY DEF Covers, Spans, RangeStart, RangeEnd
<1>12. Cover(t)
  BY <1>1, <1>11 DEF Seen, Cover, Covers
<1> QED BY <1>6, <1>7, <1>10, <1>12 DEF Seen, Looks

LEMMA FineEvent ==
  ASSUME NEW s, NEW h, Fine(s, h), NEW kind \in EventKinds, NEW g, g = h \/ kind = "changed",
         g.at = h.at, g.shifted = h.shifted
  PROVE  Fine(Sent(s, Event(kind)), g)
<1> DEFINE m == Event(kind)
           t == Sent(s, m)
           n == Len(s.inbox)
<1>1. Base(s)
  BY DEF Fine
<1>2. /\ Base(t) /\ t.ui = s.ui /\ t.asked = s.asked /\ t.inbox = Append(s.inbox, m)
      /\ DOMAIN t.inbox = 1 .. Len(s.inbox) + 1 /\ DOMAIN s.inbox = 1 .. Len(s.inbox)
      /\ Len(s.inbox) \in Nat
      /\ \A k \in DOMAIN s.inbox : t.inbox[k] = s.inbox[k]
      /\ t.inbox[Len(s.inbox) + 1] = m
  BY <1>1, SentEvent
<1>3. /\ m.kind = kind /\ ~Live(m, {"list"}) /\ ~Live(m, {"search"}) /\ ~Live(m, {"preview"})
  BY DEF Event, EventKinds, Live
<1> HIDE DEF t, m
<1>4. CASE s.ui.active
  <2>1. PICK l, tabs : Seen(s, l, tabs, h)
    BY DEF Fine, Sound
  <2>2. n \in Nat /\ n = Len(s.inbox) /\ DOMAIN s.inbox = 1 .. n /\ DOMAIN t.inbox = 1 .. n + 1
        /\ t.inbox[n + 1] = m
    BY <1>2
  <2> HIDE DEF n
  <2>3. Seen(t, l, tabs, g)
    BY <1>1, <1>2, <1>3, <1>4, <2>1, <2>2, SentSeen
  <2> QED BY <1>2, <2>3 DEF Fine, Sound, t, m
<1>5. CASE ~s.ui.active
  BY <1>2, <1>5, InactiveFine DEF t, m
<1> QED BY <1>4, <1>5

(* Main takes a call.                                                      *)
LEMMA TakenHas ==
  ASSUME NEW q, IsSeq(q), NEW k \in DOMAIN q
  PROVE  /\ \A j \in DOMAIN RemoveAt(q, k) : \E i \in DOMAIN q : RemoveAt(q, k)[j] = q[i]
         /\ \A i \in DOMAIN q : i = k \/ \E j \in DOMAIN RemoveAt(q, k) : RemoveAt(q, k)[j] = q[i]
<1> DEFINE r == RemoveAt(q, k)
<1>1. /\ IsSeq(r) /\ Len(r) = Len(q) - 1
      /\ DOMAIN q = 1 .. Len(q) /\ Len(q) \in Nat \ {0}
      /\ DOMAIN r = 1 .. Len(q) - 1
      /\ \A j \in 1 .. Len(q) - 1 : r[j] = q[IF j < k THEN j ELSE j + 1]
  BY RemoveAtIs
<1> HIDE DEF r
<1>2. ASSUME NEW j \in DOMAIN r PROVE \E i \in DOMAIN q : r[j] = q[i]
  BY <1>1
<1>3. ASSUME NEW i \in DOMAIN q, i # k PROVE \E j \in DOMAIN r : r[j] = q[i]
  <2>1. CASE i < k
    <3>1. i \in 1 .. Len(q) - 1 /\ r[i] = q[i]
      BY <1>1, <2>1
    <3> QED BY <1>1, <3>1
  <2>2. CASE i > k
    <3>1. i - 1 \in 1 .. Len(q) - 1 /\ ~(i - 1 < k) /\ (i - 1) + 1 = i
      BY <1>1, <2>2
    <3>2. r[i - 1] = q[i]
      BY <1>1, <3>1
    <3> QED BY <1>1, <3>1, <3>2
  <2> QED BY <1>1, <1>3, <2>1, <2>2
<1> QED BY <1>2, <1>3 DEF r

(* What main answers a read with is what it has.                           *)
FromMemory(m, h) ==
  /\ Live(m, {"list"}) /\ m.ok =>
       PageOf(m, h.listed[m.filter][h.now], h.tabs[h.now]) /\ m.asOf = h.now
  /\ Live(m, {"search"}) /\ m.ok =>
       m.rows = h.found[m.filter][h.now] /\ m.tabs = h.tabs[h.now] /\ m.asOf = h.now

LEMMA CarriedHas ==
  ASSUME NEW c, CallOK(c), NEW m, Carried(c, m)
  PROVE  /\ c.kind = "list" => /\ m.offset = c.offset /\ m.limit = c.limit
                               /\ m.filter = c.filter /\ m.reload = c.reload
         /\ c.kind = "search" => m.filter = c.filter
         /\ c.kind = "preview" => m.id = c.id
BY DEF Carried, AnswerFields, CallOK, Carries

LEMMA FineAnswer ==
  ASSUME NEW s, NEW h, MemoryOK(h), Fine(s, h), NEW k, MayAnswer(s, k), NEW m,
         Carried(s.asked[k], m), AnswerOK(m), FromMemory(m, h)
  PROVE  Fine(Sent(Taken(s, k), m), h)
<1> DEFINE t == Sent(Taken(s, k), m)
           c == s.asked[k]
           n == Len(s.inbox)
<1>1. Base(s) /\ Calls(s) /\ UiOK(s.ui)
  BY DEF Fine, Base
<1>2. /\ Base(t) /\ t.ui = s.ui /\ t.asked = RemoveAt(s.asked, k)
      /\ t.inbox = Append(s.inbox, m)
  BY <1>1, AnswerIs
<1>3. k \in DOMAIN s.asked /\ CallOK(c) /\ Fits(c, s.ui) /\ IsSeq(s.asked) /\ IsSeq(s.inbox)
  BY <1>1 DEF MayAnswer, Calls, Base, AllFit
<1>4. /\ n \in Nat /\ DOMAIN t.inbox = 1 .. n + 1 /\ DOMAIN s.inbox = 1 .. n
      /\ Len(t.inbox) = n + 1
      /\ \A j \in DOMAIN s.inbox : t.inbox[j] = s.inbox[j]
      /\ t.inbox[n + 1] = m
  BY <1>2, <1>3, AppendIs, SeqIs
<1>5. /\ \A j \in DOMAIN t.asked : \E i \in DOMAIN s.asked : t.asked[j] = s.asked[i]
      /\ \A i \in DOMAIN s.asked : i = k \/ \E j \in DOMAIN t.asked : t.asked[j] = s.asked[i]
  BY <1>2, <1>3, TakenHas
<1>6. /\ CallOK(m) /\ m.kind = c.kind /\ m.live = c.live /\ Fits(m, s.ui)
      /\ \A K : Live(m, K) <=> Live(c, K)
      /\ c.kind = "list" => /\ m.offset = c.offset /\ m.limit = c.limit
                            /\ m.filter = c.filter /\ m.reload = c.reload
      /\ c.kind = "preview" => m.id = c.id
  BY <1>3, CarriedIs, CarriedHas
<1> HIDE DEF t, n
<1>7. CASE ~s.ui.active
  BY <1>2, <1>7, InactiveFine DEF t
<1>8. CASE s.ui.active
  <2>1. PICK l, tabs : Seen(s, l, tabs, h)
    BY DEF Fine, Sound
  <2>2. /\ \A i \in DOMAIN t.inbox : i \in DOMAIN s.inbox \/ i = n + 1
        /\ n + 1 \in DOMAIN t.inbox
    BY <1>4
  <2>3. /\ Still(t.inbox, 1, n + 1) => Still(s.inbox, 1, n)
        /\ \A j \in 1 .. n : Still(t.inbox, 1, j) <=> Still(s.inbox, 1, j)
        /\ \A j \in 1 .. n : Still(t.inbox, j, n + 1) => Still(s.inbox, j, n)
    <3>1. \A j \in 1 .. n : t.inbox[j] = s.inbox[j]
      BY <1>4
    <3>2. ASSUME NEW i \in Nat, i >= 1
          PROVE  /\ Still(t.inbox, i, n + 1) => Still(s.inbox, i, n)
                 /\ \A j \in 1 .. n : Still(t.inbox, i, j) <=> Still(s.inbox, i, j)
      BY <1>4, <3>1, <3>2, StillMore
    <3>3. 1 \in Nat /\ 1 >= 1 /\ \A j \in 1 .. n : j \in Nat /\ j >= 1
      BY <1>4
    <3> QED BY <3>2, <3>3
  <2>4. View(t, l, tabs, h)
    <3>1. View(s, l, tabs, h)
      BY <2>1 DEF Seen, Looks
    <3>2. ASSUME NEW j \in DOMAIN t.asked, Live(t.asked[j], {"preview"})
          PROVE  Opened(t.asked[j].id, s.ui, l, h)
      BY <1>5, <1>8, <3>1, <3>2 DEF View
    <3>3. ASSUME NEW j \in DOMAIN t.inbox, Live(t.inbox[j], {"preview"})
          PROVE  Opened(t.inbox[j].id, s.ui, l, h)
      <4>1. CASE j \in DOMAIN s.inbox
        BY <1>4, <1>8, <3>1, <3>3, <4>1 DEF View
      <4>2. CASE j = n + 1
        <5>1. Live(c, {"preview"})
          BY <1>4, <1>6, <3>3, <4>2
        <5>2. c.kind = "preview"
          BY <5>1 DEF Live
        <5>3. Opened(c.id, s.ui, l, h)
          BY <1>3, <1>8, <3>1, <5>1 DEF View
        <5> QED BY <1>4, <1>6, <4>2, <5>2, <5>3
      <4> QED BY <2>2, <4>1, <4>2
    <3> QED BY <1>2, <3>1, <3>2, <3>3 DEF View
  <2>5. Due(t, l, tabs, h)
    <3>1. Due(s, l, tabs, h)
      BY <2>1 DEF Seen, Looks
    <3>2. /\ Still(t.inbox, 1, n + 1) \in BOOLEAN /\ Still(s.inbox, 1, n) \in BOOLEAN
          /\ s.ui.filter \in Filters /\ h.now \in SUBSET Secrets
      BY <1>1 DEF Still, UiOK, MemoryOK
    <3>3. ASSUME s.ui.mode = "recent", NEW j \in DOMAIN t.inbox, Live(t.inbox[j], {"list"}),
                 t.inbox[j].ok, Still(t.inbox, 1, j)
          PROVE  PageDue(t.inbox[j], l, tabs, h, s.ui.filter, Still(t.inbox, 1, n + 1))
      <4>1. CASE j \in DOMAIN s.inbox
        <5>1. t.inbox[j] = s.inbox[j] /\ Still(s.inbox, 1, j)
          BY <1>4, <2>3, <3>3, <4>1
        <5>2. PageDue(t.inbox[j], l, tabs, h, s.ui.filter, Still(s.inbox, 1, n))
          BY <1>4, <1>8, <3>1, <3>3, <4>1, <5>1 DEF Due
        <5> QED BY <2>3, <3>2, <5>2, DueLater
      <4>2. CASE j = n + 1
        <5> DEFINE p == h.listed[s.ui.filter][h.now]
                   q == h.tabs[h.now]
        <5>1. /\ h.at \subseteq h.now
              /\ l = h.listed[s.ui.filter][h.at] /\ tabs = h.tabs[h.at]
          BY <1>4, <1>8, <2>3, <3>1, <3>3, <4>2 DEF Due
        <5>2. Live(m, {"list"}) /\ m.ok /\ m.filter = s.ui.filter
          BY <1>4, <1>6, <3>3, <4>2 DEF Fits
        <5>3. PageOf(m, p, q) /\ m.asOf = h.now
          BY <5>2 DEF FromMemory
        <5>4. p \in Seq(ListRows) /\ Distinct(p)
          BY <3>2 DEF MemoryOK
        <5>5. m.asOf = h.at => p = l /\ q = tabs
          BY <5>1, <5>3
        <5>6. p = h.listed[s.ui.filter][m.asOf] /\ q = h.tabs[m.asOf] /\ m.asOf \subseteq h.now
          BY <5>3
        <5> HIDE DEF p, q
        <5>7. PageDue(m, l, tabs, h, s.ui.filter, Still(t.inbox, 1, n + 1))
          BY <5>1, <5>3, <5>4, <5>5, <5>6 DEF PageDue
        <5> QED BY <1>4, <4>2, <5>7
      <4> QED BY <2>2, <4>1, <4>2
    <3>4. /\ Still(t.inbox, 1, n + 1) => h.at \subseteq h.now
          /\ s.ui.mode = "recent" /\ Still(t.inbox, 1, n + 1) =>
               l = h.listed[s.ui.filter][h.at] /\ tabs = h.tabs[h.at]
      BY <1>4, <1>8, <2>3, <3>1 DEF Due
    <3>5. ASSUME NEW j \in DOMAIN t.inbox, Live(t.inbox[j], {"search"}), t.inbox[j].ok
          PROVE  HitsDue(t.inbox[j], h, s.ui.filter, Still(t.inbox, j, n + 1))
      <4>1. CASE j \in DOMAIN s.inbox
        <5>1. t.inbox[j] = s.inbox[j] /\ (Still(t.inbox, j, n + 1) => Still(s.inbox, j, n))
          BY <1>4, <2>3, <4>1
        <5>2. HitsDue(t.inbox[j], h, s.ui.filter, Still(s.inbox, j, n))
          BY <1>4, <1>8, <3>1, <3>5, <4>1, <5>1 DEF Due
        <5> QED BY <5>1, <5>2 DEF HitsDue
      <4>2. CASE j = n + 1
        <5>1. Live(m, {"search"}) /\ m.ok /\ m.filter = s.ui.filter
          BY <1>4, <1>6, <3>5, <4>2 DEF Fits
        <5>2. m.rows = h.found[s.ui.filter][h.now] /\ m.tabs = h.tabs[h.now] /\ m.asOf = h.now
          BY <5>1 DEF FromMemory
        <5>3. Distinct(m.rows)
          BY <3>2, <5>2 DEF MemoryOK
        <5>4. HitsDue(m, h, s.ui.filter, Still(t.inbox, j, n + 1))
          BY <5>2, <5>3 DEF HitsDue
        <5> QED BY <1>4, <4>2, <5>4
      <4> QED BY <2>2, <4>1, <4>2
    <3> QED BY <1>2, <1>4, <3>3, <3>4, <3>5 DEF Due
  <2>6. \A K : NoneLive(t, K) => NoneLive(s, K)
    <3> SUFFICES ASSUME NEW K, NoneLive(t, K) PROVE NoneLive(s, K)
      OBVIOUS
    <3>1. ASSUME NEW i \in DOMAIN s.asked, Live(s.asked[i], K) PROVE FALSE
      <4>1. CASE i = k
        <5>1. Live(t.inbox[n + 1], K)
          BY <1>4, <1>6, <3>1, <4>1
        <5> QED BY <2>2, <5>1 DEF NoneLive
      <4>2. CASE i # k
        BY <1>5, <3>1, <4>2 DEF NoneLive
      <4> QED BY <4>1, <4>2
    <3>2. ASSUME NEW i \in DOMAIN s.inbox, Live(s.inbox[i], K) PROVE FALSE
      <4>1. i \in DOMAIN t.inbox /\ t.inbox[i] = s.inbox[i]
        BY <1>4
      <4> QED BY <3>2, <4>1 DEF NoneLive
    <3> QED BY <3>1, <3>2 DEF NoneLive
  <2>7. Known(t, l, tabs, h)
    BY <1>2, <1>4, <2>1, <2>3, <2>6 DEF Seen, Looks, Known
  <2>8. Whole(t)
    BY <1>2, <2>1, <2>6 DEF Seen, Whole
  <2>9. \A d : Covers(d, s) => Covers(d, t)
    BY <1>2 DEF Covers, Spans, RangeStart, RangeEnd
  <2>10. Covers(m, t)
    <3>1. Covers(c, s)
      BY <1>3, <2>1 DEF Seen, Cover
    <3>2. Live(m, {"list"}) => c.kind = "list"
      BY <1>6 DEF Live
    <3>3. Covers(m, s)
      BY <1>6, <3>1, <3>2 DEF Covers
    <3> QED BY <2>9, <3>3
  <2>11. Cover(t)
    <3>1. \A j \in DOMAIN t.asked : Covers(t.asked[j], t)
      BY <1>5, <2>1, <2>9 DEF Seen, Cover
    <3>2. \A j \in DOMAIN t.inbox : Covers(t.inbox[j], t)
      BY <1>4, <2>1, <2>2, <2>9, <2>10 DEF Seen, Cover
    <3> QED BY <3>1, <3>2 DEF Cover
  <2>12. Sound(t, h)
    BY <2>4, <2>5, <2>7, <2>8, <2>11 DEF Sound, Seen, Looks
  <2> QED BY <1>2, <2>12 DEF Fine, t
<1> QED BY <1>7, <1>8

(* Nobody waits for the answer to a close.                                 *)
LEMMA FineTaken ==
  ASSUME NEW s, NEW h, Fine(s, h), NEW k, MayAnswer(s, k), s.asked[k].kind = "close"
  PROVE  Fine(Taken(s, k), h)
<1> DEFINE t == Taken(s, k)
<1>1. Base(s) /\ Calls(s)
  BY DEF Fine, Base
<1>2. Base(t) /\ t.ui = s.ui /\ t.inbox = s.inbox /\ t.asked = RemoveAt(s.asked, k)
  BY <1>1, TakenIs
<1>3. k \in DOMAIN s.asked /\ IsSeq(s.asked)
  BY <1>1 DEF MayAnswer, Calls
<1>4. /\ \A j \in DOMAIN t.asked : \E i \in DOMAIN s.asked : t.asked[j] = s.asked[i]
      /\ \A i \in DOMAIN s.asked : i = k \/ \E j \in DOMAIN t.asked : t.asked[j] = s.asked[i]
  BY <1>2, <1>3, TakenHas
<1>5. PICK l, tabs : Seen(s, l, tabs, h)
  BY DEF Fine, Sound
<1> HIDE DEF t
<1>6. View(t, l, tabs, h)
  BY <1>2, <1>4, <1>5 DEF Seen, Looks, View
<1>7. Due(t, l, tabs, h)
  BY <1>2, <1>5 DEF Seen, Looks, Due
<1>8. \A K \in {{"list"}, {"search"}} : NoneLive(t, K) => NoneLive(s, K)
  <2>1. \A K \in {{"list"}, {"search"}} : ~Live(s.asked[k], K)
    BY DEF Live
  <2> QED BY <1>2, <1>4, <2>1 DEF NoneLive
<1>9. Known(t, l, tabs, h) /\ Whole(t)
  BY <1>2, <1>5, <1>8 DEF Seen, Looks, Known, Whole
<1>10. \A d : Covers(d, s) => Covers(d, t)
  BY <1>2 DEF Covers, Spans, RangeStart, RangeEnd
<1>11. Cover(t)
  BY <1>2, <1>4, <1>5, <1>10 DEF Seen, Cover
<1> QED BY <1>2, <1>6, <1>7, <1>9, <1>11 DEF Fine, Sound, Seen, Looks, t

-----------------------------------------------------------------------------
(* Main's steps, and what is on screen.                                    *)
LEMMA FineReply ==
  ASSUME Types, NEW h, MemoryOK(h), Fine(World, h), NEW k \in Answerable,
         asked[k].kind # "close", NEW ok \in BOOLEAN,
         ok => asked[k].kind \notin {"list", "search"}, NEW rows, NEW tabs, NEW events,
         Reply(k, ok, rows, tabs, events), NEW g, MemoryOK(g),
         g.at = h.at, g.shifted = h.shifted,
         \/ events = <<>> /\ g = h
         \/ events = <<Event("hidden")>> /\ g = h
         \/ events = <<Event("changed")>>
  PROVE  Fine(World', g)
<1> DEFINE m == Answered(asked[k], [ok |-> ok])
<1>1. asked' = RemoveAt(asked, k) /\ ui' = ui /\ inbox' = inbox \o events \o <<m>>
  BY DEF Reply
<1>2. IsSeq(inbox) /\ Base(World)
  BY WorldIs DEF Types, Base, Calls
<1>3. MayAnswer(World, k) /\ Carried(asked[k], m) /\ AnswerOK(m) /\ m.ok = ok
  BY ReplyIs
<1> HIDE DEF m
<1>4. \A f : FromMemory(m, f)
  <2>1. CallOK(asked[k])
    BY <1>2, WorldIs DEF Answerable, Base, Calls
  <2>2. m.kind = asked[k].kind
    BY <1>3, <2>1, CarriedIs
  <2> QED BY <1>3, <2>2 DEF FromMemory, Live
<1>5. ASSUME NEW s, Fine(s, g), s.asked = asked, NEW t, t = Sent(Taken(s, k), m),
             s.ui = ui, Append(s.inbox, m) = inbox', MayAnswer(s, k)
      PROVE  Fine(World', g)
  <2>1. Carried(s.asked[k], m)
    BY <1>3, <1>5
  <2>2. Fine(t, g)
    BY <1>3, <1>4, <1>5, <2>1, FineAnswer
  <2>3. Base(s)
    BY <1>5 DEF Fine
  <2>4. /\ t.ui = s.ui /\ t.asked = RemoveAt(s.asked, k) /\ t.inbox = Append(s.inbox, m)
        /\ IsState(t)
    <3> DEFINE r == Sent(Taken(s, k), m)
    <3>1. /\ Base(r) /\ r.ui = s.ui /\ r.asked = RemoveAt(s.asked, k)
          /\ r.inbox = Append(s.inbox, m)
      BY <1>3, <1>5, <2>1, <2>3, AnswerIs
    <3> QED BY <1>5, <3>1 DEF Base
  <2> QED BY <1>1, <1>5, <2>2, <2>4, WorldIs, FineSame
<1>6. CASE events = <<>> /\ g = h
  <2>1. inbox' = Append(inbox, m)
    BY <1>1, <1>2, <1>6, InboxIs
  <2> QED BY <1>3, <1>5, <1>6, <2>1, WorldIs
<1>7. ASSUME NEW kind \in EventKinds, events = <<Event(kind)>>, g = h \/ kind = "changed"
      PROVE  Fine(World', g)
  <2> DEFINE s == Sent(World, Event(kind))
  <2>1. inbox' = Append(Append(inbox, Event(kind)), m)
    BY <1>1, <1>2, <1>7, InboxIs
  <2>2. Fine(s, g)
    BY <1>7, FineEvent
  <2>3. /\ s.ui = ui /\ s.asked = asked /\ s.inbox = Append(inbox, Event(kind))
    BY <1>2, <1>7, SentEvent, WorldIs
  <2> HIDE DEF s
  <2>4. MayAnswer(s, k)
    BY <1>3, <2>3, WorldIs DEF MayAnswer
  <2> QED BY <1>5, <2>1, <2>2, <2>3, <2>4
<1>8. "hidden" \in EventKinds /\ "changed" \in EventKinds
  BY DEF EventKinds
<1> QED BY <1>6, <1>7, <1>8

(* A reply tells of a change, or what main has is the same.                *)
Tells(rows, tabs, events) ==
  \/ events \in {<<>>, <<Event("hidden")>>} /\ rows = db /\ tabs = named /\ expired' = expired
  \/ events = <<Event("changed")>>

Told(k) ==
  \E ok, rows, tabs, events :
    /\ ok \in BOOLEAN /\ Reply(k, ok, rows, tabs, events) /\ Tells(rows, tabs, events)
    /\ asked[k].kind \notin {"list", "search", "close"} \/ (asked[k].kind # "close" /\ ~ok)

LEMMA MemoryNext ==
  /\ Memory.at = asOf /\ Memory.shifted = shifted
  /\ Memory'.at = asOf' /\ Memory'.shifted = shifted'
BY DEF Memory

LEMMA FineTold ==
  ASSUME Types, NEW h, MemoryOK(h), h = Memory, Fine(World, h), NEW k \in Answerable, Told(k),
         NEW g, MemoryOK(g), g = Memory'
  PROVE  Fine(World', g)
<1>1. PICK ok, rows, tabs, events :
        /\ ok \in BOOLEAN /\ Reply(k, ok, rows, tabs, events) /\ Tells(rows, tabs, events)
        /\ asked[k].kind \notin {"list", "search", "close"} \/ (asked[k].kind # "close" /\ ~ok)
  BY DEF Told
<1>2. asOf' = asOf /\ shifted' = shifted
  BY <1>1 DEF Reply
<1>3. g.at = h.at /\ g.shifted = h.shifted
  BY <1>2, MemoryNext
<1>4. CASE events = <<Event("changed")>>
  BY <1>1, <1>3, <1>4, FineReply
<1>5. CASE events \in {<<>>, <<Event("hidden")>>} /\ rows = db /\ tabs = named
           /\ expired' = expired
  <2>1. db' = db /\ named' = named
    BY <1>1, <1>5 DEF Reply
  <2>2. g = h
    BY <1>2, <1>5, <2>1, MemorySame
  <2> QED BY <1>1, <1>3, <1>5, <2>2, FineReply
<1> QED BY <1>1, <1>4, <1>5 DEF Tells

LEMMA ToldKeep ==
  ASSUME NEW k, NEW ok \in BOOLEAN, Keep(k, ok), asked[k].kind \notin {"list", "search", "close"}
  PROVE  Told(k)
<1>1. Reply(k, ok, db, named, <<>>) /\ expired' = expired
  BY DEF Keep
<1>2. Tells(db, named, <<>>)
  BY <1>1 DEF Tells
<1> QED BY <1>1, <1>2 DEF Told

LEMMA ToldChanged ==
  ASSUME NEW k, NEW ok \in BOOLEAN, NEW rows, NEW tabs,
         Reply(k, ok, rows, tabs, <<Event("changed")>>),
         asked[k].kind \notin {"list", "search", "close"}
  PROVE  Told(k)
<1>1. Tells(rows, tabs, <<Event("changed")>>)
  BY DEF Tells
<1> QED BY <1>1 DEF Told

(* Every answer but those with what main has and that to a close.          *)
LEMMA AnswerTold ==
  ASSUME Types, NEW k \in Answerable,
         \/ AnswerPin(k) \/ AnswerTag(k) \/ AnswerTitle(k) \/ AnswerCreateTab(k)
         \/ AnswerRemoveTab(k) \/ AnswerRemove(k) \/ AnswerCopy(k) \/ AnswerFails(k)
  PROVE  Told(k)
<1> TRUE \in BOOLEAN /\ FALSE \in BOOLEAN
  OBVIOUS
<1> DEFINE Other == asked[k].kind \notin {"list", "search", "close"}
           Left == \E ok \in BOOLEAN : Keep(k, ok)
           Changed == \E ok \in BOOLEAN : \E rows, tabs :
                        Reply(k, ok, rows, tabs, <<Event("changed")>>)
<1>1. CASE AnswerPin(k)
  <2>1. Other /\ (Left \/ Changed)
    BY <1>1 DEF AnswerPin
  <2> QED BY <2>1, ToldKeep, ToldChanged
<1>2. CASE AnswerTag(k)
  <2>1. Other /\ (Left \/ Changed)
    BY <1>2 DEF AnswerTag
  <2> QED BY <2>1, ToldKeep, ToldChanged
<1>3. CASE AnswerTitle(k)
  <2>1. Other /\ (Left \/ Changed)
    BY <1>3 DEF AnswerTitle
  <2> QED BY <2>1, ToldKeep, ToldChanged
<1>4. CASE AnswerCreateTab(k)
  <2>1. Other /\ (Left \/ Changed)
    BY <1>4 DEF AnswerCreateTab
  <2> QED BY <2>1, ToldKeep, ToldChanged
<1>5. CASE AnswerRemoveTab(k)
  <2>1. Other /\ (Left \/ Changed)
    BY <1>5 DEF AnswerRemoveTab
  <2> QED BY <2>1, ToldKeep, ToldChanged
<1>6. CASE AnswerRemove(k)
  <2>1. Other /\ (Left \/ Changed)
    BY <1>6 DEF AnswerRemove
  <2> QED BY <2>1, ToldKeep, ToldChanged
<1>7. CASE AnswerCopy(k)
  <2> DEFINE E == IF visible THEN <<Event("hidden")>> ELSE <<>>
  <2>1. Other /\ (Keep(k, FALSE) \/ (Reply(k, TRUE, db, named, E) /\ expired' = expired))
    BY <1>7 DEF AnswerCopy
  <2>2. expired' = expired => Tells(db, named, E)
    BY DEF Tells
  <2> HIDE DEF E
  <2>3. CASE Reply(k, TRUE, db, named, E) /\ expired' = expired
    BY <2>1, <2>2, <2>3 DEF Told
  <2> QED BY <2>1, <2>3, ToldKeep
<1>8. CASE AnswerFails(k)
  <2> DEFINE m == Answered(asked[k], [ok |-> FALSE])
  <2>1. /\ asked[k].kind # "close" /\ inbox' = Append(inbox, m)
        /\ asked' = RemoveAt(asked, k) /\ ui' = ui /\ db' = db /\ named' = named
        /\ chosen' = chosen /\ asOf' = asOf /\ shifted' = shifted /\ expired' = expired
    BY <1>8 DEF AnswerFails
  <2>2. IsSeq(inbox)
    BY WorldIs DEF Types, Base, Calls
  <2>3. inbox \o <<>> \o <<m>> = Append(inbox, m)
    <3> HIDE DEF m
    <3> QED BY <2>2, InboxIs
  <2>4. Reply(k, FALSE, db, named, <<>>)
    BY <2>1, <2>3 DEF Reply
  <2>5. Tells(db, named, <<>>)
    BY <2>1 DEF Tells
  <2> QED BY <2>1, <2>4, <2>5 DEF Told
<1> QED BY <1>1, <1>2, <1>3, <1>4, <1>5, <1>6, <1>7, <1>8

LEMMA FineAnswerRead ==
  ASSUME Types, NEW h, MemoryOK(h), h = Memory, Fine(World, h), NEW k \in Answerable,
         AnswerRead(k)
  PROVE  Fine(World', h)
<1> DEFINE c == asked[k]
           m == Answered(c, ReadAnswer(c))
           t == Sent(Taken(World, k), m)
<1>1. /\ IsRead(c) /\ asked' = RemoveAt(asked, k) /\ inbox' = Append(inbox, m) /\ ui' = ui
  BY DEF AnswerRead, ReadAnswer
<1>2. MayAnswer(World, k) /\ Base(World) /\ CallOK(c) /\ Fits(c, ui) /\ DbOK /\ ui.filter \in Filters
  BY WorldIs DEF MayAnswer, Answerable, Types, Base, Calls, AllFit, UiOK
<1>3. /\ Carried(c, m) /\ AnswerOK(m) /\ m.kind = c.kind
      /\ c.kind = "list" =>
           /\ m.rows = Page(Listed(c.filter, expired), c.offset, c.limit)
           /\ m.total = Len(Listed(c.filter, expired))
      /\ c.kind = "search" => m.rows = Found(c.filter, expired)
      /\ c.kind \in {"list", "search"} => m.tabs = ShownTabs(expired) /\ m.asOf = expired
  BY <1>1, <1>2, ReadAnswerIs
<1> HIDE DEF m
<1>4. Carried(World.asked[k], m)
  BY <1>3, WorldIs
<1>5. FromMemory(m, h)
  <2>1. /\ \A f \in Filters : h.listed[f][h.now] = Listed(f, expired)
                              /\ h.found[f][h.now] = Found(f, expired)
        /\ h.tabs[h.now] = ShownTabs(expired) /\ h.now = expired
    BY <1>2, MemoryIs DEF DbOK
  <2>2. ASSUME Live(m, {"list"})
        PROVE  PageOf(m, h.listed[m.filter][h.now], h.tabs[h.now]) /\ m.asOf = h.now
    <3>1. c.kind = "list" /\ Live(c, {"list"})
      BY <1>2, <1>3, <2>2, CarriedIs DEF Live
    <3>2. /\ m.offset = c.offset /\ m.limit = c.limit /\ m.filter = c.filter
      BY <1>2, <1>3, <3>1, CarriedHas
    <3>3. c.filter \in Filters
      BY <1>2, <3>1 DEF Fits
    <3> QED BY <1>3, <2>1, <3>1, <3>2, <3>3 DEF PageOf
  <2>3. ASSUME Live(m, {"search"})
        PROVE  m.rows = h.found[m.filter][h.now] /\ m.tabs = h.tabs[h.now] /\ m.asOf = h.now
    <3>1. c.kind = "search" /\ Live(c, {"search"})
      BY <1>2, <1>3, <2>3, CarriedIs DEF Live
    <3>2. m.filter = c.filter
      BY <1>2, <1>3, <3>1, CarriedHas
    <3>3. c.filter \in Filters
      BY <1>2, <3>1 DEF Fits
    <3> QED BY <1>3, <2>1, <3>1, <3>2, <3>3
  <2> QED BY <2>2, <2>3 DEF FromMemory
<1>6. Fine(t, h)
  BY <1>2, <1>3, <1>4, <1>5, FineAnswer
<1>7. /\ Base(t) /\ t.ui = World.ui /\ t.asked = RemoveAt(World.asked, k)
      /\ t.inbox = Append(World.inbox, m)
  BY <1>2, <1>3, <1>4, AnswerIs
<1> HIDE DEF t
<1>8. t.inbox = inbox' /\ t.asked = asked' /\ t.ui = ui'
  BY <1>1, <1>7, WorldIs
<1> QED BY <1>6, <1>8, WorldIs, FineSame

LEMMA FineAnswerClose ==
  ASSUME Types, NEW h, Fine(World, h), NEW k \in Answerable, AnswerClose(k)
  PROVE  Fine(World', h)
<1> DEFINE r == Taken(World, k)
           t == Sent(r, Event("hidden"))
<1>1. MayAnswer(World, k) /\ Base(World) /\ World.asked[k].kind = "close"
  BY WorldIs DEF MayAnswer, Answerable, Types, AnswerClose
<1>2. Base(r) /\ r.ui = World.ui /\ r.inbox = World.inbox /\ r.asked = RemoveAt(World.asked, k)
  BY <1>1, TakenIs
<1>3. Fine(r, h)
  BY <1>1, FineTaken
<1> HIDE DEF r
<1>4. "hidden" \in EventKinds
  BY DEF EventKinds
<1>5. Base(t) /\ t.ui = r.ui /\ t.asked = r.asked /\ t.inbox = Append(r.inbox, Event("hidden"))
  BY <1>2, <1>4, SentEvent
<1>6. Fine(t, h)
  BY <1>3, <1>4, FineEvent
<1> HIDE DEF t
<1>7. /\ asked' = RemoveAt(asked, k) /\ ui' = ui
      /\ inbox' = inbox \o (IF visible THEN <<Event("hidden")>> ELSE <<>>)
  BY DEF AnswerClose
<1>8. IsSeq(inbox)
  BY WorldIs DEF Types, Base, Calls
<1>9. inbox' = inbox \/ inbox' = Append(inbox, Event("hidden"))
  BY <1>7, <1>8, InboxIs
<1> QED BY <1>2, <1>3, <1>5, <1>6, <1>7, <1>9, WorldIs, FineSame

LEMMA FineAnswered ==
  ASSUME Types, NEW h, MemoryOK(h), h = Memory, Fine(World, h), Answer,
         NEW g, MemoryOK(g), g = Memory'
  PROVE  Fine(World', g)
<1> SUFFICES ASSUME NEW k \in Answerable,
                    \/ AnswerRead(k) \/ AnswerPin(k) \/ AnswerTag(k) \/ AnswerTitle(k)
                    \/ AnswerCreateTab(k) \/ AnswerRemoveTab(k) \/ AnswerRemove(k)
                    \/ AnswerCopy(k) \/ AnswerClose(k) \/ AnswerFails(k)
             PROVE  Fine(World', g)
  BY DEF Answer
<1>1. CASE AnswerRead(k)
  <2>1. db' = db /\ named' = named /\ expired' = expired /\ asOf' = asOf /\ shifted' = shifted
    BY <1>1 DEF AnswerRead
  <2>2. g = h
    BY <2>1, MemorySame
  <2> QED BY <1>1, <2>2, FineAnswerRead
<1>2. CASE AnswerClose(k)
  <2>1. db' = db /\ named' = named /\ expired' = expired /\ asOf' = asOf /\ shifted' = shifted
    BY <1>2 DEF AnswerClose
  <2>2. g = h
    BY <2>1, MemorySame
  <2> QED BY <1>2, <2>2, FineAnswerClose
<1>3. CASE ~AnswerRead(k) /\ ~AnswerClose(k)
  <2>1. Told(k)
    BY <1>3, AnswerTold
  <2> QED BY <2>1, FineTold
<1> QED BY <1>1, <1>2, <1>3

(* More expires.                                                           *)
LEMMA FineLater ==
  ASSUME NEW s, NEW h, Fine(s, h), NEW g, g.listed = h.listed, g.found = h.found,
         g.tabs = h.tabs, g.at = h.at, g.shifted = h.shifted, h.now \subseteq g.now
  PROVE  Fine(s, g)
<1>1. PICK l, tabs : Seen(s, l, tabs, h)
  BY DEF Fine, Sound
<1>2. View(s, l, tabs, g)
  BY <1>1 DEF Seen, Looks, View, Opened
<1>3. /\ \A m, f, still : PageDue(m, l, tabs, h, f, still) => PageDue(m, l, tabs, g, f, still)
      /\ \A m, f, still : HitsDue(m, h, f, still) => HitsDue(m, g, f, still)
  BY DEF PageDue, HitsDue
<1>4. Due(s, l, tabs, g)
  BY <1>1, <1>3 DEF Seen, Looks, Due
<1>5. Known(s, l, tabs, g)
  BY <1>1 DEF Seen, Looks, Known
<1> QED BY <1>1, <1>2, <1>4, <1>5 DEF Fine, Sound, Seen, Looks

LEMMA FineMain ==
  ASSUME Types, NEW h, MemoryOK(h), h = Memory, Fine(World, h), NEW g, MemoryOK(g), g = Memory',
         (\E i \in Items : Copied(i) \/ Expire(i)) \/ Show \/ Hide
  PROVE  Fine(World', g)
<1>1. Base(World) /\ IsSeq(inbox)
  BY WorldIs DEF Types, Base, Calls
<1> "changed" \in EventKinds /\ "hidden" \in EventKinds /\ "shown" \in EventKinds
  BY DEF EventKinds
<1> DEFINE changed == Sent(World, Event("changed"))
           hidden == Sent(World, Event("hidden"))
           shown == Sent(World, Event("shown"))
           reshown == Sent(hidden, Event("shown"))
<1>2. CASE \E i \in Items : Copied(i)
  <2>1. ui' = ui /\ asked' = asked /\ inbox' = Append(inbox, Event("changed"))
    BY <1>2 DEF Copied
  <2>2. /\ Base(changed) /\ changed.ui = ui /\ changed.asked = asked
        /\ changed.inbox = Append(inbox, Event("changed"))
    BY <1>1, SentEvent, WorldIs
  <2>3. g.at = h.at /\ g.shifted = h.shifted
    BY <1>2, MemoryNext DEF Copied
  <2>4. Fine(changed, g)
    BY <2>3, FineEvent
  <2> HIDE DEF changed
  <2> QED BY <2>1, <2>2, <2>4, WorldIs, FineSame
<1>3. /\ Base(hidden) /\ hidden.ui = ui /\ hidden.asked = asked
      /\ hidden.inbox = Append(inbox, Event("hidden")) /\ Fine(hidden, h)
  BY <1>1, SentEvent, FineEvent, WorldIs
<1> HIDE DEF hidden
<1>4. CASE Show
  <2>1. /\ ui' = ui /\ asked' = asked /\ db' = db /\ named' = named
        /\ expired' = expired /\ asOf' = asOf /\ shifted' = shifted
        /\ inbox' = inbox \o (IF visible THEN <<Event("hidden")>> ELSE <<>>) \o <<Event("shown")>>
    BY <1>4 DEF Show
  <2>2. g = h
    BY <2>1, MemorySame
  <2>3. \/ inbox' = Append(inbox, Event("shown"))
        \/ inbox' = Append(Append(inbox, Event("hidden")), Event("shown"))
    <3>1. \/ inbox' = inbox \o <<>> \o <<Event("shown")>>
          \/ inbox' = inbox \o <<Event("hidden")>> \o <<Event("shown")>>
      BY <2>1
    <3> QED BY <1>1, <3>1, InboxIs
  <2>4. /\ Base(shown) /\ shown.ui = ui /\ shown.asked = asked
        /\ shown.inbox = Append(inbox, Event("shown")) /\ Fine(shown, h)
    BY <1>1, SentEvent, FineEvent, WorldIs
  <2>5. /\ Base(reshown) /\ reshown.ui = ui /\ reshown.asked = asked
        /\ reshown.inbox = Append(Append(inbox, Event("hidden")), Event("shown"))
    BY <1>3, SentEvent
  <2>6. Fine(reshown, h)
    BY <1>3, FineEvent
  <2> HIDE DEF shown, reshown
  <2> QED BY <2>1, <2>2, <2>3, <2>4, <2>5, <2>6, WorldIs, FineSame
<1>5. CASE Hide
  <2>1. /\ asked' = asked /\ db' = db /\ named' = named
        /\ expired' = expired /\ asOf' = asOf /\ shifted' = shifted
        /\ inbox' = Append(inbox, Event("hidden"))
        /\ ui' = [ui EXCEPT !.drag = None, !.dialog = None]
    BY <1>5 DEF Hide
  <2>2. g = h
    BY <2>1, MemorySame
  <2>3. UiOK(ui) /\ DOMAIN ui = UiFields /\ Quiet(World)
    BY <1>1, WorldIs DEF Base, UiOK
  <2>4. /\ But(ui, ui', {"drag", "dialog"}) /\ ui'.drag = None /\ ui'.dialog = None
        /\ ui'.keep = ui.keep /\ ui'.editor = ui.editor /\ ui'.removing = ui.removing
    BY <2>1, <2>3 DEF But, UiFields
  <2>5. But(hidden.ui, World'.ui, AsideFields)
    BY <1>3, <2>4, WorldIs DEF But, AsideFields
  <2>6. /\ ui'.keep \in Some /\ ui'.drag \in Some /\ EditorOK(ui'.editor)
        /\ ui'.dialog \in Tabs \cup {None} /\ ui'.removing \in Tabs \cup {None}
    BY <2>3, <2>4 DEF UiOK, Some
  <2>7. ~ui.active => ui'.keep = None /\ ui'.editor.id = None
    BY <2>3, <2>4, WorldIs DEF Quiet, Blank
  <2>8. World'.asked = hidden.asked /\ World'.inbox = hidden.inbox /\ IsState(World')
        /\ World'.ui = ui'
    BY <1>3, <2>1, WorldIs
  <2> QED BY <1>3, <2>2, <2>5, <2>6, <2>7, <2>8, FineAside
<1>6. CASE \E i \in Items : Expire(i)
  <2>1. /\ ui' = ui /\ asked' = asked /\ inbox' = inbox /\ db' = db /\ named' = named
        /\ expired \subseteq expired' /\ asOf' = asOf /\ shifted' = shifted
    BY <1>6 DEF Expire
  <2>2. /\ g.listed = h.listed /\ g.found = h.found /\ g.tabs = h.tabs /\ g.at = h.at
        /\ g.shifted = h.shifted /\ h.now \subseteq g.now
    BY <2>1 DEF Memory, Listed, Found, ShownTabs
  <2>3. Fine(World, g)
    BY <2>2, FineLater
  <2> QED BY <2>1, <2>3, WorldIs, FineSame
<1> QED BY <1>2, <1>4, <1>5, <1>6

-----------------------------------------------------------------------------
(* What arrives.  s before, p without the message m that has arrived.      *)
Popped(s, p, m) ==
  /\ Incoming(p, m) /\ p.ui = s.ui /\ p.asked = s.asked
  /\ 1 \in DOMAIN s.inbox /\ m = s.inbox[1]
  /\ \A k \in DOMAIN p.inbox : /\ p.inbox[k] = s.inbox[k + 1]
                               /\ k + 1 \in DOMAIN s.inbox /\ k \in Nat
  /\ \A k \in DOMAIN s.inbox : k = 1 \/ k - 1 \in DOMAIN p.inbox
  /\ Len(p.inbox) = Len(s.inbox) - 1 /\ Len(s.inbox) \in Nat
  /\ DOMAIN p.inbox = 1 .. Len(p.inbox) /\ DOMAIN s.inbox = 1 .. Len(s.inbox)

LEMMA PoppedIs ==
  ASSUME NEW s, Base(s), s.inbox # <<>>
  PROVE  Popped(s, [s EXCEPT !.inbox = Tail(@)], Head(s.inbox))
<1> DEFINE p == [s EXCEPT !.inbox = Tail(@)]
           m == Head(s.inbox)
<1>1. /\ Incoming(p, m) /\ p.ui = s.ui /\ p.asked = s.asked
      /\ 1 \in DOMAIN s.inbox /\ m = s.inbox[1]
      /\ \A k \in DOMAIN p.inbox : /\ p.inbox[k] = s.inbox[k + 1]
                                   /\ k + 1 \in DOMAIN s.inbox /\ k \in Nat
      /\ \A k \in DOMAIN s.inbox : k = 1 \/ k - 1 \in DOMAIN p.inbox
      /\ Len(p.inbox) = Len(s.inbox) - 1 /\ Len(s.inbox) \in Nat
      /\ DOMAIN p.inbox = 1 .. Len(p.inbox) /\ DOMAIN s.inbox = 1 .. Len(s.inbox)
  BY PopIs
<1> HIDE DEF p, m
<1> QED BY <1>1 DEF Popped, p, m

LEMMA StillPopped ==
  ASSUME NEW s, NEW p, NEW m, Popped(s, p, m), m.kind # "changed"
  PROVE  /\ \A k \in DOMAIN p.inbox :
              /\ Still(p.inbox, 1, k) => Still(s.inbox, 1, k + 1)
              /\ Still(p.inbox, k, Len(p.inbox)) => Still(s.inbox, k + 1, Len(s.inbox))
         /\ Still(p.inbox, 1, Len(p.inbox)) => Still(s.inbox, 1, Len(s.inbox))
         /\ Still(s.inbox, 1, 1)
<1>1. Len(p.inbox) \in Nat /\ Len(p.inbox) + 1 = Len(s.inbox)
  <2>1. Len(s.inbox) >= 1
    BY DEF Popped
  <2> QED BY <2>1 DEF Popped
<1>2. ASSUME NEW i \in Nat \ {0}, NEW j \in Nat, j <= Len(p.inbox), Still(p.inbox, i, j)
      PROVE  /\ Still(s.inbox, i + 1, j + 1)
             /\ i = 1 => Still(s.inbox, 1, j + 1)
  <2>1. ASSUME NEW n \in i + 1 .. j + 1 PROVE s.inbox[n].kind # "changed"
    <3>1. n - 1 \in i .. j /\ n - 1 \in 1 .. Len(p.inbox) /\ n - 1 + 1 = n
      BY <1>2, <1>1
    <3>2. p.inbox[n - 1].kind # "changed"
      BY <1>2, <3>1 DEF Still
    <3>3. p.inbox[n - 1] = s.inbox[n]
      BY <3>1 DEF Popped
    <3> QED BY <3>2, <3>3
  <2>2. ASSUME NEW n \in 1 .. j + 1, i = 1 PROVE s.inbox[n].kind # "changed"
    <3>1. n = 1 \/ n \in i + 1 .. j + 1
      BY <2>2
    <3>2. s.inbox[1].kind # "changed"
      BY DEF Popped
    <3> QED BY <2>1, <3>1, <3>2
  <2> QED BY <2>1, <2>2 DEF Still
<1>3. ASSUME NEW k \in DOMAIN p.inbox
      PROVE  /\ Still(p.inbox, 1, k) => Still(s.inbox, 1, k + 1)
             /\ Still(p.inbox, k, Len(p.inbox)) => Still(s.inbox, k + 1, Len(s.inbox))
  <2>1. k \in Nat \ {0} /\ k <= Len(p.inbox)
    BY <1>1 DEF Popped
  <2> QED BY <1>2, <1>1, <2>1
<1>4. Still(p.inbox, 1, Len(p.inbox)) => Still(s.inbox, 1, Len(s.inbox))
  <2>1. CASE Len(p.inbox) = 0
    <3>1. Still(s.inbox, 1, Len(s.inbox))
      BY <1>1, <2>1 DEF Still, Popped
    <3> QED BY <3>1
  <2>2. CASE Len(p.inbox) # 0
    BY <1>2, <1>1, <2>2
  <2> QED BY <2>1, <2>2
<1>5. Still(s.inbox, 1, 1)
  BY DEF Still, Popped
<1> QED BY <1>3, <1>4, <1>5

(* What is remembered once m has been handled.                             *)
Turned(h, m, g) ==
  /\ g.listed = h.listed /\ g.found = h.found /\ g.tabs = h.tabs /\ g.now = h.now
  /\ m.kind \in {"changed", "shown"} => g.at = {} /\ g.shifted = h.shifted
  /\ m.kind \in {"list", "search"} /\ m.live /\ m.ok =>
       /\ g.at = m.asOf
       /\ g.shifted <=> m.kind = "list" /\ ~m.reload /\ (h.shifted \/ m.asOf # h.at)
  /\ m.kind \notin {"changed", "shown"} /\ ~(m.kind \in {"list", "search"} /\ m.live /\ m.ok) =>
       g.at = h.at /\ g.shifted = h.shifted

LEMMA FineTurned ==
  ASSUME NEW s, NEW h, Fine(s, h), NEW m, NEW g, Turned(h, m, g),
         m.kind \notin {"changed", "shown"}, ~(m.kind \in {"list", "search"} /\ m.live /\ m.ok)
  PROVE  Fine(s, g)
BY FineLater DEF Turned

(* What was on screen and on its way is still so.                          *)
LEMMA PoppedView ==
  ASSUME NEW s, NEW l, NEW tabs, NEW h, Seen(s, l, tabs, h), NEW p, NEW m, Popped(s, p, m),
         m.kind # "changed"
  PROVE  /\ View(p, l, tabs, h) /\ Due(p, l, tabs, h) /\ Cover(p) /\ Covers(m, p)
         /\ s.ui.active /\ Live(m, {"preview"}) => Opened(m.id, s.ui, l, h)
         /\ s.ui.active /\ s.ui.mode = "recent" /\ Live(m, {"list"}) /\ m.ok =>
              PageDue(m, l, tabs, h, s.ui.filter, Still(p.inbox, 1, Len(p.inbox)))
         /\ s.ui.active /\ Live(m, {"search"}) /\ m.ok =>
              HitsDue(m, h, s.ui.filter, Still(p.inbox, 1, Len(p.inbox)))
<1>1. p.ui = s.ui /\ p.asked = s.asked /\ 1 \in DOMAIN s.inbox /\ m = s.inbox[1]
  BY DEF Popped
<1>2. \A k \in DOMAIN p.inbox : p.inbox[k] = s.inbox[k + 1] /\ k + 1 \in DOMAIN s.inbox
  BY DEF Popped
<1>3. /\ \A k \in DOMAIN p.inbox :
           /\ Still(p.inbox, 1, k) => Still(s.inbox, 1, k + 1)
           /\ Still(p.inbox, k, Len(p.inbox)) => Still(s.inbox, k + 1, Len(s.inbox))
      /\ Still(p.inbox, 1, Len(p.inbox)) => Still(s.inbox, 1, Len(s.inbox))
      /\ Still(s.inbox, 1, 1)
  BY StillPopped
<1>4. View(s, l, tabs, h) /\ Due(s, l, tabs, h) /\ Cover(s)
  BY DEF Seen, Looks
<1>5. View(p, l, tabs, h)
  BY <1>1, <1>2, <1>4 DEF View
<1> DEFINE before == Still(s.inbox, 1, Len(s.inbox))
           after == Still(p.inbox, 1, Len(p.inbox))
<1>6. /\ before \in BOOLEAN /\ after \in BOOLEAN /\ (after => before)
      /\ \A d : PageDue(d, l, tabs, h, s.ui.filter, before)
                  => PageDue(d, l, tabs, h, s.ui.filter, after)
  <2>1. before \in BOOLEAN /\ after \in BOOLEAN /\ (after => before)
    BY <1>3 DEF Still
  <2> HIDE DEF before, after
  <2> QED BY <2>1, DueLater
<1>12. \A d, a, b : (b => a) => (HitsDue(d, h, s.ui.filter, a) => HitsDue(d, h, s.ui.filter, b))
  BY DEF HitsDue
<1>13. Due(p, l, tabs, h)
  <2>1. ASSUME s.ui.active, s.ui.mode = "recent", NEW k \in DOMAIN p.inbox,
               Live(p.inbox[k], {"list"}), p.inbox[k].ok, Still(p.inbox, 1, k)
        PROVE  PageDue(p.inbox[k], l, tabs, h, s.ui.filter, after)
    <3>1. PageDue(p.inbox[k], l, tabs, h, s.ui.filter, before)
      BY <1>2, <1>3, <1>4, <2>1 DEF Due
    <3> HIDE DEF before, after
    <3> QED BY <1>6, <3>1
  <2>2. ASSUME s.ui.active, after
        PROVE  /\ h.at \subseteq h.now
               /\ s.ui.mode = "recent" => l = h.listed[s.ui.filter][h.at] /\ tabs = h.tabs[h.at]
    BY <1>4, <1>6, <2>2 DEF Due
  <2>3. ASSUME s.ui.active, NEW k \in DOMAIN p.inbox, Live(p.inbox[k], {"search"}), p.inbox[k].ok
        PROVE  HitsDue(p.inbox[k], h, s.ui.filter, Still(p.inbox, k, Len(p.inbox)))
    <3>1. HitsDue(p.inbox[k], h, s.ui.filter, Still(s.inbox, k + 1, Len(s.inbox)))
      BY <1>2, <1>4, <2>3 DEF Due
    <3> QED BY <1>3, <1>12, <3>1
  <2> QED BY <1>1, <2>1, <2>2, <2>3 DEF Due
<1>7. \A d : Covers(d, s) => Covers(d, p)
  BY <1>1 DEF Covers, Spans, RangeStart, RangeEnd
<1>8. Cover(p) /\ Covers(m, p)
  BY <1>1, <1>2, <1>4, <1>7 DEF Cover
<1>9. s.ui.active /\ Live(m, {"preview"}) => Opened(m.id, s.ui, l, h)
  BY <1>1, <1>4 DEF View
<1>10. ASSUME s.ui.active, s.ui.mode = "recent", Live(m, {"list"}), m.ok
       PROVE  PageDue(m, l, tabs, h, s.ui.filter, after)
  <2>1. PageDue(m, l, tabs, h, s.ui.filter, before)
    BY <1>1, <1>3, <1>4, <1>10 DEF Due
  <2> HIDE DEF before, after
  <2> QED BY <1>6, <2>1
<1>11. ASSUME s.ui.active, Live(m, {"search"}), m.ok
       PROVE  HitsDue(m, h, s.ui.filter, after)
  <2>1. HitsDue(m, h, s.ui.filter, before)
    BY <1>1, <1>4, <1>11 DEF Due
  <2> HIDE DEF before, after
  <2> QED BY <1>6, <1>12, <2>1
<1> QED BY <1>5, <1>8, <1>9, <1>10, <1>11, <1>13

LEMMA PoppedSeen ==
  ASSUME NEW s, NEW l, NEW tabs, NEW h, Seen(s, l, tabs, h), NEW p, NEW m, Popped(s, p, m),
         m.kind # "changed", ~Live(m, {"list"}), ~Live(m, {"search"})
  PROVE  Seen(p, l, tabs, h)
<1>1. View(p, l, tabs, h) /\ Due(p, l, tabs, h) /\ Cover(p)
  BY PoppedView
<1>2. \A K \in {{"list"}, {"search"}} : NoneLive(p, K) => NoneLive(s, K)
  <2> SUFFICES ASSUME NEW K \in {{"list"}, {"search"}}, NoneLive(p, K) PROVE NoneLive(s, K)
    OBVIOUS
  <2>1. ~Live(m, K)
    OBVIOUS
  <2>2. ASSUME NEW k \in DOMAIN s.inbox PROVE ~Live(s.inbox[k], K)
    <3>1. CASE k = 1
      BY <2>1, <3>1 DEF Popped
    <3>2. CASE k # 1
      <4>1. k - 1 \in DOMAIN p.inbox /\ k - 1 + 1 = k
        BY <3>2 DEF Popped
      <4>2. p.inbox[k - 1] = s.inbox[k]
        BY <4>1 DEF Popped
      <4> QED BY <4>1, <4>2 DEF NoneLive
    <3> QED BY <3>1, <3>2
  <2> QED BY <2>2 DEF NoneLive, Popped
<1>3. Still(p.inbox, 1, Len(p.inbox)) => Still(s.inbox, 1, Len(s.inbox))
  BY StillPopped
<1>4. p.ui = s.ui
  BY DEF Popped
<1>5. Known(p, l, tabs, h) /\ Whole(p)
  BY <1>2, <1>3, <1>4 DEF Seen, Looks, Known, Whole
<1> QED BY <1>1, <1>5 DEF Seen, Looks

LEMMA FineRefresh ==
  ASSUME NEW s, NEW h, MemoryOK(h), Fine(s, h), NEW W \in SUBSET Waiters
  PROVE  Fine(Refresh(s, W), h)
<1> DEFINE t == Refresh(s, W)
<1>1. Base(s)
  BY DEF Fine
<1>2. CASE s.ui.active
  <2>1. /\ Fresh(t) /\ t.ui.filter = s.ui.filter /\ t.ui.mode = s.ui.mode
        /\ t.ui.mode = "search" => t.ui.rows = s.ui.rows /\ t.ui.offset = s.ui.offset
        /\ SameKinds(s, t)
    BY <1>1, <1>2, FreshRefresh
  <2> HIDE DEF t
  <2>2. t.ui.rows # <<>> => t.ui.mode = "search"
    BY <2>1 DEF Fresh, Base, UiOK
  <2>3. Fine(t, h)
    BY <1>2, <2>1, <2>2, FineFresh
  <2> QED BY <2>3 DEF t
<1>3. CASE ~s.ui.active
  <2>1. t = Done(s, W)
    BY <1>3 DEF Refresh
  <2> HIDE DEF t
  <2>2. Fine(t, h)
    BY <2>1, FineDone
  <2> QED BY <2>2 DEF t
<1> QED BY <1>2, <1>3

(* The word of a change: whatever was on screen, the view is read anew.    *)
LEMMA FineChanged ==
  ASSUME NEW s, NEW h, Fine(s, h), NEW p, NEW m, Popped(s, p, m), m.kind = "changed",
         NEW g, MemoryOK(g), g.at = {}
  PROVE  Fine(Handle(p, m), g)
<1> DEFINE t == Refresh(p, {})
<1>1. Base(p) /\ p.ui = s.ui
  BY DEF Popped, Incoming
<1>2. CASE ~p.ui.active
  <2>1. Handle(p, m) = p
    BY <1>2 DEF Handle
  <2> QED BY <1>1, <1>2, <2>1, InactiveFine
<1>3. CASE p.ui.active
  <2>1. Handle(p, m) = t
    BY <1>3 DEF Handle
  <2>2. /\ Fresh(t) /\ t.ui.filter = p.ui.filter /\ t.ui.mode = p.ui.mode
        /\ t.ui.mode = "search" => t.ui.rows = p.ui.rows /\ t.ui.offset = p.ui.offset
    BY <1>1, <1>3, FreshRefresh
  <2> HIDE DEF t
  <2>3. t.ui.rows # <<>> => t.ui.mode = "search"
    BY <2>2 DEF Fresh, Base, UiOK
  <2>4. PICK l, tabs : Seen(s, l, tabs, h)
    BY DEF Fine, Sound
  <2>5. l \in Seq(ListRows) /\ Distinct(l) /\ (t.ui.rows # <<>> => Shows(t.ui, l))
    BY <1>1, <1>3, <2>2, <2>3, <2>4 DEF Seen, Looks, View, Shows
  <2>6. Sound(t, g)
    BY <2>2, <2>5, FreshSeen
  <2> QED BY <2>1, <2>2, <2>6 DEF Fine, Fresh
<1> QED BY <1>2, <1>3

LEMMA FineShownHidden ==
  ASSUME NEW h, MemoryOK(h), NEW p, NEW m, Incoming(p, m), m.kind \in {"shown", "hidden"},
         m.kind = "shown" => h.at = {}
  PROVE  Fine(Handle(p, m), h)
<1>1. Pre(p)
  BY DEF Incoming, Base, Pre
<1>2. CASE m.kind = "hidden"
  <2> DEFINE t == Scrub(p)
  <2>1. Handle(p, m) = t
    BY <1>2 DEF Handle
  <2>2. Base(t) /\ ~t.ui.active
    BY <1>1, ScrubIs
  <2> HIDE DEF t
  <2> QED BY <2>1, <2>2, InactiveFine
<1>3. CASE m.kind = "shown"
  <2> DEFINE t == OnShown(p)
  <2>1. Handle(p, m) = t
    BY <1>3 DEF Handle
  <2>2. Fresh(t) /\ t.ui.filter = "all" /\ t.ui.rows = <<>>
    BY <1>1, OnShownIs
  <2> HIDE DEF t
  <2>3. <<>> \in Seq(ListRows) /\ Distinct(<<>>)
    BY DEF Distinct
  <2>4. Sound(t, h)
    BY <1>3, <2>2, <2>3, FreshSeen
  <2> QED BY <2>1, <2>2, <2>4 DEF Fine, Fresh
<1> QED BY <1>2, <1>3

LEMMA FinePopped ==
  ASSUME NEW s, NEW h, Fine(s, h), NEW p, NEW m, Popped(s, p, m),
         m.kind # "changed", ~Live(m, {"list"}), ~Live(m, {"search"})
  PROVE  Fine(p, h)
<1>1. PICK l, tabs : Seen(s, l, tabs, h)
  BY DEF Fine, Sound
<1>2. Seen(p, l, tabs, h)
  BY <1>1, PoppedSeen
<1> QED BY <1>2 DEF Fine, Sound, Popped, Incoming

(* The answers after which the view is read anew, or nothing is new.       *)
LEMMA FineOthers ==
  ASSUME NEW h, MemoryOK(h), NEW p, Fine(p, h), NEW m, Incoming(p, m),
         m.kind \in {"pin", "remove", "tag", "title", "createTab", "removeTab", "copy"}
  PROVE  Fine(Handle(p, m), h)
<1>1. Base(p) /\ {} \in SUBSET Waiters
  BY DEF Fine
<1>2. CASE m.kind \in {"pin", "remove"}
  <2>1. Handle(p, m) = IF m.ok THEN Refresh(p, {}) ELSE p
    BY <1>2 DEF Handle, OnPinned
  <2> QED BY <1>1, <2>1, FineRefresh
<1>3. CASE m.kind = "tag"
  <2> DEFINE W == OnTaggedWaiters(m)
             n == Noted(p, m)
  <2>1. CallOK(m) /\ W \in SUBSET Waiters
    BY <1>3 DEF Incoming, MessageOK, EventKinds, AnswerOK, OnTaggedWaiters, Waiters
  <2>2. Base(n) /\ Pre(n) /\ AllBeside(p, n) /\ But(p.ui, n.ui, {"editor"})
    BY <1>1, <1>3, <2>1, NotedIs
  <2>3. Handle(p, m) = IF m.ok THEN Refresh(n, W) ELSE Done(p, W)
    BY <1>3, OnTaggedIs DEF Handle
  <2> HIDE DEF W, n
  <2>4. But(p.ui, n.ui, AsideFields)
    BY <2>2 DEF But, AsideFields
  <2>5. Fine(n, h)
    BY <2>2, <2>4, FineBeside
  <2>6. Fine(Refresh(n, W), h) /\ Fine(Done(p, W), h)
    BY <2>1, <2>5, FineRefresh, FineDone
  <2> QED BY <2>3, <2>6
<1>4. CASE m.kind = "title"
  <2> DEFINE n == HidePreview(CloseEditors(p, AllEditors))
  <2>1. Fine(n, h)
    BY FineClose, FineHide
  <2>2. Handle(p, m) = IF m.live /\ m.ok THEN Refresh(n, {}) ELSE p
    BY <1>4 DEF Handle, OnTitled
  <2> HIDE DEF n
  <2> QED BY <1>1, <2>1, <2>2, FineRefresh
<1>5. CASE m.kind = "createTab"
  <2> DEFINE n == CloseEditors(p, AllEditors)
             u == [p EXCEPT !.ui.editor.saving = FALSE]
  <2>1. Fine(n, h)
    BY FineClose
  <2>2. Handle(p, m) = IF ~m.live THEN p ELSE IF m.ok THEN Refresh(n, {}) ELSE u
    BY <1>5 DEF Handle, OnTabCreated
  <2> FALSE \in BOOLEAN
    OBVIOUS
  <2>3. Base(u) /\ Pre(u) /\ AllBeside(p, u) /\ But(p.ui, u.ui, {"editor"})
        /\ u.asked = p.asked /\ u.inbox = p.inbox
    BY <1>1, NotSaving
  <2> HIDE DEF n, u
  <2>4. But(p.ui, u.ui, AsideFields)
    BY <2>3 DEF But, AsideFields
  <2>5. Fine(u, h)
    BY <2>3, <2>4, FineBeside
  <2> QED BY <1>1, <2>1, <2>2, <2>5, FineRefresh
<1>6. CASE m.kind = "removeTab"
  <2> DEFINE t == [p EXCEPT !.ui.removing = None]
             a == [t EXCEPT !.ui.filter = "all"]
  <2>1. /\ Base(t) /\ AllBeside(p, t) /\ But(p.ui, t.ui, {"removing"})
        /\ t.asked = p.asked /\ t.inbox = p.inbox
        /\ \/ OnTabRemoved(p, m) = t
           \/ /\ p.ui.active /\ OnTabRemoved(p, m) = ReloadFilter(a)
              /\ Pre(a) /\ a.ui.active /\ a.ui.filter = "all"
           \/ p.ui.active /\ OnTabRemoved(p, m) = Refresh(t, {})
    BY <1>6, OnTabRemovedIs
  <2>2. Handle(p, m) = OnTabRemoved(p, m)
    BY <1>6 DEF Handle
  <2>7. a.inbox = p.inbox
    BY <1>1 DEF Base, IsState, Carries
  <2> HIDE DEF t, a
  <2>3. But(p.ui, t.ui, AsideFields)
    BY <2>1 DEF But, AsideFields
  <2>4. Fine(t, h)
    BY <2>1, <2>3, FineBeside
  <2>5. Fine(Refresh(t, {}), h)
    BY <1>1, <2>4, FineRefresh
  <2>6. ASSUME p.ui.active, Pre(a), a.ui.active PROVE Fine(ReloadFilter(a), h)
    <3> DEFINE r == ReloadFilter(a)
    <3>1. /\ Fresh(r) /\ r.ui.filter = a.ui.filter /\ r.ui.rows = <<>> /\ r.ui.keep = None
          /\ SameKinds(a, r)
      BY <2>6, ReloadFilterIs
    <3> HIDE DEF r
    <3>2. SameKinds(p, r)
      BY <2>7, <3>1 DEF SameKinds
    <3>3. Fine(r, h)
      BY <2>6, <3>1, <3>2, FineFresh
    <3> QED BY <3>3 DEF r
  <2> QED BY <2>1, <2>2, <2>4, <2>5, <2>6
<1>7. CASE m.kind = "copy"
  <2>1. Handle(p, m) = p
    BY <1>7 DEF Handle
  <2> QED BY <2>1
<1> QED BY <1>2, <1>3, <1>4, <1>5, <1>6, <1>7

LEMMA FinePreview ==
  ASSUME NEW s, NEW h, Fine(s, h), NEW p, NEW m, Popped(s, p, m), m.kind = "preview"
  PROVE  Fine(Handle(p, m), h)
<1> DEFINE x == IF m.ok THEN m.id ELSE None
           t == [p EXCEPT !.ui.preview = x]
<1>1. /\ ~Live(m, {"list"}) /\ ~Live(m, {"search"}) /\ Incoming(p, m) /\ p.ui = s.ui
      /\ x \in Some
  BY DEF Live, Popped, Incoming, MessageOK, EventKinds, AnswerOK, CallOK, Some
<1>2. Fine(p, h) /\ Base(p)
  BY <1>1, FinePopped DEF Fine
<1>3. Handle(p, m) = Done(IF m.live THEN t ELSE p, m.done)
  BY DEF Handle, OnPreview
<1>4. ASSUME m.live PROVE Fine(t, h)
  <2>1. Live(m, {"preview"})
    BY <1>4 DEF Live
  <2>2. x = m.id \/ x = None
    OBVIOUS
  <2> HIDE DEF x
  <2>3. /\ Base(t) /\ t.asked = p.asked /\ t.inbox = p.inbox
        /\ But(p.ui, t.ui, {"preview"}) /\ t.ui.preview = x /\ p.ui.active
    BY <1>1, <2>1, PreviewShown
  <2>4. PICK l, tabs : Seen(s, l, tabs, h)
    BY DEF Fine, Sound
  <2>5. Seen(p, l, tabs, h)
    BY <1>1, <2>4, PoppedSeen
  <2>6. Opened(m.id, p.ui, l, h)
    BY <1>1, <2>1, <2>3, <2>4, PoppedView
  <2> HIDE DEF t
  <2>7. DOMAIN p.ui = UiFields
    BY <1>2 DEF Base, UiOK
  <2>8. /\ SameView(p.ui, t.ui)
        /\ t.ui.sel = p.ui.sel /\ t.ui.revealed = p.ui.revealed
        /\ t.ui.start = p.ui.start /\ t.ui.height = p.ui.height
    BY <2>3, <2>7 DEF But, UiFields, SameView
  <2>9. \A id : Opened(id, p.ui, l, h) => Opened(id, t.ui, l, h)
    BY <2>8 DEF Opened
  <2>10. View(t, l, tabs, h)
    BY <2>2, <2>3, <2>5, <2>6, <2>8, <2>9 DEF Seen, Looks, View, SameView, Shows
  <2>11. Due(t, l, tabs, h) /\ Known(t, l, tabs, h)
    BY <2>3, <2>5, <2>8 DEF Seen, Looks, Due, Known, SameView, NoneLive
  <2>12. Whole(t)
    BY <2>3, <2>5, <2>8 DEF Seen, Whole, Full, SameView, NoneLive
  <2>13. \A d : Covers(d, p) => Covers(d, t)
    BY <2>8 DEF Covers, Spans, RangeStart, RangeEnd, SameView, Placed
  <2>14. Cover(t)
    BY <2>3, <2>5, <2>13 DEF Seen, Cover
  <2>15. Sound(t, h)
    BY <2>10, <2>11, <2>12, <2>14 DEF Seen, Looks, Sound
  <2> QED BY <2>3, <2>15 DEF Fine
<1> HIDE DEF t, x
<1> QED BY <1>2, <1>3, <1>4, FineDone

(* A page of l, taken.                                                     *)
LEMMA PageShows ==
  ASSUME NEW l \in Seq(ListRows), NEW offset \in Nat, NEW limit \in Nat, NEW u,
         u.rows = Page(l, offset, limit), u.offset = offset
  PROVE  /\ u.rows # <<>> => Shows(u, l)
         /\ \A i \in Nat : offset <= i /\ i < Len(l) /\ i < offset + limit =>
              i - offset + 1 \in DOMAIN u.rows
<1> DEFINE q == Page(l, offset, limit)
           n == MinOf(Len(l), offset + limit)
<1>1. /\ q \in Seq(ListRows) /\ DOMAIN q = 1 .. Len(q)
      /\ Len(q) = (IF n >= offset THEN n - offset ELSE 0)
      /\ \A k \in DOMAIN q : offset + k \in DOMAIN l /\ q[k] = l[offset + k]
      /\ Distinct(l) => Distinct(q)
  BY PageIs
<1> HIDE DEF q
<1>2. Len(l) \in Nat /\ n \in Nat /\ n <= Len(l) /\ (n = Len(l) \/ n = offset + limit)
  BY DEF MinOf
<1> HIDE DEF n
<1>3. ASSUME q # <<>> PROVE Shows(u, l)
  <2>1. Len(q) # 0
    BY <1>1, <1>3
  <2>2. offset + Len(q) <= Len(l)
    BY <1>1, <1>2, <2>1
  <2> QED BY <1>1, <2>2 DEF Shows, q
<1>4. ASSUME NEW i \in Nat, offset <= i, i < Len(l), i < offset + limit
      PROVE  i - offset + 1 \in DOMAIN q
  <2>1. i < n
    BY <1>2, <1>4
  <2>2. i - offset + 1 \in 1 .. Len(q)
    BY <1>1, <1>2, <1>4, <2>1
  <2> QED BY <1>1, <2>2
<1> QED BY <1>3, <1>4 DEF q

(* It has the rows of the window, also if there are more rows than were    *)
(* known when it was asked for, since a page is at least as long as the    *)
(* window.                                                                 *)
LEMMA PageFull ==
  ASSUME WindowFits, NEW p, UiOK(p.ui), NEW offset \in Nat, NEW limit \in Nat, limit >= FetchSpan,
         Spans(p, offset, limit), Placed(p.ui), NEW i \in Nat,
         p.ui.start <= i, i < p.ui.start + p.ui.height
  PROVE  offset <= i /\ i < offset + limit
<1>1. /\ RangeStart(p) \in Nat /\ RangeEnd(p) \in Nat
      /\ RangeStart(p) <= p.ui.start
      /\ p.ui.height \in Nat \ {0} /\ p.ui.start \in Nat /\ p.ui.total \in Nat
      /\ RangeEnd(p) >= MinOf(p.ui.total, p.ui.start + p.ui.height)
  BY RangeIs
<1>2. RangeStart(p) >= offset /\ RangeEnd(p) <= offset + limit
  BY DEF Spans
<1>3. FetchSpan \in Nat /\ p.ui.height <= FetchSpan
  BY PaletteAssumption DEF WindowFits, UiOK
<1>4. CASE p.ui.start + p.ui.height <= p.ui.total
  <2>1. RangeEnd(p) >= p.ui.start + p.ui.height
    BY <1>1, <1>4 DEF MinOf
  <2> QED BY <1>1, <1>2, <2>1
<1>5. CASE p.ui.start + p.ui.height > p.ui.total
  <2>1. p.ui.start = 0
    BY <1>1, <1>5 DEF Placed, MaxOf
  <2> QED BY <1>1, <1>2, <1>3, <2>1
<1> QED BY <1>1, <1>4, <1>5

LEMMA ListFailed ==
  ASSUME NEW s, NEW h, Fine(s, h), NEW p, NEW m, Popped(s, p, m),
         Live(m, {"list"}) \/ Live(m, {"search"})
  PROVE  Fine([p EXCEPT !.ui.failed = TRUE], h)
<1> DEFINE t == [p EXCEPT !.ui.failed = TRUE]
<1>1. Incoming(p, m) /\ p.ui = s.ui /\ Base(p)
  BY DEF Popped, Incoming
<1>2. /\ NoneLive(p, {"list", "search"}) /\ p.ui.active /\ m.kind \in {"list", "search"}
  BY <1>1, NothingElse
<1>3. /\ Base(t) /\ t.asked = p.asked /\ t.inbox = p.inbox
      /\ But(p.ui, t.ui, {"failed"}) /\ t.ui.failed = TRUE
  BY <1>1, SetFailed
<1> HIDE DEF t
<1>4. PICK l, tabs : Seen(s, l, tabs, h)
  BY DEF Fine, Sound
<1>5. View(p, l, tabs, h) /\ Due(p, l, tabs, h)
  BY <1>2, <1>4, PoppedView
<1>6. DOMAIN p.ui = UiFields
  BY <1>1 DEF Base, UiOK
<1>7. /\ t.ui.active = p.ui.active /\ t.ui.mode = p.ui.mode /\ t.ui.filter = p.ui.filter
      /\ t.ui.rows = p.ui.rows /\ t.ui.offset = p.ui.offset /\ t.ui.total = p.ui.total
      /\ t.ui.tabs = p.ui.tabs /\ t.ui.sel = p.ui.sel /\ t.ui.revealed = p.ui.revealed
      /\ t.ui.preview = p.ui.preview
  BY <1>3, <1>6 DEF But, UiFields
<1>8. \A id : Opened(id, p.ui, l, h) => Opened(id, t.ui, l, h)
  BY <1>7 DEF Opened
<1>9. View(t, l, tabs, h)
  BY <1>3, <1>5, <1>7, <1>8 DEF View, Shows
<1>10. Due(t, l, tabs, h)
  BY <1>3, <1>5, <1>7 DEF Due
<1>11. Known(t, l, tabs, h) /\ Whole(t)
  BY <1>3 DEF Known, Whole
<1>12. Cover(t)
  BY <1>2, <1>3 DEF Cover, Covers, NoneLive, Live
<1> QED BY <1>3, <1>9, <1>10, <1>11, <1>12 DEF Fine, Sound, Seen, Looks, t

(* A page that has arrived: of the list on screen, or of what is left of it.*)
LEMMA PageSeen ==
  ASSUME NEW s, NEW l, NEW tabs, NEW h, Seen(s, l, tabs, h), NEW p, NEW m, Popped(s, p, m),
         Live(m, {"list"}), m.ok, NEW g, Turned(h, m, g)
  PROVE  LET t == TakePage(p, m)
         IN  \E n, q : /\ Looks(t, n, q, g) /\ Cover(t)
                       /\ ~m.reload => Whole(t)
                       /\ m.reload => t.ui.preview = None /\ NoneLive(t, {"preview"})
<1> DEFINE t == TakePage(p, m)
           F == {"rows", "offset", "total", "tabs", "failed", "sel"}
<1>1. Incoming(p, m) /\ p.ui = s.ui /\ Base(p) /\ UiOK(p.ui)
  BY DEF Popped, Incoming, Base
<1>2. /\ NoneLive(p, {"list", "search"}) /\ p.ui.active /\ AnswerOK(m) /\ m.kind = "list"
  BY <1>1, NothingElse DEF Live
<1>3. /\ Base(t) /\ t.asked = p.asked /\ t.inbox = p.inbox
      /\ DOMAIN t.ui = UiFields /\ \A x \in UiFields \ F : t.ui[x] = p.ui[x]
      /\ t.ui.rows = m.rows /\ t.ui.offset = m.offset /\ t.ui.total = m.total
      /\ t.ui.tabs = m.tabs /\ t.ui.failed = FALSE
      /\ t.ui.sel = (IF p.ui.sel >= m.total THEN MaxOf(0, m.total - 1) ELSE p.ui.sel)
  BY <1>1, TakePageIs
<1> HIDE DEF t
<1>4. /\ t.ui.active = p.ui.active /\ t.ui.mode = p.ui.mode /\ t.ui.filter = p.ui.filter
      /\ t.ui.revealed = p.ui.revealed /\ t.ui.preview = p.ui.preview
      /\ t.ui.start = p.ui.start /\ t.ui.height = p.ui.height
  BY <1>3 DEF UiFields
<1>5. /\ p.ui.mode = "recent" /\ m.filter = p.ui.filter
      /\ m.reload => p.ui.preview = None
  BY <1>1 DEF Incoming, Fits
<1> DEFINE still == Still(p.inbox, 1, Len(p.inbox))
<1>6. /\ View(p, l, tabs, h) /\ Due(p, l, tabs, h) /\ Covers(m, p)
      /\ PageDue(m, l, tabs, h, p.ui.filter, still)
  BY <1>1, <1>2, <1>5, PoppedView
<1>18. PICK n, q :
         /\ PageOf(m, n, q) /\ n \in Seq(ListRows) /\ Distinct(n)
         /\ m.asOf = h.at => n = l /\ q = tabs
         /\ still => n = h.listed[p.ui.filter][m.asOf] /\ q = h.tabs[m.asOf] /\ m.asOf \subseteq h.now
  BY <1>6 DEF PageDue
<1>19. /\ g.listed = h.listed /\ g.found = h.found /\ g.tabs = h.tabs /\ g.now = h.now
       /\ g.at = m.asOf /\ (g.shifted <=> ~m.reload /\ (h.shifted \/ m.asOf # h.at))
  BY <1>2 DEF Turned, Live
<1>7. /\ n \in Seq(ListRows) /\ Distinct(n) /\ Len(n) \in Nat /\ DOMAIN n = 1 .. Len(n)
  BY <1>18
<1>8. m.offset \in Nat /\ m.limit \in Nat /\ m.limit >= FetchSpan /\ m.reload \in BOOLEAN
  BY <1>2 DEF AnswerOK, CallOK
<1>9. m.rows = Page(n, m.offset, m.limit) /\ m.total = Len(n) /\ m.tabs = q
  BY <1>18 DEF PageOf
<1>10. /\ t.ui.rows # <<>> => Shows(t.ui, n)
       /\ \A i \in Nat : m.offset <= i /\ i < Len(n) /\ i < m.offset + m.limit =>
            i - m.offset + 1 \in DOMAIN t.ui.rows
  BY <1>3, <1>7, <1>8, <1>9, PageShows
<1>17. ASSUME m.reload PROVE t.ui.preview = None /\ NoneLive(t, {"preview"})
  <2>1. \A d : ~Clash(m, d) => ~Live(d, {"preview"})
    BY <1>17 DEF Clash
  <2> QED BY <1>1, <1>3, <1>4, <1>5, <1>17, <2>1 DEF Incoming, NoneLive
<1>11. ASSUME ~m.reload, NEW id, Opened(id, p.ui, l, h) PROVE Opened(id, t.ui, n, g)
  <2> SUFFICES ASSUME ~g.shifted PROVE Opened(id, t.ui, n, g)
    BY DEF Opened
  <2>1. ~h.shifted /\ n = l
    BY <1>11, <1>18, <1>19
  <2>2. p.ui.sel \in Nat /\ p.ui.sel < m.total
    BY <1>1, <1>7, <1>9, <1>11, <2>1 DEF Opened, UiOK
  <2>3. t.ui.sel = p.ui.sel
    BY <1>3, <1>7, <1>9, <2>2
  <2> QED BY <1>4, <1>11, <2>1, <2>3 DEF Opened
<1>12. View(t, n, q, g)
  <2>1. CASE m.reload
    BY <1>3, <1>7, <1>9, <1>10, <1>17, <2>1 DEF View, NoneLive
  <2>2. CASE ~m.reload
    BY <1>2, <1>3, <1>4, <1>6, <1>7, <1>9, <1>10, <1>11, <2>2 DEF View
  <2> QED BY <2>1, <2>2
<1>13. Due(t, n, q, g)
  <2>1. \A k \in DOMAIN t.inbox : ~Live(t.inbox[k], {"list"}) /\ ~Live(t.inbox[k], {"search"})
    BY <1>2, <1>3 DEF NoneLive, Live
  <2>2. Still(t.inbox, 1, Len(t.inbox)) <=> still
    BY <1>3
  <2> HIDE DEF still
  <2> QED BY <1>4, <1>18, <1>19, <2>1, <2>2 DEF Due
<1>14. Known(t, n, q, g)
  BY <1>3, <1>4, <1>5, <1>9 DEF Known
<1>15. Cover(t)
  BY <1>2, <1>3 DEF Cover, Covers, NoneLive, Live
<1>16. ASSUME ~m.reload PROVE Whole(t)
  <2> SUFFICES ASSUME WindowFits PROVE Full(t.ui)
    BY DEF Whole
  <2>1. Spans(p, m.offset, m.limit) /\ Placed(p.ui)
    BY <1>6, <1>16 DEF Covers
  <2>2. p.ui.start \in Nat /\ p.ui.height \in Nat
    BY <1>1, RangeIs
  <2>3. ASSUME NEW i \in p.ui.start .. MinOf(Len(n), p.ui.start + p.ui.height) - 1
        PROVE  i - m.offset + 1 \in DOMAIN t.ui.rows
    <3>1. i \in Nat /\ p.ui.start <= i /\ i < p.ui.start + p.ui.height /\ i < Len(n)
      BY <1>7, <2>2, <2>3 DEF MinOf
    <3>2. m.offset <= i /\ i < m.offset + m.limit
      BY <1>1, <1>8, <2>1, <3>1, PageFull
    <3> QED BY <1>10, <3>1, <3>2
  <2> QED BY <1>3, <1>4, <1>9, <2>3 DEF Full
<1>20. Looks(t, n, q, g)
  BY <1>12, <1>13, <1>14 DEF Looks
<1> QED BY <1>15, <1>16, <1>17, <1>20 DEF t

(* The first page of a view that is read anew: the item that was selected  *)
(* is looked up in it, and what else the window needs is asked for.        *)
LEMMA FineReselect ==
  ASSUME NEW s, NEW l, NEW tabs, NEW h, Seen(s, l, tabs, h), NEW p, NEW m, Popped(s, p, m),
         Live(m, {"list"}), m.ok, m.reload, NEW g, Turned(h, m, g)
  PROVE  Fine(EnsureLoaded(Reselect(TakePage(p, m), m), TRUE, m.done), g)
<1> DEFINE t == TakePage(p, m)
           r == Reselect(t, m)
<1>1. Incoming(p, m)
  BY DEF Popped
<1>2. m.done \in SUBSET Waiters
  BY <1>1, NothingElse
<1>3. Base(t) /\ t.asked = p.asked /\ t.inbox = p.inbox
  BY <1>1, TakePageIs
<1>4. PICK n, q : /\ Looks(t, n, q, g) /\ t.ui.preview = None /\ NoneLive(t, {"preview"})
  BY PageSeen
<1> HIDE DEF t
<1>5. /\ Base(r) /\ Placed(r.ui) /\ r.asked = t.asked /\ r.inbox = t.inbox
      /\ But(t.ui, r.ui, {"sel", "start"})
  BY <1>3, ReselectIs
<1> HIDE DEF r
<1>6. DOMAIN t.ui = UiFields
  BY <1>3 DEF Base, UiOK
<1>7. SameView(t.ui, r.ui) /\ r.ui.preview = None
  BY <1>4, <1>5, <1>6 DEF But, UiFields, SameView
<1>8. NoneLive(r, {"preview"})
  BY <1>4, <1>5 DEF NoneLive
<1>9. AllReading(t, r) /\ Calls(t)
  BY <1>3, <1>5, ReadingSame DEF Base
<1>10. Looks(r, n, q, g)
  BY <1>4, <1>7, <1>8, <1>9, LooksStay
<1> DEFINE e == EnsureLoaded(r, TRUE, m.done)
<1> TRUE \in BOOLEAN
  OBVIOUS
<1>11. Seen(e, n, q, g) /\ Base(e)
  BY <1>2, <1>5, <1>10, EnsureLoadedSeen, BaseEnsureLoaded
<1> HIDE DEF e
<1>12. Fine(e, g)
  BY <1>11 DEF Fine, Sound
<1> QED BY <1>12 DEF e, r, t

LEMMA FineGoOn ==
  ASSUME NEW s, NEW h, Fine(s, h), NEW preview \in BOOLEAN, NEW W \in SUBSET Waiters
  PROVE  Fine(GoOn(s, preview, W), h)
BY FineDone, FineLoadPreview DEF GoOn

LEMMA FineList ==
  ASSUME NEW s, NEW h, Fine(s, h), NEW p, NEW m, Popped(s, p, m), m.kind = "list",
         NEW g, Turned(h, m, g)
  PROVE  Fine(Handle(p, m), g)
<1> DEFINE taken == IF ~m.live THEN p
                    ELSE IF m.ok THEN TakePage(p, m) ELSE [p EXCEPT !.ui.failed = TRUE]
<1>1. Incoming(p, m) /\ Base(p)
  BY DEF Popped, Incoming
<1>2. /\ m.done \in SUBSET Waiters /\ m.preview \in BOOLEAN /\ m.live \in BOOLEAN
      /\ m.reload \in BOOLEAN /\ m.ok \in BOOLEAN
  BY <1>1 DEF Incoming, MessageOK, EventKinds, AnswerOK, CallOK
<1>3. PICK l, tabs : Seen(s, l, tabs, h)
  BY DEF Fine, Sound
<1>4. Handle(p, m) = IF m.reload /\ m.live /\ m.ok
                     THEN EnsureLoaded(Reselect(taken, m), TRUE, m.done)
                     ELSE GoOn(taken, m.preview, m.done)
  BY DEF Handle, OnList, GoOn
<1>5. CASE m.reload /\ m.live /\ m.ok
  <2>1. Live(m, {"list"})
    BY <1>5 DEF Live
  <2>2. Fine(EnsureLoaded(Reselect(TakePage(p, m), m), TRUE, m.done), g)
    BY <1>3, <1>5, <2>1, FineReselect
  <2>3. taken = TakePage(p, m)
    BY <1>5
  <2> HIDE DEF taken
  <2> QED BY <1>4, <1>5, <2>2, <2>3
<1>6. CASE ~(m.reload /\ m.live /\ m.ok)
  <2>1. ASSUME ~m.live PROVE Fine(p, g)
    <3>1. ~Live(m, {"list"}) /\ ~Live(m, {"search"})
      BY <2>1 DEF Live
    <3>2. Fine(p, h)
      BY <3>1, FinePopped
    <3> QED BY <2>1, <3>2, FineTurned
  <2>2. ASSUME m.live, m.ok, ~m.reload PROVE Fine(TakePage(p, m), g)
    <3> DEFINE t == TakePage(p, m)
    <3>1. Live(m, {"list"})
      BY <2>2 DEF Live
    <3>2. Base(t) /\ t.asked = p.asked /\ t.inbox = p.inbox
      BY <1>1, <2>2, <3>1, TakePageIs
    <3>3. PICK n, q : Looks(t, n, q, g) /\ Cover(t) /\ Whole(t)
      BY <1>3, <2>2, <3>1, PageSeen
    <3> HIDE DEF t
    <3>4. Fine(t, g)
      BY <3>2, <3>3 DEF Fine, Sound, Seen
    <3> QED BY <3>4 DEF t
  <2>3. ASSUME m.live, ~m.ok PROVE Fine([p EXCEPT !.ui.failed = TRUE], g)
    <3>1. Live(m, {"list"})
      BY <2>3 DEF Live
    <3>2. Fine([p EXCEPT !.ui.failed = TRUE], h)
      BY <3>1, ListFailed
    <3> QED BY <2>3, <3>2, FineTurned
  <2>4. Fine(taken, g)
    BY <1>2, <1>6, <2>1, <2>2, <2>3
  <2> HIDE DEF taken
  <2>5. Fine(GoOn(taken, m.preview, m.done), g)
    BY <1>2, <2>4, FineGoOn
  <2> QED BY <1>4, <1>6, <2>5
<1> QED BY <1>5, <1>6

(* Making stale what is stale changes nothing.                             *)
LEMMA StaleTwice ==
  ASSUME NEW c, Marked(c), NEW K
  PROVE  Stale(Stale(c, K), K) = Stale(c, K)
<1>1. CASE c.kind \in K
  <2> DEFINE d == [c EXCEPT !.live = FALSE]
  <2>1. [d EXCEPT !.live = FALSE] = d
    OBVIOUS
  <2>2. d.kind = c.kind
    BY DEF Marked, Carries
  <2> QED BY <1>1, <2>1, <2>2 DEF Stale
<1>2. CASE c.kind \notin K
  BY <1>2 DEF Stale
<1> QED BY <1>1, <1>2

LEMMA OutdateTwice ==
  ASSUME NEW s, IsState(s), Calls(s), NEW K
  PROVE  Outdate(Outdate(s, K), K) = Outdate(s, K)
<1> DEFINE o == Outdate(s, K)
<1>1. /\ o.ui = s.ui
      /\ o.asked = [k \in DOMAIN s.asked |-> Stale(s.asked[k], K)]
      /\ o.inbox = [k \in DOMAIN s.inbox |-> Stale(s.inbox[k], K)]
  BY DEF Outdate, MapCalls
<1>2. o = [ui |-> o.ui, asked |-> o.asked, inbox |-> o.inbox]
  BY DEF Outdate, MapCalls
<1>3. Outdate(o, K) = [ui |-> o.ui, asked |-> [k \in DOMAIN o.asked |-> Stale(o.asked[k], K)],
                       inbox |-> [k \in DOMAIN o.inbox |-> Stale(o.inbox[k], K)]]
  BY DEF Outdate, MapCalls
<1> HIDE DEF o
<1>4. \A k \in DOMAIN s.asked : Stale(Stale(s.asked[k], K), K) = Stale(s.asked[k], K)
  BY AllMarked, StaleTwice
<1>5. \A k \in DOMAIN s.inbox : Stale(Stale(s.inbox[k], K), K) = Stale(s.inbox[k], K)
  BY AllMarked, StaleTwice
<1>6. [k \in DOMAIN o.asked |-> Stale(o.asked[k], K)] = o.asked
  BY <1>1, <1>4
<1>7. [k \in DOMAIN o.inbox |-> Stale(o.inbox[k], K)] = o.inbox
  BY <1>1, <1>5
<1>8. Outdate(o, K) = o
  BY <1>2, <1>3, <1>6, <1>7
<1> QED BY <1>8 DEF o

LEMMA LoadPreviewTwice ==
  ASSUME NEW s, IsState(s), Calls(s), NEW W
  PROVE  LoadPreview(Outdate(s, {"preview"}), W) = LoadPreview(s, W)
<1> DEFINE o == Outdate(s, {"preview"})
<1>1. o.ui = s.ui
  BY OutdateIs
<1>2. Outdate(o, {"preview"}) = o
  BY OutdateTwice
<1> HIDE DEF o
<1>3. Selected(o) = Selected(s)
  BY <1>1 DEF Selected, RowAt
<1>4. ContentHidden(o) <=> ContentHidden(s)
  BY <1>1, <1>3 DEF ContentHidden
<1>5. LoadPreview(o, W) = LoadPreview(s, W)
  BY <1>1, <1>2, <1>3, <1>4 DEF LoadPreview, o
<1> QED BY <1>5 DEF o

(* What a search has found is the list on screen, once no preview of a row *)
(* of the list before it is awaited any more.                              *)
LEMMA FineFound ==
  ASSUME NEW s, NEW h, Fine(s, h), NEW p, NEW m, Popped(s, p, m), Live(m, {"search"}), m.ok,
         NEW g, Turned(h, m, g)
  PROVE  Fine(LoadPreview([p EXCEPT !.ui.rows = m.rows, !.ui.offset = 0,
                                    !.ui.total = Len(m.rows), !.ui.tabs = m.tabs,
                                    !.ui.failed = FALSE], m.done), g)
<1> DEFINE t == [p EXCEPT !.ui.rows = m.rows, !.ui.offset = 0, !.ui.total = Len(m.rows),
                          !.ui.tabs = m.tabs, !.ui.failed = FALSE]
           F == {"rows", "offset", "total", "tabs", "failed"}
           o == Outdate(t, {"preview"})
<1>1. Incoming(p, m) /\ p.ui = s.ui /\ Base(p)
  BY DEF Popped, Incoming
<1>2. /\ NoneLive(p, {"list", "search"}) /\ p.ui.active /\ AnswerOK(m) /\ m.kind = "search"
      /\ m.done \in SUBSET Waiters
  BY <1>1, NothingElse DEF Live
<1>3. /\ Base(t) /\ t.asked = p.asked /\ t.inbox = p.inbox
      /\ DOMAIN t.ui = UiFields /\ \A x \in UiFields \ F : t.ui[x] = p.ui[x]
      /\ t.ui.rows = m.rows /\ t.ui.offset = 0 /\ t.ui.total = Len(m.rows)
      /\ t.ui.tabs = m.tabs /\ t.ui.failed = FALSE
  BY <1>1, TakeFoundIs
<1> HIDE DEF t
<1>4. IsState(t) /\ Calls(t)
  BY <1>3 DEF Base
<1>5. /\ IsState(o) /\ o.ui = t.ui /\ AllSofter(t, o) /\ Calls(o) /\ NoneLive(o, {"preview"})
      /\ \A k \in DOMAIN t.asked : o.asked[k] = Stale(t.asked[k], {"preview"})
      /\ \A k \in DOMAIN t.inbox : o.inbox[k] = Stale(t.inbox[k], {"preview"})
  BY <1>4, OutdateIs
<1>6. Base(o) /\ LoadPreview(o, m.done) = LoadPreview(t, m.done)
  BY <1>3, <1>4, BaseOutdate, LoadPreviewTwice
<1> HIDE DEF o
<1>7. /\ p.ui.mode = "search" /\ m.filter = p.ui.filter /\ p.ui.preview = None
  BY <1>1 DEF Incoming, Fits
<1>8. /\ o.ui.active = p.ui.active /\ o.ui.mode = "search" /\ o.ui.filter = p.ui.filter
      /\ o.ui.preview = None
  BY <1>3, <1>5, <1>7 DEF UiFields
<1>9. PICK l, tabs : Seen(s, l, tabs, h)
  BY DEF Fine, Sound
<1>19. HitsDue(m, h, p.ui.filter, Still(p.inbox, 1, Len(p.inbox)))
  BY <1>1, <1>2, <1>9, PoppedView
<1>20. g.found = h.found /\ g.tabs = h.tabs /\ g.now = h.now /\ g.at = m.asOf
  BY <1>2 DEF Turned, Live
<1>10. /\ Distinct(m.rows)
       /\ Still(p.inbox, 1, Len(p.inbox)) =>
            /\ m.rows = g.found[p.ui.filter][g.at] /\ m.tabs = g.tabs[g.at]
            /\ g.at \subseteq g.now
  BY <1>19, <1>20 DEF HitsDue
<1>11. m.rows \in Seq(ListRows)
  BY <1>2 DEF AnswerOK
<1>12. NoneLive(o, {"list", "search"})
  <2>1. NoneLive(t, {"list", "search"})
    BY <1>2, <1>3 DEF NoneLive
  <2> QED BY <1>4, <1>5, <2>1, SofterCalls
<1>21. Still(o.inbox, 1, Len(o.inbox)) => Still(p.inbox, 1, Len(p.inbox))
  <2>1. Len(t.inbox) \in Nat /\ Len(o.inbox) = Len(t.inbox)
    BY <1>4, <1>5, SofterKind
  <2>2. Still(o.inbox, 1, Len(t.inbox)) <=> Still(t.inbox, 1, Len(t.inbox))
    BY <1>4, <1>5, <2>1, StillSame
  <2> QED BY <1>3, <2>1, <2>2
<1>13. View(o, m.rows, m.tabs, g)
  <2>1. Shows(o.ui, m.rows)
    BY <1>3, <1>5, <1>11 DEF Shows
  <2> QED BY <1>5, <1>8, <1>10, <1>11, <2>1 DEF View, NoneLive
<1>14. Due(o, m.rows, m.tabs, g)
  BY <1>8, <1>10, <1>12, <1>21 DEF Due, NoneLive, Live
<1>15. Known(o, m.rows, m.tabs, g)
  BY <1>3, <1>5, <1>8, <1>10, <1>21 DEF Known
<1>16. Whole(o) /\ Cover(o)
  BY <1>8, <1>12 DEF Whole, Cover, Covers, NoneLive, Live
<1>17. Fine(o, g)
  BY <1>6, <1>13, <1>14, <1>15, <1>16 DEF Fine, Sound, Seen, Looks
<1>18. Fine(LoadPreview(o, m.done), g)
  BY <1>2, <1>17, FineLoadPreview
<1> QED BY <1>6, <1>18 DEF t

LEMMA FineSearch ==
  ASSUME NEW s, NEW h, Fine(s, h), NEW p, NEW m, Popped(s, p, m), m.kind = "search",
         NEW g, Turned(h, m, g)
  PROVE  Fine(Handle(p, m), g)
<1> DEFINE found == [p EXCEPT !.ui.rows = m.rows, !.ui.offset = 0, !.ui.total = Len(m.rows),
                              !.ui.tabs = m.tabs, !.ui.failed = FALSE]
           failed == [p EXCEPT !.ui.failed = TRUE]
<1>1. m.done \in SUBSET Waiters
  BY DEF Popped, Incoming, MessageOK, EventKinds, AnswerOK, CallOK
<1>2. CASE ~m.live
  <2>1. ~Live(m, {"list"}) /\ ~Live(m, {"search"})
    BY <1>2 DEF Live
  <2>2. Fine(p, h)
    BY <2>1, FinePopped
  <2>3. Handle(p, m) = Done(p, m.done)
    BY <1>2 DEF Handle, OnSearch
  <2>4. Fine(p, g)
    BY <1>2, <2>2, FineTurned
  <2> QED BY <2>3, <2>4, FineDone
<1>3. CASE m.live
  <2>1. Live(m, {"search"})
    BY <1>3 DEF Live
  <2>2. Handle(p, m) = LoadPreview(IF m.ok THEN found ELSE failed, m.done)
    BY <1>3 DEF Handle, OnSearch
  <2>3. m.ok => Fine(LoadPreview(found, m.done), g)
    BY <2>1, FineFound
  <2>4. ~m.ok => Fine(failed, g)
    <3>1. Fine(failed, h)
      BY <2>1, ListFailed
    <3> QED BY <3>1, FineTurned
  <2> HIDE DEF found, failed
  <2>5. ~m.ok => Fine(LoadPreview(failed, m.done), g)
    BY <1>1, <2>4, FineLoadPreview
  <2> QED BY <2>2, <2>3, <2>5
<1> QED BY <1>2, <1>3

LEMMA FineHandle ==
  ASSUME NEW s, NEW h, MemoryOK(h), Fine(s, h), NEW p, NEW m, Popped(s, p, m),
         NEW g, MemoryOK(g), Turned(h, m, g)
  PROVE  Fine(Handle(p, m), g)
<1>1. Incoming(p, m)
  BY DEF Popped
<1>2. m.kind \in (CallKinds \ {"close"}) \cup EventKinds
  BY <1>1 DEF Incoming, MessageOK, AnswerOK, CallOK
<1>3. CASE m.kind = "changed"
  <2>1. g.at = {}
    BY <1>3 DEF Turned
  <2> QED BY <1>3, <2>1, FineChanged
<1>4. CASE m.kind \in {"shown", "hidden"}
  <2>1. m.kind = "shown" => g.at = {}
    BY DEF Turned
  <2> QED BY <1>1, <1>4, <2>1, FineShownHidden
<1>5. CASE m.kind = "list"
  BY <1>5, FineList
<1>6. CASE m.kind = "search"
  BY <1>6, FineSearch
<1>7. CASE m.kind = "preview"
  <2>1. Fine(Handle(p, m), h)
    BY <1>7, FinePreview
  <2> QED BY <1>7, <2>1, FineTurned
<1>8. CASE m.kind \in {"pin", "remove", "tag", "title", "createTab", "removeTab", "copy"}
  <2>1. m.kind # "changed" /\ ~Live(m, {"list"}) /\ ~Live(m, {"search"})
    BY <1>8 DEF Live
  <2>2. Fine(p, h)
    BY <2>1, FinePopped
  <2>3. Fine(Handle(p, m), h)
    BY <1>1, <1>8, <2>2, FineOthers
  <2> QED BY <1>8, <2>3, FineTurned
<1> QED BY <1>2, <1>3, <1>4, <1>5, <1>6, <1>7, <1>8 DEF CallKinds, EventKinds

LEMMA FineReceive ==
  ASSUME NEW h, MemoryOK(h), h = Memory, Fine(World, h), Receive,
         NEW g, MemoryOK(g), g = Memory'
  PROVE  Fine(World', g)
<1> DEFINE p == [World EXCEPT !.inbox = Tail(@)]
           m == Head(World.inbox)
           s == Handle(p, m)
           read == m.kind \in {"list", "search"} /\ m.live /\ m.ok
           page == m.kind = "list" /\ m.live
<1>1. inbox # <<>> /\ Becomes(s)
  BY DEF Receive, World
<1>2. Popped(World, p, m)
  BY <1>1, PoppedIs, WorldIs DEF Fine
<1>3. /\ db' = db /\ named' = named /\ expired' = expired
      /\ asOf' = CASE m.kind \in {"changed", "shown"} -> {}
                   [] read -> m.asOf
                   [] OTHER -> asOf
      /\ shifted' = IF read THEN page /\ ~m.reload /\ (shifted \/ m.asOf # asOf) ELSE shifted
  BY DEF Receive, World
<1>4. /\ g.listed = h.listed /\ g.found = h.found /\ g.tabs = h.tabs /\ g.now = h.now
      /\ h.at = asOf /\ h.shifted = shifted /\ g.at = asOf' /\ g.shifted = shifted'
  BY <1>3 DEF Memory, Listed, Found, ShownTabs
<1> HIDE DEF p, m
<1>5. Turned(h, m, g)
  BY <1>3, <1>4 DEF Turned
<1>6. Fine(s, g)
  BY <1>2, <1>5, FineHandle
<1> HIDE DEF s
<1> QED BY <1>1, <1>6, FineBecomes

-----------------------------------------------------------------------------
(* The invariant.                                                          *)
Right == Types /\ Fine(World, Memory)

LEMMA RightInit == Init => Right
<1> SUFFICES ASSUME Init PROVE Right
  OBVIOUS
<1>1. PICK h : h = Memory
  OBVIOUS
<1>2. Types /\ MemoryOK(h)
  BY <1>1, TypesInit, MemoryIs DEF Types
<1>3. h.at = {}
  BY <1>1, MemoryIs DEF Init
<1>4. Fine(World, h)
  BY <1>2, <1>3, TypesInit
<1> QED BY <1>1, <1>2, <1>4 DEF Right

LEMMA RightNext == Right /\ [Next]_vars => Right'
<1> SUFFICES ASSUME Right, [Next]_vars PROVE Right'
  OBVIOUS
<1>1. PICK h : h = Memory
  OBVIOUS
<1>2. PICK g : g = Memory'
  OBVIOUS
<1>3. Types /\ MemoryOK(h) /\ Fine(World, h)
  BY <1>1, MemoryIs DEF Right, Types
<1>4. Types'
  <2>1. CASE UNCHANGED vars
    <3>1. Base(World')
      BY <1>3, <2>1, WorldIs, BaseSame DEF vars, Types
    <3> QED BY <1>3, <2>1, <3>1 DEF vars, Types, DbOK
  <2>2. CASE Receive
    BY <1>3, <2>2, TypesReceive
  <2>3. CASE Answer
    BY <1>3, <2>3, TypesAnswer
  <2>4. CASE Show \/ Hide \/ \E i \in Items : Copied(i) \/ Expire(i)
    BY <1>3, <2>4, TypesMain
  <2>5. CASE User
    BY <1>3, <2>5, TypesUser
  <2> QED BY <2>1, <2>2, <2>3, <2>4, <2>5 DEF Next
<1>5. MemoryOK(g)
  <2>1. (DbOK /\ asOf \subseteq Secrets => MemoryOK(Memory))'
    BY MemoryIs, PTL
  <2> QED BY <1>2, <1>4, <2>1 DEF Types
<1>6. UNCHANGED <<db, named, expired, asOf, shifted>> => g = h
  BY <1>1, <1>2, MemorySame
<1>7. Fine(World', g)
  <2>1. CASE UNCHANGED vars
    <3>1. /\ ui' = ui /\ asked' = asked /\ inbox' = inbox
          /\ UNCHANGED <<db, named, expired, asOf, shifted>>
      BY <2>1 DEF vars
    <3> QED BY <1>3, <1>6, <3>1, WorldIs, FineSame
  <2>2. CASE Receive
    BY <1>1, <1>2, <1>3, <1>5, <2>2, FineReceive
  <2>3. CASE Answer
    BY <1>1, <1>2, <1>3, <1>5, <2>3, FineAnswered
  <2>4. CASE Show \/ Hide \/ \E i \in Items : Copied(i) \/ Expire(i)
    BY <1>1, <1>2, <1>3, <1>5, <2>4, FineMain
  <2>5. CASE User
    <3>1. UNCHANGED <<db, named, expired, asOf, shifted>>
      BY <2>5, UserKeeps
    <3>2. Fine(World', h)
      BY <1>3, <2>5, UserFine DEF Types
    <3> QED BY <1>6, <3>1, <3>2
  <2> QED BY <2>1, <2>2, <2>3, <2>4, <2>5 DEF Next
<1>8. Fine(World, Memory)'
  BY <1>2, <1>7
<1> QED BY <1>4, <1>8 DEF Right

(* What is on screen, or the answer on its way that will replace it, is    *)
(* what main had for it when the secrets of asOf had expired, through every*)
(* call, answer and event of palette-state.svelte.ts and ipc-handlers.ts   *)
(* and through the expiry that nobody tells of (history.ts): the inductive *)
(* invariant.                                                              *)
THEOREM RightInvariant == Spec => []Right
BY RightInit, RightNext, PTL DEF Spec

(* #scrub leaves nothing of the history in the renderer, and what is on its*)
(* way to a hidden palette brings nothing back.  (#scrub and the checks of *)
(* #active in palette-state.svelte.ts.)                                    *)
THEOREM NothingComesBack == Spec => []NothingWhileHidden
<1>1. Right => NothingWhileHidden
  <2> SUFFICES ASSUME Right, ~ui.active PROVE NothingWhileHidden
    BY DEF NothingWhileHidden
  <2>1. Blank(ui)
    BY WorldIs DEF Right, Types, Base, Quiet
  <2> QED BY <2>1 DEF NothingWhileHidden, Blank
<1> QED BY <1>1, RightInvariant, PTL

(* The content on screen is that of the selected item, and of an item with *)
(* a title only if the user revealed it, whatever preview was on its way,  *)
(* until a page read for a scroll leaves out a secret that has expired and *)
(* moves the rows.  (contentHidden, hidePreview, loadPreview and           *)
(* ensureLoaded, palette-state.svelte.ts.)                                 *)
THEOREM TitledHidden == Spec => []TitledStaysHidden
<1>1. Right => TitledStaysHidden
  <2> SUFFICES ASSUME Right, NEW k \in DOMAIN ui.rows, ~shifted, ui.rows[k].id = ui.preview,
                      ui.rows[k].titled
               PROVE  ui.revealed = ui.preview
    BY DEF TitledStaysHidden
  <2>1. Base(World) /\ Sound(World, Memory) /\ UiOK(ui) /\ Quiet(World)
    BY WorldIs DEF Right, Fine, Base
  <2>2. ui.rows \in Seq(ListRows) /\ ui.rows # <<>>
    BY <2>1 DEF UiOK
  <2>3. ui.active
    BY <2>1, <2>2, WorldIs DEF Quiet, Blank
  <2>4. ui.preview # None
    <3>1. ui.rows[k] \in ListRows
      BY <2>2
    <3> QED BY <3>1, PaletteAssumption DEF ListRows
  <2>5. PICK h : h = Memory
    OBVIOUS
  <2>6. PICK l, tabs : Seen(World, l, tabs, h)
    BY <2>1, <2>5 DEF Sound
  <2>7. ~h.shifted
    BY <2>5, MemoryIs
  <2>8. Distinct(l) /\ Shows(ui, l) /\ Opened(ui.preview, ui, l, h) /\ l \in Seq(ListRows)
    BY <2>2, <2>3, <2>4, <2>6, WorldIs DEF Seen, Looks, View
  <2>9. ui.rows[k] = l[ui.offset + k] /\ ui.offset + k \in DOMAIN l
    <3>1. k \in 1 .. Len(ui.rows) /\ ui.offset \in Nat /\ Len(l) \in Nat /\ DOMAIN l = 1 .. Len(l)
          /\ Len(ui.rows) \in Nat
      BY <2>1, <2>2, <2>8 DEF UiOK
    <3> QED BY <2>8, <3>1 DEF Shows
  <2>10. ui.sel + 1 = ui.offset + k
    BY <2>7, <2>8, <2>9 DEF Distinct, Opened
  <2> QED BY <2>7, <2>8, <2>9, <2>10 DEF Opened
<1> QED BY <1>1, RightInvariant, PTL

(* The rows on screen are the page that main would answer now.             *)
LEMMA ShownPage ==
  ASSUME NEW l \in Seq(ListRows), NEW u, u.rows \in Seq(ListRows), u.offset \in Nat,
         u.rows # <<>> => Shows(u, l)
  PROVE  u.rows = Page(l, u.offset, Len(u.rows))
<1> DEFINE q == Page(l, u.offset, Len(u.rows))
           n == MinOf(Len(l), u.offset + Len(u.rows))
<1>1. Len(u.rows) \in Nat /\ Len(l) \in Nat /\ DOMAIN u.rows = 1 .. Len(u.rows)
  OBVIOUS
<1>2. /\ q \in Seq(ListRows) /\ DOMAIN q = 1 .. Len(q)
      /\ Len(q) = (IF n >= u.offset THEN n - u.offset ELSE 0)
      /\ \A k \in DOMAIN q : u.offset + k \in DOMAIN l /\ q[k] = l[u.offset + k]
      /\ Distinct(l) => Distinct(q)
  BY <1>1, PageIs
<1> HIDE DEF q
<1>3. Len(q) = Len(u.rows)
  <2>1. CASE u.rows = <<>>
    <3>1. Len(u.rows) = 0
      BY <2>1
    <3> QED BY <1>1, <1>2, <3>1 DEF MinOf
  <2>2. CASE u.rows # <<>>
    <3>1. u.offset + Len(u.rows) <= Len(l)
      BY <2>2 DEF Shows
    <3> QED BY <1>1, <1>2, <3>1 DEF MinOf
  <2> QED BY <2>1, <2>2
<1>4. ASSUME NEW k \in 1 .. Len(q) PROVE q[k] = u.rows[k]
  <2>1. u.rows # <<>>
    BY <1>3, <1>4
  <2> QED BY <1>1, <1>2, <1>3, <1>4, <2>1 DEF Shows
<1>5. IsSeq(q) /\ IsSeq(u.rows)
  BY <1>2, SeqFrom
<1>6. q = [k \in 1 .. Len(q) |-> q[k]] /\ u.rows = [k \in 1 .. Len(u.rows) |-> u.rows[k]]
  BY <1>5, SeqIs
<1>7. [k \in 1 .. Len(q) |-> q[k]] = [k \in 1 .. Len(u.rows) |-> u.rows[k]]
  BY <1>3, <1>4
<1>8. q = u.rows
  BY <1>6, <1>7
<1> QED BY <1>8 DEF q

(* When nothing is under way, the screen shows what main would answer but  *)
(* for the secrets that have expired since it was read, in whatever order  *)
(* reads, edits, changes and expiries have crossed, and in a window of at  *)
(* most FETCH_SPAN rows.  (#listSeq and ensureLoaded, reload, setQuery,    *)
(* refresh, palette-state.svelte.ts; list, search and tabCounts with their *)
(* isLive filter, history.ts.)                                             *)
THEOREM ViewCurrent ==
  ASSUME WindowFits
  PROVE  Spec => []ViewIsCurrent
<1>1. Right => ViewIsCurrent
  <2> SUFFICES ASSUME Right, ui.active, asked = <<>>, inbox = <<>>, ~ui.failed
               PROVE  /\ asOf \subseteq expired
                      /\ ui.mode = (IF ui.query THEN "search" ELSE "recent")
                      /\ ui.tabs = ShownTabs(asOf)
                      /\ ui.mode = "search" => ui.rows = Found(ui.filter, asOf)
                      /\ ui.mode = "recent" =>
                           /\ ui.total = Len(Listed(ui.filter, asOf))
                           /\ ui.rows = Page(Listed(ui.filter, asOf), ui.offset, Len(ui.rows))
                           /\ \A i \in ui.start .. MinOf(ui.total, ui.start + ui.height) - 1 :
                                RowAt(World, i).id # None
                      /\ ~shifted /\ Selected(World).id # None =>
                           ui.preview \in {None, Selected(World).id}
    BY DEF ViewIsCurrent
  <2>1. Base(World) /\ Sound(World, Memory) /\ UiOK(ui) /\ Types
    BY WorldIs DEF Right, Fine, Base
  <2>2. PICK h : h = Memory
    OBVIOUS
  <2>3. PICK l, tabs : Seen(World, l, tabs, h)
    BY <2>1, <2>2 DEF Sound
  <2>4. /\ NoneLive(World, {"list"}) /\ NoneLive(World, {"search"})
        /\ Still(World.inbox, 1, Len(World.inbox))
    BY WorldIs DEF NoneLive, Still
  <2>5. /\ ui.filter \in Filters /\ ui.mode \in {"recent", "search"} /\ asOf \in SUBSET Secrets
        /\ ui.mode = (IF ui.query THEN "search" ELSE "recent")
    BY <2>1, WorldIs DEF UiOK, Base, Types
  <2>6. /\ h.listed[ui.filter][h.at] = Listed(ui.filter, asOf)
        /\ h.found[ui.filter][h.at] = Found(ui.filter, asOf)
        /\ h.tabs[h.at] = ShownTabs(asOf)
        /\ h.at = asOf /\ h.now = expired /\ h.shifted = shifted
    BY <2>2, <2>5, MemoryIs
  <2>7. /\ l \in Seq(ListRows) /\ (ui.rows # <<>> => Shows(ui, l))
        /\ (ui.preview # None => Opened(ui.preview, ui, l, h))
    BY <2>3, WorldIs DEF Seen, Looks, View
  <2>8. /\ asOf \subseteq expired
        /\ ui.mode = "recent" => l = Listed(ui.filter, asOf) /\ tabs = ShownTabs(asOf)
    BY <2>3, <2>4, <2>6, WorldIs DEF Seen, Looks, Due
  <2>9. /\ ui.mode = "recent" => ui.total = Len(l) /\ ui.tabs = tabs
        /\ ui.mode = "search" => ui.rows = Found(ui.filter, asOf) /\ ui.tabs = ShownTabs(asOf)
    BY <2>3, <2>4, <2>6, WorldIs DEF Seen, Looks, Known
  <2>10. ui.mode = "recent" => ui.rows = Page(Listed(ui.filter, asOf), ui.offset, Len(ui.rows))
    BY <2>1, <2>7, <2>8, ShownPage DEF UiOK
  <2>11. ASSUME ui.mode = "recent",
                NEW i \in ui.start .. MinOf(ui.total, ui.start + ui.height) - 1
         PROVE  RowAt(World, i).id # None
    <3>1. Full(ui)
      BY <2>3, <2>4, <2>11, WorldIs DEF Seen, Whole
    <3>2. i - ui.offset + 1 \in DOMAIN ui.rows
      BY <2>11, <3>1 DEF Full
    <3>3. i \in Nat
      BY <2>1, <2>11 DEF UiOK
    <3> QED BY <2>1, <3>2, <3>3, RowAtIs, WorldIs
  <2>12. ~shifted /\ Selected(World).id # None => ui.preview \in {None, Selected(World).id}
    <3>1. View(World, l, tabs, h)
      BY <2>3 DEF Seen, Looks
    <3>2. Selected(World).id # None => Selected(World) = l[ui.sel + 1]
      BY <2>1, <3>1, SelectedShown, WorldIs
    <3> QED BY <2>6, <2>7, <3>2 DEF Opened
  <2> QED BY <2>5, <2>8, <2>9, <2>10, <2>11, <2>12
<1> QED BY <1>1, RightInvariant, PTL

-----------------------------------------------------------------------------
(* The item x the user had selected: the list on screen has it, or there   *)
(* is no list and each page that may arrive is one to look x up in.        *)
Held(s, x) ==
  s.ui.active /\ s.ui.mode = "recent" /\ s.ui.rows # <<>> /\ Selected(s).id = x

Wants(c, x) ==
  /\ Live(c, {"list"}) => c.reload /\ c.sel = x
  /\ "done" \in DOMAIN c /\ "keep" \in c.done => Live(c, {"list"})

AllWant(q, x) == \A k \in DOMAIN q : Wants(q[k], x)

Awaited(s, x) ==
  /\ s.ui.active /\ s.ui.mode = "recent" /\ s.ui.rows = <<>> /\ s.ui.keep = x
  /\ AllWant(s.asked, x) /\ AllWant(s.inbox, x)

On(s, x) == Held(s, x) \/ Awaited(s, x)

SelectionFields == {"active", "mode", "rows", "sel", "offset"}

LEMMA HeldStays ==
  ASSUME NEW s, UiOK(s.ui), NEW x, Held(s, x), NEW t, NEW F, But(s.ui, t.ui, F),
         F \cap SelectionFields = {}
  PROVE  Held(t, x)
<1>1. /\ t.ui.active = s.ui.active /\ t.ui.mode = s.ui.mode /\ t.ui.rows = s.ui.rows
      /\ t.ui.sel = s.ui.sel /\ t.ui.offset = s.ui.offset
  <2>1. DOMAIN s.ui = UiFields
    BY DEF UiOK
  <2>2. \A f \in SelectionFields : t.ui[f] = s.ui[f]
    BY <2>1 DEF But, UiFields, SelectionFields
  <2> QED BY <2>2 DEF SelectionFields
<1>2. Selected(t) = Selected(s)
  BY <1>1 DEF Selected, RowAt
<1> QED BY <1>1, <1>2 DEF Held

(* A call that is d now and was c wants what it wanted.                    *)
Wanting(c, d) ==
  /\ Staler(c, d)
  /\ c.kind = "list" /\ CallOK(c) => d.live = c.live /\ d.sel = c.sel

LEMMA WantsStays ==
  ASSUME NEW c, CallOK(c) \/ MessageOK(c), NEW d, Wanting(c, d), NEW x, Wants(c, x)
  PROVE  Wants(d, x)
<1>1. Carries(c, {"kind", "live"})
  BY DEF CallOK, MessageOK, AnswerOK
<1>2. Softer(c, d) /\ d.kind = c.kind /\ DOMAIN d = DOMAIN c
  BY <1>1, SofterOK DEF Wanting, Staler, Softer, Carries
<1>3. ASSUME c.kind = "list" PROVE CallOK(c) /\ d.live = c.live /\ d.sel = c.sel
  <2>1. CallOK(c)
    BY <1>3 DEF MessageOK, AnswerOK, EventKinds
  <2> QED BY <1>3, <2>1 DEF Wanting
<1>4. ASSUME Live(d, {"list"}) PROVE d.reload /\ d.sel = x
  <2>1. c.kind = "list" /\ Live(c, {"list"})
    BY <1>2, <1>4, <1>3 DEF Live
  <2>2. "reload" \in DOMAIN c
    BY <1>3, <2>1 DEF CallOK, Carries
  <2>3. d.reload = c.reload
    BY <2>2 DEF Wanting, Staler, Softer
  <2> QED BY <1>3, <2>1, <2>3 DEF Wants
<1>5. ASSUME "done" \in DOMAIN d, "keep" \in d.done PROVE Live(d, {"list"})
  <2>1. "done" \in DOMAIN c /\ "keep" \in c.done
    BY <1>2, <1>5 DEF Wanting, Staler
  <2>2. Live(c, {"list"})
    BY <2>1 DEF Wants
  <2> QED BY <1>2, <1>3, <2>2 DEF Live
<1> QED BY <1>4, <1>5 DEF Wants

AllWanting(s, t) ==
  /\ DOMAIN t.asked = DOMAIN s.asked /\ DOMAIN t.inbox = DOMAIN s.inbox
  /\ \A k \in DOMAIN s.asked : Wanting(s.asked[k], t.asked[k])
  /\ \A k \in DOMAIN s.inbox : Wanting(s.inbox[k], t.inbox[k])

LEMMA OnStays ==
  ASSUME NEW s, Base(s), NEW x, On(s, x), NEW t, AllWanting(s, t), NEW F,
         But(s.ui, t.ui, F), F \cap SelectionFields = {},
         s.ui.rows = <<>> => t.ui.keep = s.ui.keep
  PROVE  On(t, x)
<1>1. CASE Held(s, x)
  BY <1>1, HeldStays DEF Base, On
<1>2. CASE Awaited(s, x)
  <2>1. t.ui.active = s.ui.active /\ t.ui.mode = s.ui.mode /\ t.ui.rows = s.ui.rows
    <3>1. DOMAIN s.ui = UiFields
      BY DEF Base, UiOK
    <3>2. \A f \in SelectionFields : t.ui[f] = s.ui[f]
      BY <3>1 DEF But, UiFields, SelectionFields
    <3> QED BY <3>2 DEF SelectionFields
  <2>2. AllWant(t.asked, x) /\ AllWant(t.inbox, x)
    <3>1. /\ \A k \in DOMAIN s.asked : CallOK(s.asked[k])
          /\ \A k \in DOMAIN s.inbox : MessageOK(s.inbox[k])
      BY DEF Base, Calls
    <3>2. AllWant(s.asked, x) /\ AllWant(s.inbox, x)
      BY <1>2 DEF Awaited
    <3> QED BY <3>1, <3>2, WantsStays DEF AllWanting, AllWant
  <2> QED BY <1>2, <2>1, <2>2 DEF Awaited, On
<1> QED BY <1>1, <1>2 DEF On

LEMMA BesideWanting ==
  ASSUME NEW s, NEW t, AllBeside(s, t)
  PROVE  AllWanting(s, t)
BY DEF AllBeside, AllWanting, Beside, Wanting, Staler

LEMMA StaleWanting ==
  ASSUME NEW c, Marked(c), NEW K, "list" \notin K
  PROVE  Wanting(c, Stale(c, K))
<1>1. Staler(c, Stale(c, K))
  BY StaleStaler
<1>2. c.kind = "list" => Stale(c, K) = c
  BY StaleIs
<1> QED BY <1>1, <1>2 DEF Wanting

LEMMA OutdateWanting ==
  ASSUME NEW s, IsState(s), Calls(s), NEW K, "list" \notin K
  PROVE  AllWanting(s, Outdate(s, K))
<1> DEFINE t == Outdate(s, K)
<1>1. /\ AllSofter(s, t)
      /\ \A k \in DOMAIN s.asked : t.asked[k] = Stale(s.asked[k], K)
      /\ \A k \in DOMAIN s.inbox : t.inbox[k] = Stale(s.inbox[k], K)
  BY OutdateIs
<1> HIDE DEF t
<1>2. DOMAIN t.asked = DOMAIN s.asked /\ DOMAIN t.inbox = DOMAIN s.inbox
  BY <1>1 DEF AllSofter
<1>3. /\ \A k \in DOMAIN s.asked : Marked(s.asked[k])
      /\ \A k \in DOMAIN s.inbox : Marked(s.inbox[k])
  BY AllMarked
<1>4. AllWanting(s, t)
  BY <1>1, <1>2, <1>3, StaleWanting DEF AllWanting
<1> QED BY <1>4 DEF t

(* Nothing is awaited of a list on screen.                                 *)
LEMMA HeldOnly ==
  ASSUME NEW s, NEW x, On(s, x)
  PROVE  s.ui.rows # <<>> => Held(s, x)
BY DEF On, Awaited

LEMMA OnDone ==
  ASSUME NEW s, Base(s), NEW x, On(s, x), NEW W, s.ui.rows # <<>> \/ "keep" \notin W
  PROVE  On(Done(s, W), x)
<1> DEFINE t == Done(s, W)
<1>1. /\ t.asked = s.asked /\ t.inbox = s.inbox /\ But(s.ui, t.ui, {"keep", "editor"})
      /\ t.ui.keep = (IF "keep" \in W THEN None ELSE s.ui.keep)
  BY DoneIs DEF Base, Pre
<1> HIDE DEF t
<1>2. AllWanting(s, t)
  BY <1>1, BesideSame, BesideWanting DEF Base
<1>3. On(t, x)
  BY <1>1, <1>2, OnStays DEF SelectionFields
<1> QED BY <1>3 DEF t

LEMMA OnHidePreview ==
  ASSUME NEW s, Base(s), NEW x, On(s, x)
  PROVE  On(HidePreview(s), x)
<1> DEFINE t == HidePreview(s)
<1>1. /\ AllSofter(s, t) /\ But(s.ui, t.ui, {"preview", "revealed"})
      /\ \A k \in DOMAIN s.asked : t.asked[k] = Stale(s.asked[k], {"preview"})
      /\ \A k \in DOMAIN s.inbox : t.inbox[k] = Stale(s.inbox[k], {"preview"})
  BY HidePreviewIs DEF Base, Pre
<1> HIDE DEF t
<1>2. /\ \A k \in DOMAIN s.asked : Marked(s.asked[k])
      /\ \A k \in DOMAIN s.inbox : Marked(s.inbox[k])
  BY AllMarked DEF Base
<1>3. AllWanting(s, t)
  BY <1>1, <1>2, StaleWanting DEF AllWanting, AllSofter
<1>4. t.ui.keep = s.ui.keep
  BY <1>1 DEF But, Base, UiOK, UiFields
<1>5. On(t, x)
  BY <1>1, <1>3, <1>4, OnStays DEF SelectionFields
<1> QED BY <1>5 DEF t

(* What happens beside the list leaves the selection alone.                *)
LEMMA OnBeside ==
  ASSUME NEW s, Base(s), NEW x, On(s, x), NEW t, AllBeside(s, t),
         But(s.ui, t.ui, {"editor", "removing", "preview"})
  PROVE  On(t, x)
<1>1. AllWanting(s, t)
  BY BesideWanting
<1>2. t.ui.keep = s.ui.keep
  BY DEF But, Base, UiOK, UiFields
<1> QED BY <1>1, <1>2, OnStays DEF SelectionFields

LEMMA OnClosed ==
  ASSUME NEW s, Base(s), NEW x, On(s, x), NEW kinds
  PROVE  On(CloseEditors(s, kinds), x)
<1> DEFINE t == CloseEditors(s, kinds)
<1>1. AllBeside(s, t) /\ But(s.ui, t.ui, {"editor"})
  BY CloseEditorsIs DEF Base, Pre
<1> HIDE DEF t
<1>2. But(s.ui, t.ui, {"editor", "removing", "preview"})
  BY <1>1 DEF But
<1>3. On(t, x)
  BY <1>1, <1>2, OnBeside
<1> QED BY <1>3 DEF t

(* A call that wants nothing else is asked.                                *)
LEMMA OnAsk ==
  ASSUME NEW s, Base(s), NEW x, On(s, x), NEW c, Wants(c, x)
  PROVE  On(Ask(s, c), x)
<1> DEFINE t == Ask(s, c)
<1>1. t.ui = s.ui /\ t.inbox = s.inbox /\ t.asked = Append(s.asked, c)
  BY DEF Ask, Base, IsState, Carries
<1> HIDE DEF t
<1>2. CASE Held(s, x)
  BY <1>1, <1>2 DEF t, Held, On, Selected, RowAt
<1>3. CASE Awaited(s, x)
  <2>1. IsSeq(s.asked)
    BY DEF Base, Calls
  <2>2. AllWant(t.asked, x)
    <3> SUFFICES ASSUME NEW k \in DOMAIN t.asked PROVE Wants(t.asked[k], x)
      BY DEF AllWant
    <3>1. /\ DOMAIN s.asked = 1 .. Len(s.asked) /\ Len(s.asked) \in Nat
          /\ DOMAIN t.asked = 1 .. Len(s.asked) + 1
          /\ \A j \in DOMAIN s.asked : t.asked[j] = s.asked[j]
          /\ t.asked[Len(s.asked) + 1] = c
      BY <1>1, <2>1, AppendIs, SeqIs
    <3>2. k \in DOMAIN s.asked \/ k = Len(s.asked) + 1
      BY <3>1
    <3> QED BY <1>3, <3>1, <3>2 DEF Awaited, AllWant
  <2> QED BY <1>1, <1>3, <2>2 DEF t, Awaited, On
<1> QED BY <1>2, <1>3 DEF On

LEMMA OnLoadPreview ==
  ASSUME NEW s, Base(s), NEW x, On(s, x), NEW W \in SUBSET Waiters,
         s.ui.rows # <<>> \/ "keep" \notin W
  PROVE  On(LoadPreview(s, W), x)
<1> DEFINE o == Outdate(s, {"preview"})
           p == [o EXCEPT !.ui.preview = None]
           c == PreviewCall(s, W)
<1>1. \/ /\ LoadPreview(s, W) = Done(p, W)
         /\ Base(p) /\ p.asked = o.asked /\ p.inbox = o.inbox
         /\ But(s.ui, p.ui, {"preview"}) /\ p.ui.preview = None
         /\ Base(LoadPreview(s, W))
      \/ /\ s.ui.active /\ Selected(s).id \in Items /\ ~ContentHidden(s)
         /\ LoadPreview(s, W) = Ask(o, c)
         /\ CallOK(c) /\ c.id = Selected(s).id /\ c.done = W /\ ~Live(c, {"list", "search"})
         /\ \A k \in DOMAIN o.asked : ~Clash(o.asked[k], c)
         /\ \A k \in DOMAIN o.inbox : ~Clash(o.inbox[k], c)
         /\ Base(LoadPreview(s, W))
  BY LoadPreviewIs
<1>2. AllWanting(s, o)
  BY OutdateWanting DEF Base
<1>3. Base(o) /\ o.ui = s.ui
  BY BaseOutdate, OutdateIs DEF Base
<1>4. c.kind = "preview" /\ c.done = W
  BY DEF PreviewCall
<1> HIDE DEF o, p, c
<1>5. CASE LoadPreview(s, W) = Done(p, W) /\ Base(p) /\ p.asked = o.asked /\ p.inbox = o.inbox
           /\ But(s.ui, p.ui, {"preview"})
  <2>1. AllWanting(s, p)
    BY <1>2, <1>5 DEF AllWanting
  <2>2. p.ui.keep = s.ui.keep /\ p.ui.rows = s.ui.rows
    BY <1>5 DEF But, Base, UiOK, UiFields
  <2>3. On(p, x)
    BY <1>5, <2>1, <2>2, OnStays DEF SelectionFields
  <2> QED BY <1>5, <2>2, <2>3, OnDone
<1>6. CASE LoadPreview(s, W) = Ask(o, c)
  <2>1. On(o, x)
    <3>1. But(s.ui, o.ui, {})
      BY <1>3 DEF But
    <3>2. {} \cap SelectionFields = {} /\ o.ui.keep = s.ui.keep
      BY <1>3
    <3> QED BY <1>2, <3>1, <3>2, OnStays
  <2>2. CASE "keep" \notin W
    <3>1. Wants(c, x)
      BY <1>4, <2>2 DEF Wants, Live
    <3> QED BY <1>3, <1>6, <2>1, <3>1, OnAsk
  <2>3. CASE s.ui.rows # <<>>
    <3>1. Held(o, x)
      BY <1>3, <2>1, <2>3, HeldOnly
    <3>2. Ask(o, c).ui = o.ui
      BY <1>3 DEF Ask, Base, IsState, Carries
    <3>3. But(o.ui, Ask(o, c).ui, {})
      BY <3>2 DEF But
    <3>4. {} \cap SelectionFields = {} /\ UiOK(o.ui)
      BY <1>3 DEF Base
    <3>5. Held(Ask(o, c), x)
      BY <3>1, <3>3, <3>4, HeldStays
    <3> QED BY <1>6, <3>5 DEF On
  <2> QED BY <2>2, <2>3
<1> QED BY <1>1, <1>5, <1>6

(* A refresh looks the item up that was selected, or that an earlier one   *)
(* was to look up.                                                         *)
LEMMA OnRefresh ==
  ASSUME NEW s, Base(s), NEW x, x # None, On(s, x), NEW W \in SUBSET Waiters
  PROVE  On(Refresh(s, W), x)
<1> DEFINE t == Refresh(s, W)
           c == t.asked[Len(s.asked) + 1]
<1>1. UiOK(s.ui) /\ s.ui.active /\ s.ui.mode = "recent" /\ ~s.ui.query
  BY DEF Base, On, Held, Awaited
<1>2. \/ ~s.ui.active /\ t = Done(s, W)
      \/ s.ui.active /\ s.ui.query /\ s.ui.mode = "search" /\ t = SetQuery(s, TRUE, W)
      \/ /\ s.ui.active /\ ~s.ui.query /\ s.ui.mode = "recent"
         /\ Base(t) /\ Followed(s, t, c) /\ NoKeeper(s, t)
         /\ But(s.ui, t.ui, {"keep", "mode", "rows", "offset", "preview", "revealed"})
         /\ t.ui.keep = Wanted(s) /\ c.sel = Wanted(s)
         /\ t.ui.mode = "recent" /\ t.ui.rows = <<>> /\ t.ui.offset = RangeStart(s)
         /\ t.ui.preview = None /\ t.ui.revealed = None
         /\ Live(c, {"list"}) /\ c.reload = TRUE /\ c.done = W \cup {"keep"}
         /\ c.offset = RangeStart(s) /\ c.limit \in Nat
         /\ c.limit >= s.ui.height + 2 * Overscan
  BY RefreshIs
<1> HIDE DEF t
<1>3. Wanted(s) = x
  <2>1. CASE Held(s, x)
    BY <2>1 DEF Held, Wanted
  <2>2. CASE Awaited(s, x)
    BY <1>1, <2>2, SelectedIs DEF Awaited, Wanted
  <2> QED BY <2>1, <2>2 DEF On
<1>4. /\ Followed(s, t, c) /\ NoKeeper(s, t) /\ t.ui.active = s.ui.active
      /\ t.ui.keep = x /\ t.ui.mode = "recent" /\ t.ui.rows = <<>>
      /\ Live(c, {"list"}) /\ c.reload = TRUE /\ c.sel = x
  BY <1>1, <1>2, <1>3 DEF But, UiOK, UiFields
<1>5. Wants(c, x)
  BY <1>4 DEF Wants
<1>6. ASSUME NEW k \in DOMAIN t.asked PROVE Wants(t.asked[k], x)
  <2>1. k \in DOMAIN s.asked \/ k = Len(s.asked) + 1
    BY <1>4 DEF Followed
  <2>2. ASSUME k \in DOMAIN s.asked PROVE Wants(t.asked[k], x)
    BY <1>4, <2>2 DEF Followed, NoKeeper, Wants, Live, Reads
  <2> QED BY <1>4, <1>5, <2>1, <2>2 DEF Followed
<1>7. ASSUME NEW k \in DOMAIN t.inbox PROVE Wants(t.inbox[k], x)
  BY <1>4 DEF Followed, NoKeeper, Wants, Live, Reads
<1>8. On(t, x)
  BY <1>1, <1>4, <1>6, <1>7 DEF On, Awaited, AllWant
<1> QED BY <1>8 DEF t

LEMMA HeldSame ==
  ASSUME NEW s, NEW x, Held(s, x), NEW t, t.ui = s.ui
  PROVE  Held(t, x)
BY DEF Held, Selected, RowAt

LEMMA HeldEnsureLoaded ==
  ASSUME NEW s, Base(s), Placed(s.ui), NEW x, Held(s, x), NEW preview \in BOOLEAN,
         NEW W \in SUBSET Waiters
  PROVE  On(EnsureLoaded(s, preview, W), x)
<1> DEFINE t == EnsureLoaded(s, preview, W)
           o == Outdate(s, {"list", "search"})
           j == MapCalls(s, LAMBDA c : Joined(c, preview, W))
           d == ListCall(s, RangeStart(s), FALSE, None, preview, W)
<1>1. \/ t = GoOn(s, preview, W) \/ t = GoOn(o, preview, W) \/ t = j \/ t = Ask(o, d)
  BY EnsureLoadedIs
<1>2. Base(o) /\ o.ui = s.ui
  BY BaseOutdate, OutdateIs DEF Base
<1>3. j.ui = s.ui
  BY JoinIs DEF Base
<1> HIDE DEF t, o, j, d
<1>4. Held(o, x) /\ On(o, x) /\ On(s, x) /\ s.ui.rows # <<>>
  BY <1>2, HeldSame DEF On, Held
<1>5. On(GoOn(s, preview, W), x) /\ On(GoOn(o, preview, W), x)
  BY <1>2, <1>4, OnLoadPreview, OnDone DEF GoOn
<1>6. On(j, x)
  BY <1>3, HeldSame DEF On
<1>7. On(Ask(o, d), x)
  <2>1. Ask(o, d).ui = o.ui
    BY <1>2 DEF Ask, Base, IsState, Carries
  <2> QED BY <1>4, <2>1, HeldSame DEF On
<1>8. On(t, x)
  BY <1>1, <1>5, <1>6, <1>7
<1> QED BY <1>8 DEF t

LEMMA OnPopped ==
  ASSUME NEW s, NEW x, On(s, x), NEW p, NEW m, Popped(s, p, m)
  PROVE  On(p, x) /\ (Awaited(s, x) => Wants(m, x))
<1>1. CASE Held(s, x)
  <2>1. p.ui = s.ui
    BY DEF Popped
  <2>2. Held(p, x)
    BY <1>1, <2>1, HeldSame
  <2> QED BY <1>1, <2>2 DEF On, Held, Awaited
<1>2. CASE Awaited(s, x)
  BY <1>2 DEF Popped, On, Awaited, AllWant
<1> QED BY <1>1, <1>2 DEF On

LEMMA OnOthers ==
  ASSUME NEW p, Base(p), NEW x, x # None, On(p, x), NEW m, Incoming(p, m),
         m.kind \in {"pin", "remove", "tag", "title", "createTab", "removeTab", "copy"}
  PROVE  On(Handle(p, m), x) \/ Handle(p, m).ui.filter # p.ui.filter
<1>1. {} \in SUBSET Waiters /\ CallOK(m)
  BY DEF Incoming, MessageOK, EventKinds, AnswerOK
<1>2. CASE m.kind \in {"pin", "remove"}
  <2>1. Handle(p, m) = IF m.ok THEN Refresh(p, {}) ELSE p
    BY <1>2 DEF Handle, OnPinned
  <2> QED BY <1>1, <2>1, OnRefresh
<1>3. CASE m.kind = "tag"
  <2> DEFINE W == OnTaggedWaiters(m)
             n == Noted(p, m)
  <2>1. W \in SUBSET Waiters /\ "keep" \notin W
    BY DEF OnTaggedWaiters, Waiters
  <2>2. Base(n) /\ Pre(n) /\ AllBeside(p, n) /\ But(p.ui, n.ui, {"editor"})
    BY <1>1, <1>3, NotedIs
  <2>3. Handle(p, m) = IF m.ok THEN Refresh(n, W) ELSE Done(p, W)
    BY <1>3, OnTaggedIs DEF Handle
  <2> HIDE DEF W, n
  <2>4. But(p.ui, n.ui, {"editor", "removing", "preview"})
    BY <2>2 DEF But
  <2>5. On(n, x)
    BY <2>2, <2>4, OnBeside
  <2>6. On(Refresh(n, W), x) /\ On(Done(p, W), x)
    BY <2>1, <2>2, <2>5, OnRefresh, OnDone
  <2> QED BY <2>3, <2>6
<1>4. CASE m.kind = "title"
  <2> DEFINE q == CloseEditors(p, AllEditors)
             n == HidePreview(q)
  <2>1. Base(q) /\ On(q, x)
    BY BaseCloseEditors, OnClosed
  <2>2. Handle(p, m) = IF m.live /\ m.ok THEN Refresh(n, {}) ELSE p
    BY <1>4 DEF Handle, OnTitled
  <2> HIDE DEF q
  <2>3. Base(n) /\ On(n, x)
    BY <2>1, BaseHidePreview, OnHidePreview
  <2> HIDE DEF n
  <2> QED BY <1>1, <2>2, <2>3, OnRefresh
<1>5. CASE m.kind = "createTab"
  <2> DEFINE n == CloseEditors(p, AllEditors)
             u == [p EXCEPT !.ui.editor.saving = FALSE]
  <2>1. Base(n) /\ On(n, x)
    BY BaseCloseEditors, OnClosed
  <2>2. Handle(p, m) = IF ~m.live THEN p ELSE IF m.ok THEN Refresh(n, {}) ELSE u
    BY <1>5 DEF Handle, OnTabCreated
  <2> FALSE \in BOOLEAN
    OBVIOUS
  <2>3. Base(u) /\ Pre(u) /\ AllBeside(p, u) /\ But(p.ui, u.ui, {"editor"})
        /\ u.asked = p.asked /\ u.inbox = p.inbox
    BY NotSaving
  <2> HIDE DEF n, u
  <2>4. But(p.ui, u.ui, {"editor", "removing", "preview"})
    BY <2>3 DEF But
  <2>5. On(u, x)
    BY <2>3, <2>4, OnBeside
  <2> QED BY <1>1, <2>1, <2>2, <2>5, OnRefresh
<1>6. CASE m.kind = "removeTab"
  <2> DEFINE t == [p EXCEPT !.ui.removing = None]
             a == [t EXCEPT !.ui.filter = "all"]
  <2>1. /\ Base(t) /\ AllBeside(p, t) /\ But(p.ui, t.ui, {"removing"})
        /\ t.asked = p.asked /\ t.inbox = p.inbox
        /\ \/ OnTabRemoved(p, m) = t
           \/ /\ p.ui.active /\ OnTabRemoved(p, m) = ReloadFilter(a)
              /\ Pre(a) /\ a.ui.active /\ a.ui.filter = "all"
           \/ p.ui.active /\ OnTabRemoved(p, m) = Refresh(t, {})
    BY <1>6, OnTabRemovedIs
  <2>2. /\ Handle(p, m) = OnTabRemoved(p, m)
        /\ \/ OnTabRemoved(p, m) = t
           \/ p.ui.filter = m.tab /\ OnTabRemoved(p, m) = ReloadFilter(a)
           \/ OnTabRemoved(p, m) = Refresh(t, {})
    BY <1>6 DEF Handle, OnTabRemoved
  <2>3. m.tab # "all"
    BY <1>1, <1>6, PaletteAssumption DEF CallOK
  <2> HIDE DEF t, a
  <2>4. But(p.ui, t.ui, {"editor", "removing", "preview"})
    BY <2>1 DEF But
  <2>5. On(t, x)
    BY <2>1, <2>4, OnBeside
  <2>6. On(Refresh(t, {}), x)
    BY <1>1, <2>1, <2>5, OnRefresh
  <2>7. CASE OnTabRemoved(p, m) = ReloadFilter(a) /\ p.ui.filter = m.tab /\ p.ui.active
             /\ Pre(a) /\ a.ui.active /\ a.ui.filter = "all"
    BY <2>2, <2>3, <2>7, ReloadFilterIs
  <2> QED BY <2>1, <2>2, <2>5, <2>6, <2>7
<1>7. CASE m.kind = "copy"
  BY <1>7 DEF Handle
<1> QED BY <1>2, <1>3, <1>4, <1>5, <1>6, <1>7

(* A page that has the selected item still has it in the same place.       *)
LEMMA HeldPage ==
  ASSUME NEW s, NEW h, Fine(s, h), NEW x, x # None, Held(s, x), NEW p, NEW m, Popped(s, p, m),
         Live(m, {"list"}), m.ok, x \in IdsOf(m.rows), ~m.reload => m.asOf = h.at
  PROVE  ~m.reload /\ Held(TakePage(p, m), x)
<1> DEFINE t == TakePage(p, m)
           F == {"rows", "offset", "total", "tabs", "failed", "sel"}
<1>1. Incoming(p, m) /\ p.ui = s.ui /\ Base(p) /\ AnswerOK(m) /\ m.kind = "list"
  BY NothingElse DEF Popped, Incoming, Live
<1>2. /\ Base(t) /\ t.asked = p.asked /\ t.inbox = p.inbox
      /\ DOMAIN t.ui = UiFields /\ \A f \in UiFields \ F : t.ui[f] = p.ui[f]
      /\ t.ui.rows = m.rows /\ t.ui.offset = m.offset /\ t.ui.total = m.total
      /\ t.ui.tabs = m.tabs /\ t.ui.failed = FALSE
      /\ t.ui.sel = (IF p.ui.sel >= m.total THEN MaxOf(0, m.total - 1) ELSE p.ui.sel)
  BY <1>1, TakePageIs
<1> HIDE DEF t
<1>3. t.ui.active = s.ui.active /\ t.ui.mode = s.ui.mode
  BY <1>1, <1>2 DEF UiFields
<1>4. ~m.reload
  BY <1>1 DEF Held, Incoming, Fits
<1>5. PICK l, tabs : Seen(s, l, tabs, h)
  BY DEF Fine, Sound
<1>6. /\ l \in Seq(ListRows) /\ Distinct(l) /\ Shows(s.ui, l)
  BY <1>5 DEF Seen, Looks, View, Held
<1>7. PageOf(m, l, tabs)
  <2>1. m.kind # "changed"
    BY <1>1
  <2>2. PageDue(m, l, tabs, h, s.ui.filter, Still(p.inbox, 1, Len(p.inbox)))
    BY <1>5, <2>1, PoppedView DEF Held
  <2> QED BY <1>4, <2>2 DEF PageDue
<1>8. /\ s.ui.sel - s.ui.offset + 1 \in DOMAIN s.ui.rows
      /\ Selected(s) = s.ui.rows[s.ui.sel - s.ui.offset + 1]
      /\ s.ui.sel \in Nat /\ s.ui.offset \in Nat /\ s.ui.rows \in Seq(ListRows)
  <2>1. UiOK(s.ui)
    BY <1>1 DEF Base
  <2> QED BY <2>1, SelectedIs DEF Held, UiOK
<1>9. s.ui.sel + 1 \in DOMAIN l /\ l[s.ui.sel + 1].id = x
  <2>1. s.ui.offset + (s.ui.sel - s.ui.offset + 1) = s.ui.sel + 1
    BY <1>8
  <2>2. Len(s.ui.rows) \in Nat /\ DOMAIN s.ui.rows = 1 .. Len(s.ui.rows)
        /\ Len(l) \in Nat /\ DOMAIN l = 1 .. Len(l)
    BY <1>6, <1>8
  <2>3. s.ui.sel + 1 \in DOMAIN l
    BY <1>6, <1>8, <2>2, SMTT(30) DEF Shows
  <2> QED BY <1>6, <1>8, <2>1, <2>3 DEF Shows, Held
<1>10. PICK j \in DOMAIN m.rows : m.rows[j].id = x
  BY DEF IdsOf
<1>11. /\ m.offset \in Nat /\ m.limit \in Nat /\ m.rows = Page(l, m.offset, m.limit)
       /\ m.total = Len(l) /\ m.rows \in Seq(ListRows)
  BY <1>1, <1>7 DEF PageOf, AnswerOK, CallOK
<1>12. m.offset + j \in DOMAIN l /\ m.rows[j] = l[m.offset + j] /\ j \in Nat
  BY <1>6, <1>10, <1>11, PageIs
<1>13. m.offset + j = s.ui.sel + 1
  BY <1>6, <1>9, <1>10, <1>12 DEF Distinct
<1>14. t.ui.sel = s.ui.sel
  BY <1>1, <1>2, <1>6, <1>8, <1>9, <1>11
<1>15. t.ui.sel - t.ui.offset + 1 = j
  <2>1. s.ui.sel \in Nat /\ m.offset \in Nat /\ j \in Nat
    BY <1>8, <1>11, <1>12
  <2>2. t.ui.offset = m.offset
    BY <1>2
  <2> QED BY <1>13, <1>14, <2>1, <2>2
<1>16. Selected(t) = m.rows[j]
  <2>1. UiOK(t.ui) /\ t.ui.sel \in Nat
    BY <1>2 DEF Base, UiOK
  <2>2. t.ui.sel - t.ui.offset + 1 \in DOMAIN t.ui.rows
    BY <1>2, <1>10, <1>15
  <2>3. RowAt(t, t.ui.sel) = t.ui.rows[t.ui.sel - t.ui.offset + 1]
    BY <2>1, <2>2, RowAtIs
  <2> QED BY <1>2, <1>15, <2>3 DEF Selected
<1>17. m.rows # <<>>
  BY <1>10
<1>18. Held(t, x)
  BY <1>2, <1>3, <1>10, <1>16, <1>17 DEF Held
<1> QED BY <1>4, <1>18 DEF t

(* In a page that has the item a refresh looks for, it is selected.        *)
LEMMA AwaitedPage ==
  ASSUME NEW s, NEW x, Awaited(s, x), NEW p, NEW m, Popped(s, p, m), Live(m, {"list"}), m.ok,
         x \in IdsOf(m.rows)
  PROVE  LET r == Reselect(TakePage(p, m), m)
         IN  m.reload /\ Base(r) /\ Placed(r.ui) /\ Held(r, x)
<1> DEFINE t == TakePage(p, m)
           r == Reselect(t, m)
           F == {"rows", "offset", "total", "tabs", "failed", "sel"}
<1>1. Incoming(p, m) /\ p.ui = s.ui /\ Base(p)
  BY DEF Popped, Incoming
<1>2. m.reload /\ m.sel = x
  <2>1. On(s, x)
    BY DEF On
  <2>2. Wants(m, x)
    BY <2>1, OnPopped
  <2> QED BY <2>2 DEF Wants
<1>3. /\ Base(t) /\ t.asked = p.asked /\ t.inbox = p.inbox
      /\ DOMAIN t.ui = UiFields /\ \A f \in UiFields \ F : t.ui[f] = p.ui[f]
      /\ t.ui.rows = m.rows /\ t.ui.offset = m.offset /\ t.ui.total = m.total
      /\ t.ui.tabs = m.tabs /\ t.ui.failed = FALSE
      /\ t.ui.sel = (IF p.ui.sel >= m.total THEN MaxOf(0, m.total - 1) ELSE p.ui.sel)
  BY <1>1, TakePageIs
<1> HIDE DEF t
<1>4. t.ui.active = s.ui.active /\ t.ui.mode = s.ui.mode
  BY <1>1, <1>3 DEF UiFields
<1> DEFINE at == {k \in DOMAIN t.ui.rows : t.ui.rows[k].id = m.sel}
<1>5. /\ Base(r) /\ Placed(r.ui) /\ r.asked = t.asked /\ r.inbox = t.inbox
      /\ But(t.ui, r.ui, {"sel", "start"})
      /\ at = {} => r.ui.sel = t.ui.sel
      /\ at # {} => \E k \in at : r.ui.sel = t.ui.offset + k - 1
  BY <1>3, ReselectIs
<1> HIDE DEF r
<1>6. at # {}
  BY <1>2, <1>3 DEF IdsOf
<1>7. PICK k \in DOMAIN t.ui.rows : t.ui.rows[k].id = x /\ r.ui.sel = t.ui.offset + k - 1
  BY <1>2, <1>5, <1>6
<1>8. /\ r.ui.active = t.ui.active /\ r.ui.mode = t.ui.mode /\ r.ui.rows = t.ui.rows
      /\ r.ui.offset = t.ui.offset
  BY <1>3, <1>5 DEF But, UiFields
<1>9. Selected(r) = t.ui.rows[k]
  <2>1. UiOK(r.ui) /\ r.ui.sel \in Nat /\ r.ui.offset \in Nat /\ k \in Nat
    <3>1. t.ui.rows \in Seq(ListRows)
      BY <1>3 DEF Base, UiOK
    <3> QED BY <1>5, <1>7, <3>1 DEF Base, UiOK
  <2>2. r.ui.sel - r.ui.offset + 1 = k
    BY <1>7, <1>8, <2>1
  <2>3. RowAt(r, r.ui.sel) = r.ui.rows[r.ui.sel - r.ui.offset + 1]
    BY <1>7, <1>8, <2>1, <2>2, RowAtIs
  <2> QED BY <1>8, <2>2, <2>3 DEF Selected
<1>10. Held(r, x)
  BY <1>4, <1>7, <1>8, <1>9 DEF Held, Awaited
<1>11. m.reload /\ Base(r) /\ Placed(r.ui) /\ Held(r, x)
  BY <1>2, <1>5, <1>10
<1> QED BY <1>11 DEF r, t

LEMMA OnGoOn ==
  ASSUME NEW s, Base(s), NEW x, On(s, x), NEW preview \in BOOLEAN, NEW W \in SUBSET Waiters,
         s.ui.rows # <<>> \/ "keep" \notin W
  PROVE  On(GoOn(s, preview, W), x)
BY OnLoadPreview, OnDone DEF GoOn

LEMMA OnListed ==
  ASSUME NEW s, NEW h, Fine(s, h), NEW x, x # None, On(s, x), NEW p, NEW m, Popped(s, p, m),
         m.kind = "list",
         m.live => m.ok /\ x \in IdsOf(m.rows) /\ (~m.reload => m.asOf = h.at)
  PROVE  On(Handle(p, m), x)
<1>1. Incoming(p, m) /\ Base(p) /\ p.ui = s.ui
  BY DEF Popped, Incoming
<1>2. /\ m.done \in SUBSET Waiters /\ m.preview \in BOOLEAN /\ m.live \in BOOLEAN
      /\ m.reload \in BOOLEAN /\ m.ok \in BOOLEAN /\ "done" \in DOMAIN m
  BY <1>1 DEF Incoming, MessageOK, EventKinds, AnswerOK, CallOK, Carries
<1>3. CASE ~m.live
  <2>1. Handle(p, m) = GoOn(p, m.preview, m.done)
    BY <1>3 DEF Handle, OnList, GoOn
  <2>2. On(p, x) /\ (Awaited(s, x) => Wants(m, x))
    BY OnPopped
  <2>3. p.ui.rows # <<>> \/ "keep" \notin m.done
    BY <1>1, <1>2, <1>3, <2>2 DEF On, Held, Wants, Live
  <2> QED BY <1>1, <1>2, <2>1, <2>2, <2>3, OnGoOn
<1>4. CASE m.live /\ Held(s, x)
  <2> DEFINE t == TakePage(p, m)
  <2>1. Live(m, {"list"})
    BY <1>4 DEF Live
  <2>2. ~m.reload /\ Held(t, x)
    BY <1>4, <2>1, HeldPage
  <2>3. Base(t)
    BY <1>1, <1>4, <2>1, TakePageIs
  <2>4. Handle(p, m) = GoOn(t, m.preview, m.done)
    BY <1>4, <2>2 DEF Handle, OnList, GoOn
  <2> HIDE DEF t
  <2>5. On(t, x) /\ t.ui.rows # <<>>
    BY <2>2 DEF On, Held
  <2> QED BY <1>2, <2>3, <2>4, <2>5, OnGoOn
<1>5. CASE m.live /\ Awaited(s, x)
  <2> DEFINE r == Reselect(TakePage(p, m), m)
  <2>1. Live(m, {"list"})
    BY <1>5 DEF Live
  <2>2. m.reload /\ Base(r) /\ Placed(r.ui) /\ Held(r, x)
    BY <1>5, <2>1, AwaitedPage
  <2>3. Handle(p, m) = EnsureLoaded(r, TRUE, m.done)
    BY <1>5, <2>2 DEF Handle, OnList
  <2> HIDE DEF r
  <2> TRUE \in BOOLEAN
    OBVIOUS
  <2>4. m.done \in SUBSET Waiters
    BY <1>2
  <2>5. On(EnsureLoaded(r, TRUE, m.done), x)
    BY <2>2, <2>4, HeldEnsureLoaded
  <2> QED BY <2>3, <2>5
<1> QED BY <1>2, <1>3, <1>4, <1>5 DEF On

LEMMA OnSame ==
  ASSUME NEW s, NEW x, On(s, x), NEW t, t.ui = s.ui, t.asked = s.asked, t.inbox = s.inbox
  PROVE  On(t, x)
BY HeldSame DEF On, Awaited

LEMMA OnBecomes ==
  ASSUME NEW s, NEW x, On(s, x), Becomes(s)
  PROVE  On(World', x)
BY OnSame, WorldIs DEF Becomes

LEMMA OnPreviewed ==
  ASSUME NEW s, NEW x, On(s, x), NEW p, NEW m, Popped(s, p, m), m.kind \in {"search", "preview"}
  PROVE  On(Handle(p, m), x)
<1>1. Incoming(p, m) /\ Base(p) /\ p.ui = s.ui
  BY DEF Popped, Incoming
<1>2. On(p, x) /\ (Awaited(s, x) => Wants(m, x))
  BY OnPopped
<1>3. /\ m.kind = "preview" => m.id \in Items
      /\ m.live \in BOOLEAN /\ "done" \in DOMAIN m
  BY <1>1 DEF Incoming, MessageOK, EventKinds, AnswerOK, CallOK, Carries
<1>4. p.ui.rows # <<>> \/ "keep" \notin m.done
  BY <1>1, <1>2, <1>3 DEF On, Held, Wants, Live
<1>5. CASE m.kind = "search"
  <2>1. ~m.live
    <3>1. p.ui.mode = "recent"
      BY <1>2 DEF On, Held, Awaited
    <3> QED BY <1>1, <1>5, <3>1 DEF Incoming, Fits, Live
  <2>2. Handle(p, m) = Done(p, m.done)
    BY <1>5, <2>1 DEF Handle, OnSearch
  <2> QED BY <1>1, <1>2, <1>4, <2>2, OnDone
<1>6. CASE m.kind = "preview"
  <2> DEFINE i == IF m.ok THEN m.id ELSE None
             t == [p EXCEPT !.ui.preview = i]
  <2>1. i \in Some
    BY <1>3, <1>6 DEF Some
  <2>2. Handle(p, m) = Done(IF m.live THEN t ELSE p, m.done)
    BY <1>6 DEF Handle, OnPreview
  <2> HIDE DEF i
  <2>3. ASSUME m.live PROVE On(Done(t, m.done), x)
    <3>1. Live(m, {"preview"})
      BY <1>6, <2>3 DEF Live
    <3>2. /\ Base(t) /\ t.asked = p.asked /\ t.inbox = p.inbox
          /\ But(p.ui, t.ui, {"preview"}) /\ t.ui.preview = i /\ p.ui.active
      BY <1>1, <2>1, <3>1, PreviewShown
    <3> HIDE DEF t
    <3>3. AllBeside(p, t)
      BY <1>1, <3>2, BesideSame DEF Base
    <3>4. But(p.ui, t.ui, {"editor", "removing", "preview"})
      BY <3>2 DEF But
    <3>5. t.ui.rows = p.ui.rows
      BY <1>1, <3>2 DEF But, Base, UiOK, UiFields
    <3>6. On(t, x)
      BY <1>1, <1>2, <3>3, <3>4, OnBeside
    <3> QED BY <1>4, <3>2, <3>5, <3>6, OnDone
  <2>4. On(Done(p, m.done), x)
    BY <1>1, <1>2, <1>4, OnDone
  <2> HIDE DEF t
  <2> QED BY <2>2, <2>3, <2>4
<1> QED BY <1>5, <1>6

(* The item the user had selected, as far as the pages since have shown it.*)
Follows == chosen # None => On(World, chosen)

LEMMA FollowsReceive ==
  ASSUME NEW h, Fine(World, h), h.at = asOf, Follows, Receive
  PROVE  Follows'
<1> DEFINE p == [World EXCEPT !.inbox = Tail(@)]
           m == Head(World.inbox)
           t == Handle(p, m)
           page == m.kind = "list" /\ m.live
           lost == m.kind \in {"shown", "hidden"} \/ (page /\ ~m.ok)
                     \/ (page /\ chosen \notin IdsOf(m.rows)) \/ t.ui.mode # "recent"
                     \/ t.ui.filter # ui.filter
                     \/ (page /\ ~m.reload /\ m.asOf # asOf)
<1>1. inbox # <<>> /\ Becomes(t) /\ chosen' = (IF lost THEN None ELSE chosen)
  BY DEF Receive, World
<1>2. Popped(World, p, m)
  BY <1>1, PoppedIs, WorldIs DEF Fine
<1> HIDE DEF p, m
<1>3. Base(p) /\ Incoming(p, m) /\ p.ui = ui
  BY <1>2, WorldIs DEF Popped, Incoming
<1> SUFFICES ASSUME ~lost, chosen # None PROVE On(t, chosen)
  <2>1. ASSUME chosen' # None PROVE On(World', chosen')
    <3>1. ~lost /\ chosen' = chosen
      BY <1>1, <2>1
    <3>2. On(t, chosen)
      BY <2>1, <3>1
    <3> HIDE DEF t, lost
    <3> QED BY <1>1, <3>1, <3>2, OnBecomes
  <2> QED BY <2>1 DEF Follows
<1>4. On(World, chosen)
  BY DEF Follows
<1>5. On(p, chosen)
  BY <1>2, <1>4, OnPopped
<1>6. m.kind \in (CallKinds \ {"close"}) \cup EventKinds
  BY <1>3 DEF Incoming, MessageOK, AnswerOK, CallOK
<1>7. CASE m.kind = "changed"
  <2>1. p.ui.active
    BY <1>5 DEF On, Held, Awaited
  <2>2. t = Refresh(p, {})
    BY <1>7, <2>1 DEF Handle
  <2>3. {} \in SUBSET Waiters
    OBVIOUS
  <2> QED BY <1>3, <1>5, <2>2, <2>3, OnRefresh
<1>8. CASE m.kind = "list"
  <2>1. m.live => m.ok /\ chosen \in IdsOf(m.rows) /\ (~m.reload => m.asOf = h.at)
    BY <1>8
  <2> QED BY <1>2, <1>4, <1>8, <2>1, OnListed
<1>9. CASE m.kind \in {"search", "preview"}
  BY <1>2, <1>4, <1>9, OnPreviewed
<1>10. CASE m.kind \in {"pin", "remove", "tag", "title", "createTab", "removeTab", "copy"}
  BY <1>3, <1>5, <1>10, OnOthers
<1> QED BY <1>6, <1>7, <1>8, <1>9, <1>10 DEF CallKinds, EventKinds

-----------------------------------------------------------------------------
(* What main sends wants nothing but what was asked for.                   *)
LEMMA EventWants ==
  ASSUME NEW kind \in EventKinds, NEW x
  PROVE  Wants(Event(kind), x)
BY DEF Wants, Event, Live, EventKinds

LEMMA AnswerWants ==
  ASSUME NEW c, CallOK(c), NEW a, DOMAIN a \subseteq AnswerFields, NEW x, Wants(c, x)
  PROVE  Wants(Answered(c, a), x)
<1> DEFINE m == Answered(c, a)
<1>1. Carried(c, m)
  BY AnsweredIs
<1>2. DOMAIN m = DOMAIN c \cup DOMAIN a
  BY DEF Answered
<1> HIDE DEF m
<1>3. /\ "kind" \in DOMAIN c /\ "live" \in DOMAIN c
      /\ c.kind = "list" => "reload" \in DOMAIN c /\ "sel" \in DOMAIN c
  BY DEF CallOK, Carries
<1>4. /\ m.kind = c.kind /\ m.live = c.live
      /\ c.kind = "list" => m.reload = c.reload /\ m.sel = c.sel
      /\ "done" \in DOMAIN m => "done" \in DOMAIN c /\ m.done = c.done
  BY <1>1, <1>2, <1>3 DEF Carried, AnswerFields
<1>5. Wants(m, x)
  BY <1>4 DEF Wants, Live
<1> QED BY <1>5 DEF m

LEMMA AppendWants ==
  ASSUME NEW q, IsSeq(q), NEW x, AllWant(q, x), NEW m, Wants(m, x)
  PROVE  IsSeq(Append(q, m)) /\ AllWant(Append(q, m), x)
<1>1. /\ IsSeq(Append(q, m)) /\ Len(Append(q, m)) = Len(q) + 1
      /\ DOMAIN Append(q, m) = 1 .. Len(q) + 1 /\ DOMAIN q = 1 .. Len(q)
      /\ \A k \in DOMAIN q : Append(q, m)[k] = q[k]
      /\ Append(q, m)[Len(q) + 1] = m
  BY AppendIs
<1>2. Len(q) \in Nat
  BY SeqIs
<1>3. ASSUME NEW k \in DOMAIN Append(q, m) PROVE Wants(Append(q, m)[k], x)
  <2>1. k \in DOMAIN q \/ k = Len(q) + 1
    BY <1>1, <1>2
  <2> QED BY <1>1, <2>1 DEF AllWant
<1> QED BY <1>1, <1>3 DEF AllWant

(* Main leaves the renderer alone, but for what it sends.                  *)
LEMMA FollowsSent ==
  ASSUME Types, Follows, chosen' = chosen, NEW F, But(ui, ui', F),
         F \cap (SelectionFields \cup {"keep"}) = {},
         \A j \in DOMAIN asked' : \E i \in DOMAIN asked : asked'[j] = asked[i],
         \A x : AllWant(asked, x) /\ AllWant(inbox, x) => AllWant(inbox', x)
  PROVE  Follows'
<1> SUFFICES ASSUME chosen # None PROVE On(World', chosen)
  BY DEF Follows
<1>1. UiOK(World.ui) /\ World.ui = ui /\ World'.ui = ui' /\ DOMAIN ui = UiFields
  BY WorldIs DEF Types, Base, UiOK
<1>2. On(World, chosen)
  BY DEF Follows
<1>3. CASE Held(World, chosen)
  BY <1>1, <1>3, HeldStays DEF On
<1>4. CASE Awaited(World, chosen)
  <2>1. AllWant(asked, chosen) /\ AllWant(inbox, chosen)
    BY <1>4, WorldIs DEF Awaited
  <2>2. AllWant(asked', chosen) /\ AllWant(inbox', chosen)
    BY <2>1 DEF AllWant
  <2>3. /\ ui'.active = ui.active /\ ui'.mode = ui.mode /\ ui'.rows = ui.rows
        /\ ui'.keep = ui.keep
    <3>1. \A f \in SelectionFields \cup {"keep"} : ui'[f] = ui[f]
      BY <1>1 DEF But, UiFields, SelectionFields
    <3> QED BY <3>1 DEF SelectionFields
  <2> QED BY <1>4, <2>2, <2>3, WorldIs DEF Awaited, On
<1> QED BY <1>2, <1>3, <1>4 DEF On

LEMMA FollowsMain ==
  ASSUME Types, Follows, (\E i \in Items : Copied(i) \/ Expire(i)) \/ Show \/ Hide
  PROVE  Follows'
<1>1. IsSeq(inbox) /\ DOMAIN ui = UiFields
  BY WorldIs DEF Types, Base, Calls, UiOK
<1> "changed" \in EventKinds /\ "hidden" \in EventKinds /\ "shown" \in EventKinds
  BY DEF EventKinds
<1>2. asked' = asked /\ chosen' = chosen
  BY DEF Copied, Expire, Show, Hide
<1>3. ui' = ui \/ ui' = [ui EXCEPT !.drag = None, !.dialog = None]
  BY DEF Copied, Expire, Show, Hide
<1>4. But(ui, ui', {"drag", "dialog"})
  BY <1>1, <1>3 DEF But, UiFields
<1>5. \/ inbox' = inbox
      \/ inbox' = Append(inbox, Event("changed"))
      \/ inbox' = Append(inbox, Event("hidden"))
      \/ inbox' = Append(inbox, Event("shown"))
      \/ inbox' = Append(Append(inbox, Event("hidden")), Event("shown"))
  <2>1. \/ inbox' = inbox
        \/ inbox' = Append(inbox, Event("changed"))
        \/ inbox' = Append(inbox, Event("hidden"))
        \/ inbox' = inbox \o <<>> \o <<Event("shown")>>
        \/ inbox' = inbox \o <<Event("hidden")>> \o <<Event("shown")>>
    BY DEF Copied, Expire, Show, Hide
  <2> QED BY <1>1, <2>1, InboxIs
<1>6. ASSUME NEW x, AllWant(asked, x), AllWant(inbox, x) PROVE AllWant(inbox', x)
  <2>1. \A kind \in EventKinds : /\ IsSeq(Append(inbox, Event(kind)))
                                 /\ AllWant(Append(inbox, Event(kind)), x)
    BY <1>1, <1>6, EventWants, AppendWants
  <2>2. AllWant(Append(Append(inbox, Event("hidden")), Event("shown")), x)
    BY <2>1, EventWants, AppendWants
  <2> QED BY <1>5, <1>6, <2>1, <2>2
<1>7. {"drag", "dialog"} \cap (SelectionFields \cup {"keep"}) = {}
  BY DEF SelectionFields
<1> QED BY <1>2, <1>4, <1>6, <1>7, FollowsSent

LEMMA FollowsAnswer ==
  ASSUME Types, Follows, Answer
  PROVE  Follows'
<1>1. PICK k \in Answerable :
        \/ AnswerRead(k) \/ AnswerPin(k) \/ AnswerTag(k) \/ AnswerTitle(k)
        \/ AnswerCreateTab(k) \/ AnswerRemoveTab(k) \/ AnswerRemove(k)
        \/ AnswerCopy(k) \/ AnswerClose(k) \/ AnswerFails(k)
  BY DEF Answer
<1>2. /\ IsSeq(asked) /\ IsSeq(inbox) /\ DOMAIN ui = UiFields /\ k \in DOMAIN asked
      /\ CallOK(asked[k])
  BY WorldIs DEF Types, Base, Calls, UiOK, Answerable
<1>3. \A j \in DOMAIN RemoveAt(asked, k) : \E i \in DOMAIN asked : RemoveAt(asked, k)[j] = asked[i]
  BY <1>2, TakenHas
<1>4. But(ui, ui, {}) /\ {} \cap (SelectionFields \cup {"keep"}) = {}
  BY DEF But
<1>5. ASSUME NEW a, DOMAIN a \subseteq AnswerFields, NEW x, AllWant(asked, x)
      PROVE  Wants(Answered(asked[k], a), x)
  <2>1. Wants(asked[k], x)
    BY <1>2, <1>5 DEF AllWant
  <2> QED BY <1>2, <1>5, <2>1, AnswerWants
<1> "changed" \in EventKinds /\ "hidden" \in EventKinds
  BY DEF EventKinds
<1>6. ASSUME NEW x, AllWant(inbox, x)
      PROVE  \A kind \in EventKinds : /\ IsSeq(Append(inbox, Event(kind)))
                                      /\ AllWant(Append(inbox, Event(kind)), x)
  BY <1>2, <1>6, EventWants, AppendWants
<1>7. CASE AnswerRead(k)
  <2> DEFINE a == ReadAnswer(asked[k])
             m == Answered(asked[k], a)
  <2>1. /\ asked' = RemoveAt(asked, k) /\ inbox' = Append(inbox, m) /\ ui' = ui
        /\ chosen' = chosen
    BY <1>7 DEF AnswerRead, ReadAnswer
  <2>2. DOMAIN a \subseteq AnswerFields
    BY DEF ReadAnswer, AnswerFields
  <2> HIDE DEF a
  <2>3. ASSUME NEW x, AllWant(asked, x), AllWant(inbox, x) PROVE AllWant(inbox', x)
    <3>1. Wants(m, x)
      BY <1>5, <2>2, <2>3
    <3> HIDE DEF m
    <3> QED BY <1>2, <2>1, <2>3, <3>1, AppendWants
  <2> HIDE DEF m
  <2> QED BY <1>3, <1>4, <2>1, <2>3, FollowsSent
<1>8. CASE AnswerClose(k)
  <2>1. /\ asked' = RemoveAt(asked, k) /\ ui' = ui /\ chosen' = chosen
        /\ inbox' = inbox \o (IF visible THEN <<Event("hidden")>> ELSE <<>>)
    BY <1>8 DEF AnswerClose
  <2>2. inbox' = inbox \/ inbox' = Append(inbox, Event("hidden"))
    BY <1>2, <2>1, InboxIs
  <2>3. ASSUME NEW x, AllWant(asked, x), AllWant(inbox, x) PROVE AllWant(inbox', x)
    BY <1>6, <2>2, <2>3
  <2> QED BY <1>3, <1>4, <2>1, <2>3, FollowsSent
<1>9. CASE Told(k)
  <2>1. PICK ok, rows, tabs, events :
          ok \in BOOLEAN /\ Reply(k, ok, rows, tabs, events) /\ Tells(rows, tabs, events)
    BY <1>9 DEF Told
  <2> DEFINE a == [ok |-> ok]
             m == Answered(asked[k], a)
  <2>2. /\ asked' = RemoveAt(asked, k) /\ inbox' = inbox \o events \o <<m>> /\ ui' = ui
        /\ chosen' = chosen
    BY <2>1 DEF Reply
  <2>3. DOMAIN a \subseteq AnswerFields
    BY DEF AnswerFields
  <2> HIDE DEF a
  <2>4. ASSUME NEW x, AllWant(asked, x), AllWant(inbox, x) PROVE AllWant(inbox', x)
    <3>1. Wants(m, x)
      BY <1>5, <2>3, <2>4
    <3> HIDE DEF m
    <3>2. \/ inbox' = Append(inbox, m)
          \/ \E kind \in EventKinds : inbox' = Append(Append(inbox, Event(kind)), m)
      <4>1. events = <<>> \/ events = <<Event("hidden")>> \/ events = <<Event("changed")>>
        BY <2>1 DEF Tells
      <4>2. CASE events = <<>>
        BY <1>2, <2>2, <4>2, InboxIs
      <4>3. ASSUME NEW kind \in EventKinds, events = <<Event(kind)>>
            PROVE  inbox' = Append(Append(inbox, Event(kind)), m)
        BY <1>2, <2>2, <4>3, InboxIs
      <4> QED BY <4>1, <4>2, <4>3
    <3>3. AllWant(Append(inbox, m), x)
      BY <1>2, <2>4, <3>1, AppendWants
    <3>4. \A kind \in EventKinds : AllWant(Append(Append(inbox, Event(kind)), m), x)
      BY <1>6, <2>4, <3>1, AppendWants
    <3> QED BY <3>2, <3>3, <3>4
  <2> HIDE DEF m
  <2> QED BY <1>3, <1>4, <2>2, <2>4, FollowsSent
<1> QED BY <1>1, <1>7, <1>8, <1>9, AnswerTold

-----------------------------------------------------------------------------
(* A gesture chooses anew, and the answer to a dialog or the end of a drag *)
(* leaves the selection where it is.                                       *)
Chooses ==
  chosen' = IF ui'.active /\ ui'.mode = "recent" THEN Selected(World').id ELSE None

LEMMA ActChooses ==
  ASSUME NEW gesture, NEW s, Act(gesture, s)
  PROVE  Chooses
<1>1. ui' = s.ui /\ chosen' = IF s.ui.active /\ s.ui.mode = "recent" THEN Selected(s).id ELSE None
  BY DEF Act, Becomes
<1>2. Selected(World') = Selected(s)
  BY <1>1, WorldIs DEF Selected, RowAt
<1> QED BY <1>1, <1>2 DEF Chooses

LEMMA UserChooses ==
  ASSUME User
  PROVE  \/ Chooses
         \/ \E yes \in BOOLEAN : AnswerDialog(yes)
         \/ \E filter \in Filters : DropClip(filter)
<1>1. CASE \/ \E query \in {TRUE, FALSE} : Type(query)
           \/ \E key \in {"Down", "Up", "Home", "End"} : MoveSelection(key)
  BY <1>1, ActChooses DEF Type, MoveSelection
<1>2. CASE Reveal \/ HideContent \/ \E k \in VisibleRows : ViewItem(k) \/ StartDrag(k)
  BY <1>2, ActChooses DEF Reveal, RevealPreview, HideContent, ViewItem, StartDrag
<1>3. CASE \/ \E row \in 0 .. Len(db) : SetScrollTop(row)
           \/ \E height \in Heights : SetViewportHeight(height)
  BY <1>3, ActChooses DEF SetScrollTop, SetViewportHeight
<1>4. CASE \E filter \in Filters : SelectTab(filter)
  BY <1>4, ActChooses DEF SelectTab
<1>5. CASE Recall \/ TogglePin \/ RemoveSelected
  BY <1>5, ActChooses DEF Recall, TogglePin, RemoveSelected
<1>6. CASE OpenTagging \/ OpenTitleEditing \/ OpenTabCreation \/ CancelEditor \/ Close
  BY <1>6, ActChooses DEF OpenTagging, OpenTitleEditing, OpenTabCreation, CancelEditor, Close
<1>7. CASE \E tab \in Tabs : ToggleTag(tab) \/ CreateTab(tab) \/ RequestTabRemoval(tab)
  BY <1>7, ActChooses DEF ToggleTag, CreateTab, RequestTabRemoval
<1>8. CASE \E yes \in {TRUE, FALSE} : CommitTitle(yes)
  BY <1>8, ActChooses DEF CommitTitle
<1>9. CASE \/ \E yes \in {TRUE, FALSE} : AnswerDialog(yes)
           \/ \E filter \in Filters : DropClip(filter)
  BY <1>9
<1> QED BY <1>1, <1>2, <1>3, <1>4, <1>5, <1>6, <1>7, <1>8, <1>9 DEF User

LEMMA OnAside ==
  ASSUME NEW s, Base(s), NEW x, On(s, x), NEW t, t.asked = s.asked, t.inbox = s.inbox,
         But(s.ui, t.ui, {"drag", "dialog", "removing"})
  PROVE  On(t, x)
<1>1. AllWanting(s, t)
  BY BesideSame, BesideWanting DEF Base
<1>2. t.ui.keep = s.ui.keep
  BY DEF But, Base, UiOK, UiFields
<1> QED BY <1>1, <1>2, OnStays DEF SelectionFields

LEMMA AsideCallWants ==
  ASSUME NEW x
  PROVE  /\ \A id, pinned : Wants([kind |-> "pin", live |-> TRUE, id |-> id, pinned |-> pinned], x)
         /\ \A id, tab : Wants([kind |-> "tag", live |-> FALSE, id |-> id, tab |-> tab,
                                tagged |-> TRUE], x)
         /\ \A live, tab : Wants([kind |-> "removeTab", live |-> live, tab |-> tab], x)
BY DEF Wants, Live

LEMMA FollowsDialog ==
  ASSUME NEW h, Fine(World, h), Follows, NEW yes \in BOOLEAN, AnswerDialog(yes)
  PROVE  Follows'
<1> DEFINE s == [World EXCEPT !.ui.dialog = None]
           r == [s EXCEPT !.ui.removing = ui.dialog]
           c == [kind |-> "removeTab", live |-> ui.active, tab |-> ui.dialog]
<1> SUFFICES ASSUME chosen # None PROVE On(World', chosen)
  BY DEF Follows, AnswerDialog
<1>1. Becomes(Ask(r, c)) \/ Becomes(s)
  BY DEF AnswerDialog
<1>2. UiOK(ui) /\ DOMAIN ui = UiFields /\ Base(World) /\ World.ui = ui /\ ui.dialog \in Tabs
  BY FreeIs DEF AnswerDialog, UiOK
<1>3. On(World, chosen)
  BY DEF Follows
<1>4. /\ IsState(s) /\ s.asked = World.asked /\ s.inbox = World.inbox
      /\ s.ui = [ui EXCEPT !.dialog = None]
  BY <1>2 DEF Base, IsState, Carries
<1>5. Fine(s, h)
  BY FineDialog
<1> HIDE DEF s
<1>6. /\ r.asked = World.asked /\ r.inbox = World.inbox
      /\ r.ui = [ui EXCEPT !.dialog = None, !.removing = ui.dialog]
  BY <1>4 DEF IsState, Carries
<1>7. Base(r)
  BY <1>2, <1>5, FineRemoving DEF Fine
<1> HIDE DEF r
<1>8. /\ But(ui, s.ui, {"drag", "dialog", "removing"})
      /\ But(ui, r.ui, {"drag", "dialog", "removing"})
  BY <1>2, <1>4, <1>6 DEF But, UiFields
<1>9. On(s, chosen) /\ On(r, chosen)
  BY <1>2, <1>3, <1>4, <1>6, <1>8, OnAside
<1>10. Wants(c, chosen)
  BY AsideCallWants
<1> HIDE DEF c
<1>11. On(Ask(r, c), chosen)
  BY <1>7, <1>9, <1>10, OnAsk
<1> QED BY <1>1, <1>9, <1>11, OnBecomes

LEMMA FollowsDrop ==
  ASSUME NEW h, Fine(World, h), Follows, NEW filter \in Filters, DropClip(filter)
  PROVE  Follows'
<1> DEFINE s == [World EXCEPT !.ui.drag = None]
           row == [NoRow EXCEPT !.id = ui.drag]
           pin == [kind |-> "pin", live |-> TRUE, id |-> row.id, pinned |-> TRUE]
           tag == [kind |-> "tag", live |-> FALSE, id |-> ui.drag, tab |-> filter, tagged |-> TRUE]
<1> SUFFICES ASSUME chosen # None PROVE On(World', chosen)
  BY DEF Follows, DropClip
<1>1. Becomes(s) \/ Becomes(Ask(s, pin)) \/ Becomes(Ask(s, tag))
  BY DEF DropClip, SetPin, ApplyTag
<1>2. DOMAIN ui = UiFields /\ Base(World) /\ World.ui = ui
  BY FreeIs
<1>3. On(World, chosen)
  BY DEF Follows
<1>4. /\ s.asked = World.asked /\ s.inbox = World.inbox /\ s.ui = [ui EXCEPT !.drag = None]
  BY <1>2 DEF Base, IsState, Carries
<1>5. Base(s)
  BY FineDrag DEF Fine, Some
<1> HIDE DEF s, row
<1>6. But(ui, s.ui, {"drag", "dialog", "removing"})
  BY <1>2, <1>4 DEF But, UiFields
<1>7. On(s, chosen)
  BY <1>2, <1>3, <1>4, <1>6, OnAside
<1>8. Wants(pin, chosen) /\ Wants(tag, chosen)
  BY AsideCallWants
<1> HIDE DEF pin, tag
<1>9. On(Ask(s, pin), chosen) /\ On(Ask(s, tag), chosen)
  BY <1>5, <1>7, <1>8, OnAsk
<1> QED BY <1>1, <1>7, <1>9, OnBecomes

LEMMA FollowsUser ==
  ASSUME NEW h, Fine(World, h), Follows, User, Types'
  PROVE  Follows'
<1>1. CASE Chooses
  <2>1. UiOK(World'.ui) /\ World'.ui = ui'
    BY WorldIs DEF Types, Base
  <2>2. Selected(World').id # None => ui'.rows # <<>>
    BY <2>1, SelectedIs
  <2> QED BY <1>1, <2>1, <2>2 DEF Follows, Chooses, On, Held
<1>2. CASE \E yes \in BOOLEAN : AnswerDialog(yes)
  BY <1>2, FollowsDialog
<1>3. CASE \E filter \in Filters : DropClip(filter)
  BY <1>3, FollowsDrop
<1> QED BY <1>1, <1>2, <1>3, UserChooses

LEMMA FollowsNext ==
  ASSUME Right, Follows, [Next]_vars
  PROVE  Follows'
<1>1. PICK h : h = Memory
  OBVIOUS
<1>2. Types /\ Fine(World, h) /\ Types'
  BY <1>1, RightNext DEF Right
<1>8. h.at = asOf
  BY <1>1, MemoryIs
<1>3. CASE UNCHANGED vars
  <2>1. chosen' = chosen /\ World' = World
    BY <1>3 DEF vars, World
  <2> QED BY <2>1 DEF Follows
<1>4. CASE Receive
  BY <1>2, <1>4, <1>8, FollowsReceive
<1>5. CASE Answer
  BY <1>2, <1>5, FollowsAnswer
<1>6. CASE Show \/ Hide \/ \E i \in Items : Copied(i) \/ Expire(i)
  BY <1>2, <1>6, FollowsMain
<1>7. CASE User
  BY <1>2, <1>7, FollowsUser
<1> QED BY <1>3, <1>4, <1>5, <1>6, <1>7 DEF Next

(* Refreshes leave the selection on the item the user had selected: each   *)
(* looks up the item that was selected when it began, or the one that the  *)
(* refresh before it had not found yet, and until a page read for a scroll *)
(* leaves out what the one before it had.  (refresh and reload,            *)
(* palette-state.svelte.ts.)                                               *)
THEOREM SelectionFollows == Spec => []SelectionFollowsItem
<1>1. Init => Follows
  BY DEF Init, Follows
<1>2. Right /\ Follows /\ [Next]_vars => Follows'
  BY FollowsNext
<1>3. Follows => SelectionFollowsItem
  BY WorldIs, HeldOnly DEF Follows, Held, SelectionFollowsItem
<1> QED BY <1>1, <1>2, <1>3, RightInvariant, PTL DEF Spec
=============================================================================
