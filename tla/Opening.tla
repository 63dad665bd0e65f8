------------------------------ MODULE Opening -------------------------------
(***************************************************************************)
(* Opening the palette: main prepares the hidden window, restores evicted  *)
(* previews and announces the opening; the renderer loads the list, draws  *)
(* it and acknowledges; only then main presents the window (wiring.ts,     *)
(* windows.ts and the renderer's start()).  Around it: a screen lock, a    *)
(* sleep or idleness evicts the previews, the user leaves, presses Escape  *)
(* or recalls an item, and openings follow each other.                     *)
(*                                                                         *)
(* An opening is known by its stamp, the shownAt of showPalette(), which   *)
(* is greater than any before.  Answers and events reach the renderer in   *)
(* the order main sent them.                                               *)
(***************************************************************************)
EXTENDS Integers, Sequences

CONSTANTS
  Passphrases,   (* may the keyring be in passphrase mode?                 *)
  MaxMoves      (* bound: what the user, the system and failures may do    *)

ASSUME OpeningAssumption ==
  /\ Passphrases \subseteq BOOLEAN /\ Passphrases # {}
  /\ MaxMoves \in Nat

VARIABLES
  passphrase,   (* main: is the keyring in passphrase mode?                *)
  opening,      (* main: paletteOpening                                    *)
  stamp,        (* main: the latest shownAt                                *)
  win,          (* main: shown, presented and awaiting, the stamp whose    *)
                (* acknowledgement presents the window (0: none)           *)
  evicted,      (* main: are the previews gone?                            *)
  evictedWhileIdle,
  keyGone,      (* main: has a screen lock zeroed the key?                 *)
  relocked,     (* main: relockedOnScreenLock                              *)
  load,         (* main: "idle", "running", or "overtaken" by an eviction  *)
  waiting,      (* main: the openings that are announced when it ends      *)
  copying,      (* main: for each recall under way, the opening it began in*)
  asked,        (* the renderer's calls on their way to main               *)
  inbox,        (* answers and events on their way to the renderer         *)
  page,         (* the renderer: mounted, active, current opening (0: none)*)
                (* and what it holds: rows, and the opening they are of    *)
  frames,       (* the renderer: openings whose first frame is being drawn *)
  lost,         (* openings announced before the renderer listened         *)
  excused,      (* openings that could not get their previews back; for    *)
                (* the properties only                                     *)
  moves         (* what is left of the bound                               *)

mainVars == <<opening, stamp, win, evicted, evictedWhileIdle, keyGone, relocked, load, waiting,
              copying>>
openingVars == <<passphrase, mainVars, asked, inbox, page, frames, lost, excused, moves>>

Move == moves > 0 /\ moves' = moves - 1

-----------------------------------------------------------------------------
(* The window (windows.ts).                                                *)

Closed == [shown |-> FALSE, presented |-> FALSE, awaiting |-> 0]

Hidden == [kind |-> "hidden"]
Shown(n) == [kind |-> "shown", stamp |-> n]

(* hide() does nothing unless the window is shown or prepared.             *)
HideEvents == IF win.shown THEN <<Hidden>> ELSE <<>>

Hide ==
  /\ win' = Closed
  /\ inbox' = inbox \o HideEvents

(* Only the acknowledgement main waits for presents the window.            *)
Ready(n) ==
  IF win.shown /\ win.awaiting = n
  THEN [win EXCEPT !.awaiting = 0, !.presented = TRUE] ELSE win

(* The window lost the focus.                                              *)
Blur ==
  /\ win.presented
  /\ Hide
  /\ Move
  /\ UNCHANGED <<passphrase, opening, stamp, evicted, evictedWhileIdle, keyGone, relocked, load,
                 waiting, copying, asked, page, frames, lost, excused>>

-----------------------------------------------------------------------------
(* Main (wiring.ts).                                                       *)

(* ensurePreviews() has something to do.                                   *)
NeedsLoad == evicted /\ ~relocked

JoinedLoad == IF load = "idle" THEN "running" ELSE load

(* Mutant: the opening is announced without waiting for the previews.      *)
ShowPalette_AtOnce ==
  /\ Move
  /\ opening' = opening + 1
  /\ stamp' = stamp + 1
  /\ load' = IF NeedsLoad THEN JoinedLoad ELSE load
  /\ win' = [shown |-> TRUE, presented |-> FALSE, awaiting |-> stamp + 1]
  /\ inbox' = inbox \o HideEvents \o <<Shown(stamp + 1)>>
  /\ waiting' = waiting
  /\ excused' = IF relocked THEN excused \cup {stamp + 1} ELSE excused
  /\ UNCHANGED <<passphrase, evicted, evictedWhileIdle, keyGone, relocked, copying, asked,
                 page, frames, lost>>

ShowPalette ==
  /\ Move
  /\ opening' = opening + 1
  /\ stamp' = stamp + 1
  /\ IF NeedsLoad
     THEN /\ load' = JoinedLoad
          /\ waiting' = waiting \cup {[opening |-> opening + 1, stamp |-> stamp + 1]}
          /\ win' = [Closed EXCEPT !.shown = TRUE]
          /\ inbox' = inbox \o HideEvents
          /\ UNCHANGED excused
     ELSE /\ win' = [shown |-> TRUE, presented |-> FALSE, awaiting |-> stamp + 1]
          /\ inbox' = inbox \o HideEvents \o <<Shown(stamp + 1)>>
          /\ excused' = IF relocked THEN excused \cup {stamp + 1} ELSE excused
          /\ UNCHANGED <<load, waiting>>
  /\ UNCHANGED <<passphrase, evicted, evictedWhileIdle, keyGone, relocked, copying, asked,
                 page, frames, lost>>

(* The hot key or the tray on a visible palette.                           *)
ToggleHides ==
  /\ win.shown
  /\ Hide
  /\ Move
  /\ UNCHANGED <<passphrase, opening, stamp, evicted, evictedWhileIdle, keyGone, relocked, load,
                 waiting, copying, asked, page, frames, lost, excused>>

(* Mutant: an evicted cache is not a reason to wake a hidden renderer.     *)
EvictPreviewCache_HidesOnly ==
  /\ Move
  /\ evicted' = TRUE
  /\ load' = IF load = "running" THEN "overtaken" ELSE load
  /\ opening' = opening + 1
  /\ win' = Closed
  /\ inbox' = inbox \o HideEvents
  /\ UNCHANGED <<passphrase, stamp, waiting, copying, asked, page, frames, lost, excused>>

(* The previews go, here and in the renderer.                              *)
EvictPreviewCache ==
  /\ Move
  /\ evicted' = TRUE
  /\ load' = IF load = "running" THEN "overtaken" ELSE load
  /\ opening' = opening + 1
  /\ win' = Closed
  /\ inbox' = inbox \o HideEvents \o <<Hidden>>
  /\ UNCHANGED <<passphrase, stamp, waiting, copying, asked, page, frames, lost, excused>>

(* In passphrase mode a locked screen zeroes the key as well.              *)
LockScreen ==
  /\ EvictPreviewCache
  /\ keyGone' = (keyGone \/ passphrase)
  /\ relocked' = (relocked \/ (passphrase /\ ~keyGone))
  /\ UNCHANGED evictedWhileIdle

Suspend ==
  /\ EvictPreviewCache
  /\ UNCHANGED <<evictedWhileIdle, keyGone, relocked>>

IdleTick(idle) ==
  IF idle /\ ~evictedWhileIdle
  THEN /\ EvictPreviewCache
       /\ evictedWhileIdle' = TRUE
       /\ UNCHANGED <<keyGone, relocked>>
  ELSE /\ evictedWhileIdle # idle
       /\ Move
       /\ evictedWhileIdle' = idle
       /\ UNCHANGED <<passphrase, opening, stamp, win, evicted, keyGone, relocked, load, waiting,
                      copying, asked, inbox, page, frames, lost, excused>>

(* unlock-screen and resume.                                               *)
Returns(unlocked) ==
  /\ Move
  /\ evictedWhileIdle' = FALSE
  /\ relocked' = (relocked /\ ~unlocked)
  /\ load' = IF NeedsLoad THEN JoinedLoad ELSE load
  /\ UNCHANGED <<passphrase, opening, stamp, win, evicted, keyGone, waiting, copying, asked, inbox,
                 page, frames, lost, excused>>

(* history.load() ends; the opening that waited is announced if it is      *)
(* still the current one and has not been withdrawn, loaded or not.        *)
LoadEnds(ok) ==
  LET due == {w \in waiting : w.opening = opening /\ win.shown}
      good == ok /\ load = "running"
  IN  /\ load # "idle"
      /\ ok => ~keyGone
      /\ IF ok \/ keyGone THEN UNCHANGED moves ELSE Move
      /\ load' = "idle"
      /\ waiting' = {}
      /\ evicted' = (evicted /\ ~good)
      /\ excused' = IF good THEN excused ELSE excused \cup {w.stamp : w \in due}
      /\ IF due = {} THEN UNCHANGED <<win, inbox>>
         ELSE /\ win' = [win EXCEPT !.awaiting = stamp]
              /\ inbox' = Append(inbox, Shown(stamp))
      /\ UNCHANGED <<passphrase, opening, stamp, evictedWhileIdle, keyGone, relocked, copying,
                     asked, page, frames, lost>>

(* A row changed in main.                                                  *)
HistoryChanges ==
  /\ Move
  /\ inbox' = Append(inbox, [kind |-> "changed"])
  /\ UNCHANGED <<passphrase, mainVars, asked, page, frames, lost, excused>>

Call == Head(asked)

AnswerList ==
  /\ asked # <<>> /\ Call.kind = "list"
  /\ inbox' = Append(inbox, [kind |-> "list", live |-> Call.live, first |-> Call.first,
                             stamp |-> Call.stamp,
                             rows |-> IF evicted THEN "blank" ELSE "full"])
  /\ asked' = Tail(asked)
  /\ UNCHANGED <<passphrase, mainVars, page, frames, lost, excused, moves>>

AnswerReady ==
  /\ asked # <<>> /\ Call.kind = "ready"
  /\ win' = Ready(Call.stamp)
  /\ asked' = Tail(asked)
  /\ UNCHANGED <<passphrase, opening, stamp, evicted, evictedWhileIdle, keyGone, relocked, load,
                 waiting, copying, inbox, page, frames, lost, excused, moves>>

AnswerClose ==
  /\ asked # <<>> /\ Call.kind = "close"
  /\ Hide
  /\ asked' = Tail(asked)
  /\ UNCHANGED <<passphrase, opening, stamp, evicted, evictedWhileIdle, keyGone, relocked, load,
                 waiting, copying, page, frames, lost, excused, moves>>

RecallCopy ==
  /\ asked # <<>> /\ Call.kind = "copy"
  /\ copying' = copying \cup {opening}
  /\ asked' = Tail(asked)
  /\ UNCHANGED <<passphrase, opening, stamp, win, evicted, evictedWhileIdle, keyGone, relocked,
                 load, waiting, inbox, page, frames, lost, excused, moves>>

(* The item is on the clipboard, or could not be put there; a palette      *)
(* opened meanwhile stays.                                                 *)
CopyEnds(n, ok) ==
  /\ n \in copying
  /\ copying' = copying \ {n}
  /\ IF ok /\ n = opening THEN Hide ELSE UNCHANGED <<win, inbox>>
  /\ UNCHANGED <<passphrase, opening, stamp, evicted, evictedWhileIdle, keyGone, relocked, load,
                 waiting, asked, page, frames, lost, excused, moves>>

-----------------------------------------------------------------------------
(* The renderer.                                                           *)

Outdated(q) == [k \in DOMAIN q |-> IF q[k].kind = "list" THEN [q[k] EXCEPT !.live = FALSE] ELSE q[k]]

(* reload(): earlier reads are stale; first says it is the one the opening *)
(* waits for.                                                              *)
Reload(opened) == [kind |-> "list", live |-> TRUE, first |-> opened # 0, stamp |-> opened]

(* index.html has run: the renderer listens and reads the list at once.    *)
Mount ==
  /\ ~page.mounted
  /\ page' = [page EXCEPT !.mounted = TRUE]
  /\ asked' = Append(asked, Reload(0))
  /\ UNCHANGED <<passphrase, mainVars, inbox, frames, lost, excused, moves>>

(* Before that, what main sends has no listener.                           *)
Unheard ==
  /\ inbox # <<>> /\ ~page.mounted
  /\ inbox' = Tail(inbox)
  /\ lost' = IF Head(inbox).kind = "shown" THEN lost \cup {Head(inbox).stamp} ELSE lost
  /\ UNCHANGED <<passphrase, mainVars, asked, page, frames, excused, moves>>

Hears(kind) == page.mounted /\ inbox # <<>> /\ Head(inbox).kind = kind

Scrubbed == [page EXCEPT !.active = FALSE, !.current = 0, !.rows = "none", !.of = 0]

OnShown ==
  /\ Hears("shown")
  /\ page' = [page EXCEPT !.active = TRUE, !.current = Head(inbox).stamp, !.rows = "none",
                          !.of = Head(inbox).stamp]
  /\ asked' = Append(Outdated(asked), Reload(Head(inbox).stamp))
  /\ inbox' = Outdated(Tail(inbox))
  /\ UNCHANGED <<passphrase, mainVars, frames, lost, excused, moves>>

OnHidden ==
  /\ Hears("hidden")
  /\ page' = Scrubbed
  /\ asked' = Outdated(asked)
  /\ inbox' = Outdated(Tail(inbox))
  /\ UNCHANGED <<passphrase, mainVars, frames, lost, excused, moves>>

OnChanged ==
  /\ Hears("changed")
  /\ IF page.active
     THEN /\ page' = [page EXCEPT !.rows = "none"]
          /\ asked' = Append(Outdated(asked), [Reload(page.current) EXCEPT !.first = FALSE])
          /\ inbox' = Outdated(Tail(inbox))
     ELSE /\ inbox' = Tail(inbox)
          /\ UNCHANGED <<page, asked>>
  /\ UNCHANGED <<passphrase, mainVars, frames, lost, excused, moves>>

(* Mutant: a stale answer draws no first frame.                            *)
OnList_DropsStale ==
  LET answer == Head(inbox)
  IN  /\ Hears("list")
      /\ page' = IF answer.live THEN [page EXCEPT !.rows = answer.rows, !.of = answer.stamp]
                 ELSE page
      /\ frames' = IF answer.live /\ answer.first THEN frames \cup {answer.stamp} ELSE frames
      /\ inbox' = Tail(inbox)
      /\ UNCHANGED <<passphrase, mainVars, asked, lost, excused, moves>>

(* The opening's own read may be stale when its answer comes; its first    *)
(* frame is drawn all the same.                                            *)
OnList ==
  LET answer == Head(inbox)
  IN  /\ Hears("list")
      /\ page' = IF answer.live THEN [page EXCEPT !.rows = answer.rows, !.of = answer.stamp]
                 ELSE page
      /\ frames' = IF answer.first THEN frames \cup {answer.stamp} ELSE frames
      /\ inbox' = Tail(inbox)
      /\ UNCHANGED <<passphrase, mainVars, asked, lost, excused, moves>>

(* Two frames later the opening is acknowledged, if it is the current one. *)
Acknowledge(n) ==
  /\ n \in frames
  /\ frames' = frames \ {n}
  /\ asked' = IF page.current = n THEN Append(asked, [kind |-> "ready", stamp |-> n]) ELSE asked
  /\ UNCHANGED <<passphrase, mainVars, inbox, page, lost, excused, moves>>

(* Bound: a key is not pressed again before main has heard of the first    *)
(* time; nothing in the code says so.                                      *)
Asked(kind) == \E k \in DOMAIN asked : asked[k].kind = kind

(* The user, in front of the window: Escape scrubs before it asks main.    *)
Escape ==
  /\ Move
  /\ win.presented
  /\ page' = Scrubbed
  /\ asked' = Append(Outdated(asked), [kind |-> "close"])
  /\ inbox' = Outdated(inbox)
  /\ ~Asked("close")
  /\ UNCHANGED <<passphrase, mainVars, frames, lost, excused>>

Enter ==
  /\ Move
  /\ win.presented /\ page.rows # "none"
  /\ copying = {} /\ ~Asked("copy")
  /\ asked' = Append(asked, [kind |-> "copy"])
  /\ UNCHANGED <<passphrase, mainVars, inbox, page, frames, lost, excused>>

-----------------------------------------------------------------------------

OpeningInit ==
  /\ passphrase \in Passphrases
  /\ opening = 0 /\ stamp = 0 /\ win = Closed
  /\ evicted = FALSE /\ evictedWhileIdle = FALSE /\ keyGone = FALSE /\ relocked = FALSE
  /\ load = "idle" /\ waiting = {} /\ copying = {}
  /\ asked = <<>> /\ inbox = <<>>
  /\ page = [mounted |-> FALSE, active |-> TRUE, current |-> 0, rows |-> "none", of |-> 0]
  /\ frames = {} /\ lost = {} /\ excused = {}
  /\ moves = MaxMoves

Answer == AnswerList \/ AnswerReady \/ AnswerClose \/ RecallCopy
Hear == Unheard \/ OnShown \/ OnHidden \/ OnChanged \/ OnList

OpeningNext ==
  \/ ShowPalette \/ ToggleHides \/ Blur \/ Escape \/ Enter
  \/ LockScreen \/ Suspend \/ HistoryChanges
  \/ \E b \in BOOLEAN : IdleTick(b) \/ Returns(b) \/ LoadEnds(b)
  \/ Answer \/ Hear \/ Mount
  \/ \E n \in 0 .. MaxMoves, b \in BOOLEAN : CopyEnds(n, b)
  \/ \E n \in 1 .. MaxMoves : Acknowledge(n)

OpeningSpec == OpeningInit /\ [][OpeningNext]_openingVars

(* Both processes handle what reaches them, a load ends, and the hidden    *)
(* window draws its frames (background throttling is off).                 *)
OpeningFairness ==
  /\ WF_openingVars(Answer) /\ WF_openingVars(Hear)
  /\ WF_openingVars(\E b \in BOOLEAN : LoadEnds(b))
  /\ \A n \in 1 .. MaxMoves : WF_openingVars(Acknowledge(n))

FairOpeningSpec == OpeningSpec /\ OpeningFairness

-----------------------------------------------------------------------------

(* The window in front of the user shows nothing, or rows read for this    *)
(* very opening, and these have their previews unless the load that was to *)
(* bring them back failed, was overtaken by a new eviction or could not be *)
(* tried.  (showPalette, evictPreviewCache and ready; "let the renderer    *)
(* acknowledge a private first frame", wiring.ts:181.)                     *)
PresentsItsOwn ==
  win.presented /\ page.rows # "none" =>
    /\ page.of = stamp
    /\ page.rows = "blank" => stamp \in excused

(* Once the previews are evicted and the renderer has heard of it, it      *)
(* holds none either, shown before or not.  (evictPreviewCache,            *)
(* wiring.ts:223-228.)                                                     *)
NothingKeptAfterEviction ==
  evicted /\ inbox = <<>> /\ page.mounted => page.rows # "full"

(* A prepared window does not stay hidden: the opening is presented,       *)
(* withdrawn, or followed by another, unless it was announced before the   *)
(* renderer listened.                                                      *)
OpeningEnds ==
  win.shown /\ ~win.presented ~> win.presented \/ ~win.shown \/ stamp \in lost
=============================================================================
