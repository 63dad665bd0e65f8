--------------------------------- MODULE App ---------------------------------
(***************************************************************************)
(* The life of the desktop process: the launch (index.ts), start() and     *)
(* stop() of what it composes (wiring.ts), the quit that waits for them    *)
(* (shutdown.ts), with the keyring, config.json and the log on a disk that *)
(* outlives it.  Between two awaits a function is one step; while it waits,*)
(* copies arrive, limits are chosen, the user quits or the process dies.   *)
(*                                                                         *)
(* packages/keyring also offers a passphrase and a new key after           *)
(* corruption, which nothing in the application calls yet: Rescues says    *)
(* whether another process calls them between two launches.                *)
(***************************************************************************)
EXTENDS Keyring, SequencesExt

CONSTANTS
  Limits,        (* what "keep the last n copies" can be                   *)
  DefaultLimit,
  Rescues,       (* is the keyring rescued between launches?               *)
  MaxCopies,     (* bound on the copies of a behaviour                     *)
  MaxSteps       (* bound: what the user and failures may do               *)

ASSUME AppAssumption ==
  /\ DefaultLimit \in Limits /\ Limits \subseteq Nat \ {0}
  /\ Rescues \in BOOLEAN /\ MaxCopies \in Nat /\ MaxSteps \in Nat

VARIABLES
  file,          (* config.json                                            *)
  main,          (* how far main() is                                      *)
  startup,       (* how far start() is, or how it ended                    *)
  stopping,      (* how far the shutdown is                                *)
  quitting,      (* app.quit() was called and before-quit is to be sent    *)
  finished,      (* the shutdown is over, and quitting no longer prevented *)
  config,        (* the configuration of the running process               *)
  limit,         (* the limit the history keeps to                         *)
  store,         (* is the store open?                                     *)
  tray,          (* is the menu bar icon there?                            *)
  hotkey,        (* hotkey.status()                                        *)
  capturing,     (* does capture watch the clipboard?                      *)
  held,          (* the copy the debounce window holds back, or 0          *)
  reading,       (* copies capture reads                                   *)
  pending,       (* pendingIngest: copies on their way into the history    *)
  sweeps,        (* sweeps that wait their turn: of an ingest, of a limit  *)
  copies,        (* copies that have reached capture so far                *)
  gone,          (* copies that were to go: replaced or dropped in the     *)
                 (* window, skipped by the rules, not written, swept, lost *)
                 (* in a crash or given up; for the properties only        *)
  chosen,        (* what the user chose last; for the properties only      *)
  cut,           (* was the last write of config.json cut short, or did it *)
                 (* fail?  (same)                                          *)
  left           (* what is left of the bound                              *)

queues == <<capturing, held, reading, pending, sweeps>>
process == <<main, startup, stopping, quitting, finished, config, limit, store, tray, hotkey>>
ghosts == <<gone, chosen, cut>>
vars == <<disk, live, drawn, file, process, queues, copies, ghosts, left>>

Spend == left > 0 /\ left' = left - 1

Default == [limit |-> DefaultLimit, asked |-> FALSE]

-----------------------------------------------------------------------------
(* config.json                                                             *)

(* loadConfig(): a file that is missing or cannot be read is the defaults. *)
LoadedConfig == IF file.state = "ok" THEN file.config ELSE Default

(* saveConfig(): truncate, write, flush.                                   *)
saveConfig(c) == file' = [state |-> "ok", config |-> c] /\ chosen' = c /\ cut' = FALSE

(* It ends after the file was truncated.                                   *)
CutConfig == file' = [state |-> "invalid", config |-> Default] /\ cut' = TRUE

(* It throws: the file cannot be opened, or not be written, or not be      *)
(* flushed.                                                                *)
saveConfigFails(c) ==
  \/ UNCHANGED <<file, chosen, cut>>
  \/ CutConfig /\ UNCHANGED chosen
  \/ file' = [state |-> "ok", config |-> c] /\ chosen' = c /\ cut' = TRUE

-----------------------------------------------------------------------------
(* The history, as far as the life of the process goes.                    *)

Items(records) == {r.item : r \in records} \ {0}

(* The copies beyond the newest n.                                         *)
Beyond(records, n) ==
  {i \in Items(records) : Cardinality({j \in Items(records) : j > i}) >= n}

(* enforceRetention() on an open store.                                    *)
enforceRetention ==
  IF store
  THEN LET out == Beyond(log, limit)
       IN  /\ log' = {r \in log : r.item \notin out}
           /\ gone' = gone \cup out
  ELSE UNCHANGED <<log, gone>>

-----------------------------------------------------------------------------
(* The launch (index.ts).                                                  *)

(* What a process leaves behind when it ends: nothing but the disk.        *)
Ends ==
  /\ main' = "down" /\ startup' = "no" /\ stopping' = "no"
  /\ quitting' = FALSE /\ finished' = FALSE
  /\ config' = Default /\ limit' = DefaultLimit
  /\ store' = FALSE /\ tray' = FALSE /\ hotkey' = "unbound"
  /\ capturing' = FALSE /\ held' = 0 /\ reading' = <<>> /\ pending' = <<>>
  /\ sweeps' = [ingest |-> FALSE, limit |-> FALSE]
  /\ lock

Launch ==
  /\ main = "down"
  /\ Spend
  /\ main' = "key" /\ config' = LoadedConfig /\ limit' = LoadedConfig.limit
  /\ UNCHANGED <<disk, live, drawn, file, startup, stopping, quitting, finished, store, tray,
                 hotkey, queues, copies, ghosts>>

MasterKey(strong, unwraps) ==
  /\ main = "key"
  /\ IF Refused(strong, unwraps)
     THEN main' = "refused" /\ UNCHANGED <<disk, live, drawn>>
     ELSE main' = "store" /\ \E k \in Keys : getOrCreateMasterKey(strong, unwraps, k)
  /\ UNCHANGED <<file, startup, stopping, quitting, finished, config, limit, store, tray, hotkey,
                 queues, copies, ghosts, left>>

(* openStore() seals the first record of an empty log, and otherwise needs *)
(* the key of the first record; then the history is loaded.                *)
Anchor(records) == {r \in records : r.item = 0}

OpenStore ==
  /\ main = "store"
  /\ LET good == \A r \in Anchor(log) : r.key = masterKey
     IN  /\ main' = IF good THEN "load" ELSE "refused"
         /\ store' = good
         /\ log' = IF log = {} THEN {[item |-> 0, key |-> masterKey]} ELSE log
  /\ UNCHANGED <<keyFile, live, drawn, file, startup, stopping, quitting, finished, config, limit, tray,
                 hotkey, queues, copies, ghosts, left>>

(* The window is made, the parts are composed, start() runs to its first   *)
(* await, and quitting is from now on held up by the shutdown.             *)
Compose ==
  /\ main = "load"
  /\ main' = "starting" /\ startup' = "agent"
  /\ enforceRetention
  /\ UNCHANGED <<keyFile, live, drawn, file, stopping, quitting, finished, config, limit, store, tray,
                 hotkey, queues, copies, chosen, cut, left>>

(* main() goes on when start() has settled.                                *)
Running(icon) ==
  /\ main = "starting" /\ startup = "ok"
  /\ main' = "settled"
  /\ tray' = (icon /\ stopping = "no")
  /\ UNCHANGED <<disk, live, drawn, file, startup, stopping, quitting, finished, config, limit, store,
                 hotkey, queues, copies, ghosts, left>>

(* A start() that threw ends in the error box; one that returned an error  *)
(* does unless the application is being quit anyway.                       *)
StartFailed ==
  /\ main = "starting" /\ startup \in {"err", "thrown"}
  /\ main' = IF startup = "err" /\ stopping # "no" THEN "settled" ELSE "refused"
  /\ UNCHANGED <<disk, live, drawn, file, startup, stopping, quitting, finished, config, limit, store,
                 tray, hotkey, queues, copies, ghosts, left>>

(* The user dismisses the error box.                                       *)
ErrorBoxClosed ==
  /\ main = "refused"
  /\ main' = "settled" /\ quitting' = TRUE
  /\ UNCHANGED <<disk, live, drawn, file, startup, stopping, finished, config, limit, store, tray, hotkey,
                 queues, copies, ghosts, left>>

-----------------------------------------------------------------------------
(* start() (wiring.ts).                                                    *)

AgentStart(ok) ==
  /\ startup = "agent"
  /\ IF ok THEN startup' = "capture" /\ UNCHANGED left ELSE startup' = "thrown" /\ Spend
  /\ UNCHANGED <<disk, live, drawn, file, main, stopping, quitting, finished, config, limit, store, tray,
                 hotkey, queues, copies, ghosts>>

CaptureStart(ok) ==
  /\ startup = "capture"
  /\ IF ok THEN UNCHANGED left ELSE Spend
  /\ startup' = IF ~ok THEN "err" ELSE IF config.asked THEN "bind" ELSE "ask"
  /\ capturing' = ok
  /\ UNCHANGED <<disk, live, drawn, file, main, stopping, quitting, finished, config, limit, store, tray,
                 hotkey, held, reading, pending, sweeps, copies, ghosts>>

(* The user answers the first-run dialog.                                  *)
chooseHotkey(ok) ==
  /\ startup = "ask"
  /\ config' = [config EXCEPT !.asked = TRUE]
  /\ IF ok THEN startup' = "bind" /\ saveConfig(config') /\ UNCHANGED left
     ELSE startup' = "thrown" /\ saveConfigFails(config') /\ Spend
  /\ UNCHANGED <<disk, live, drawn, main, stopping, quitting, finished, limit, store, tray, hotkey,
                 queues, copies, gone>>

Bind(status) ==
  /\ startup = "bind"
  /\ startup' = "ok" /\ hotkey' = status
  /\ UNCHANGED <<disk, live, drawn, file, main, stopping, quitting, finished, config, limit, store, tray,
                 queues, copies, ghosts, left>>

-----------------------------------------------------------------------------
(* Copies and limits, while it runs.                                       *)

Held == {held} \ {0}

(* A change reaches onChanged() and replaces what the window holds back.   *)
Copy ==
  /\ capturing /\ copies < MaxCopies
  /\ copies' = copies + 1 /\ held' = copies + 1
  /\ gone' = gone \cup Held
  /\ UNCHANGED <<disk, live, drawn, file, process, capturing, reading, pending, sweeps, chosen, cut,
                 left>>

(* flush(): the debounce timer fires.                                      *)
Flush ==
  /\ held # 0
  /\ held' = 0 /\ reading' = Append(reading, held)
  /\ UNCHANGED <<disk, live, drawn, file, process, capturing, pending, sweeps, copies, ghosts, left>>

(* emit(): capture hands a copy over, or the rules skip it; the            *)
(* subscription lasts until stop() ends it.                                *)
Candidate(skipped) ==
  /\ reading # <<>>
  /\ reading' = Tail(reading)
  /\ pending' = IF skipped \/ stopping \in {"ingest", "dispose", "finish"} THEN pending
                ELSE Append(pending, Head(reading))
  /\ IF skipped THEN Spend /\ gone' = gone \cup {Head(reading)} ELSE UNCHANGED <<gone, left>>
  /\ UNCHANGED <<disk, live, drawn, file, process, capturing, held, sweeps, copies, chosen, cut>>

(* history.ingest() of the next copy, then a sweep.                        *)
Ingest(ok) ==
  /\ pending # <<>> /\ ~sweeps.ingest
  /\ pending' = Tail(pending)
  /\ IF ok /\ store
     THEN /\ log' = log \cup {[item |-> Head(pending), key |-> masterKey]}
          /\ sweeps' = [sweeps EXCEPT !.ingest = TRUE]
          /\ UNCHANGED <<gone, left>>
     ELSE /\ gone' = gone \cup {Head(pending)}
          /\ IF store THEN Spend ELSE UNCHANGED left
          /\ UNCHANGED <<log, sweeps>>
  /\ UNCHANGED <<keyFile, live, drawn, file, process, capturing, held, reading, copies, chosen, cut>>

(* setHistoryLimit(), from the tray's menu, which offers the present limit *)
(* as well; the history is told of the limit once it is saved.  (Of two    *)
(* sweeps that wait, the second finds what the first left: they are one.)  *)
(* Mutant: the choice is kept in memory only.                              *)
setHistoryLimit_Unsaved(n, ok) ==
  /\ tray
  /\ Spend
  /\ config' = [config EXCEPT !.limit = n]
  /\ chosen' = config' /\ UNCHANGED <<file, cut>>
  /\ limit' = n /\ sweeps' = [sweeps EXCEPT !.limit = TRUE]
  /\ UNCHANGED <<disk, live, drawn, main, startup, stopping, quitting, finished, store, tray,
                 hotkey, capturing, held, reading, pending, copies, gone>>

setHistoryLimit(n, ok) ==
  /\ tray
  /\ Spend
  /\ config' = [config EXCEPT !.limit = n]
  /\ IF ok THEN saveConfig(config') /\ limit' = n /\ sweeps' = [sweeps EXCEPT !.limit = TRUE]
     ELSE saveConfigFails(config') /\ UNCHANGED <<limit, sweeps>>
  /\ UNCHANGED <<disk, live, drawn, main, startup, stopping, quitting, finished, store, tray,
                 hotkey, capturing, held, reading, pending, copies, gone>>

Sweep(of) ==
  /\ sweeps[of]
  /\ sweeps' = [sweeps EXCEPT ![of] = FALSE]
  /\ enforceRetention
  /\ UNCHANGED <<keyFile, live, drawn, file, process, capturing, held, reading, pending, copies,
                 chosen, cut, left>>

-----------------------------------------------------------------------------
(* Quitting (shutdown.ts) and stop() (wiring.ts).                          *)

(* The user, or the system, asks the application to quit.                  *)
Quit ==
  /\ main # "down" /\ ~quitting /\ Spend
  /\ quitting' = TRUE
  /\ UNCHANGED <<disk, live, drawn, file, main, startup, stopping, finished, config, limit, store, tray,
                 hotkey, queues, copies, ghosts>>

Registered == startup # "no"

(* before-quit: nothing prevents it before the shutdown is registered, nor *)
(* after it has finished; a second one does not start another shutdown.    *)
BeforeQuit ==
  /\ quitting
  /\ IF Registered /\ ~finished
     THEN /\ quitting' = FALSE
          /\ stopping' = IF stopping = "no" THEN "startup" ELSE stopping
          /\ tray' = FALSE
          /\ UNCHANGED <<live, main, startup, finished, config, limit, store, hotkey, queues>>
     ELSE Ends
  /\ UNCHANGED <<disk, drawn, file, copies, ghosts, left>>

StopStep(from, to) ==
  /\ stopping = from /\ stopping' = to
  /\ UNCHANGED <<disk, drawn, file, main, startup, config, limit, tray, reading, pending, sweeps,
                 copies, chosen, cut, left>>

(* stop() waits for start(), drops the IPC handlers, and lets go of the    *)
(* hot key, if the agent answers.                                          *)
AwaitStartup ==
  /\ startup \in {"ok", "err", "thrown"}
  /\ StopStep("startup", "unbind")
  /\ UNCHANGED <<live, quitting, finished, store, hotkey, capturing, held, gone>>

Unbind(ok) ==
  /\ StopStep("unbind", "capture")
  /\ hotkey' = IF ok THEN "unbound" ELSE hotkey
  /\ UNCHANGED <<live, quitting, finished, store, capturing, held, gone>>

(* capture.stop(): what the window holds back is dropped.                  *)
CaptureStop ==
  /\ StopStep("capture", "idle")
  /\ capturing' = FALSE /\ held' = 0
  /\ gone' = gone \cup Held
  /\ UNCHANGED <<live, quitting, finished, store, hotkey>>

(* capture.whenIdle(), then the subscription ends.                         *)
WhenIdle ==
  /\ reading = <<>>
  /\ StopStep("idle", "ingest")
  /\ UNCHANGED <<live, quitting, finished, store, hotkey, capturing, held, gone>>

(* Mutant: stop() does not wait for the copies on their way.               *)
Drained_AtOnce ==
  /\ StopStep("ingest", "dispose")
  /\ UNCHANGED <<live, quitting, finished, store, hotkey, capturing, held, gone>>

Drained ==
  /\ pending = <<>> /\ ~sweeps.ingest
  /\ StopStep("ingest", "dispose")
  /\ UNCHANGED <<live, quitting, finished, store, hotkey, capturing, held, gone>>

(* agent.dispose(); then the key is zeroed and the store closed.           *)
Disposed ==
  /\ StopStep("dispose", "finish")
  /\ lock /\ store' = FALSE
  /\ UNCHANGED <<quitting, finished, hotkey, capturing, held, gone>>

(* Mutant: the quit that follows the shutdown is prevented as well.        *)
Finish_Prevented ==
  /\ StopStep("finish", "finished")
  /\ quitting' = TRUE
  /\ UNCHANGED <<finished, live, store, hotkey, capturing, held, gone>>

Finish ==
  /\ StopStep("finish", "finished")
  /\ finished' = TRUE /\ quitting' = TRUE
  /\ UNCHANGED <<live, store, hotkey, capturing, held, gone>>

-----------------------------------------------------------------------------
(* Crashes, and the rescue of a keyring.                                   *)

(* The process dies, perhaps while a file is being written.                *)
Kill ==
  /\ main # "down" /\ Spend
  /\ Ends
  /\ UNCHANGED copies
  /\ \/ UNCHANGED <<disk, drawn, file, chosen, cut>>
     \/ /\ main = "key" /\ FirstLaunch(TRUE)
        /\ \E k \in Fresh : /\ drawn' = drawn \cup {k}
                            /\ DiesWithin(WriteStages(KeyFileIs("os-keyring", k, NoPhrase), log))
        /\ UNCHANGED <<file, chosen, cut>>
     \/ /\ startup = "ask" \/ tray
        /\ CutConfig
        /\ UNCHANGED <<disk, drawn, chosen>>
     \/ /\ main = "rescue"
        /\ \E k \in Fresh, strong \in BOOLEAN : /\ drawn' = drawn \cup {k}
                                                /\ DiesWithin(RekeyStages(strong, k))
        /\ UNCHANGED <<file, chosen, cut>>
  /\ gone' = gone \cup Held \cup ToSet(reading \o pending) \cup (Items(log) \ Items(log'))

RescueUnchanged ==
  UNCHANGED <<file, startup, stopping, quitting, finished, config, limit, store, tray, hotkey, queues,
              copies, chosen, cut>>

(* A process that holds nothing but a keyring.                             *)
Rescue ==
  /\ Rescues /\ main = "down" /\ Spend
  /\ main' = "rescue"
  /\ UNCHANGED <<disk, live, drawn, gone>> /\ RescueUnchanged

Rekey(strong) ==
  /\ main = "rescue"
  /\ \E k \in Keys : rekeyAfterCorruption(strong, k)
  /\ gone' = gone \cup Items(log)
  /\ UNCHANGED <<main, left>> /\ RescueUnchanged

SetPassphrase ==
  /\ main = "rescue"
  /\ \E p \in Phrases, k \in Keys : unlockWithPassphrase(p, k)
  /\ UNCHANGED <<main, gone, left>> /\ RescueUnchanged

RescueEnds ==
  /\ main = "rescue"
  /\ main' = "down" /\ lock
  /\ UNCHANGED <<disk, drawn, gone, left>> /\ RescueUnchanged

-----------------------------------------------------------------------------

Init ==
  /\ KeyringInit
  /\ file = [state |-> "absent", config |-> Default]
  /\ main = "down" /\ startup = "no" /\ stopping = "no"
  /\ quitting = FALSE /\ finished = FALSE
  /\ config = Default /\ limit = DefaultLimit
  /\ store = FALSE /\ tray = FALSE /\ hotkey = "unbound"
  /\ capturing = FALSE /\ held = 0 /\ reading = <<>> /\ pending = <<>>
  /\ sweeps = [ingest |-> FALSE, limit |-> FALSE]
  /\ copies = 0 /\ gone = {} /\ chosen = Default /\ cut = FALSE
  /\ left = MaxSteps

Main ==
  \/ \E strong, unwraps \in BOOLEAN : MasterKey(strong, unwraps)
  \/ OpenStore \/ Compose \/ StartFailed \/ ErrorBoxClosed
  \/ \E icon \in BOOLEAN : Running(icon)

Start ==
  \/ \E ok \in BOOLEAN : AgentStart(ok) \/ CaptureStart(ok) \/ chooseHotkey(ok)
  \/ \E status \in {"active", "failed"} : Bind(status)

Work ==
  \/ Flush
  \/ \E skipped \in BOOLEAN : Candidate(skipped)
  \/ \E ok \in BOOLEAN : Ingest(ok)
  \/ \E of \in {"ingest", "limit"} : Sweep(of)

Stop ==
  \/ BeforeQuit \/ AwaitStartup \/ CaptureStop \/ WhenIdle \/ Drained \/ Disposed \/ Finish
  \/ \E ok \in BOOLEAN : Unbind(ok)

Next ==
  \/ Launch \/ Main \/ Start \/ Work \/ Stop
  \/ Copy \/ Quit \/ Kill
  \/ \E n \in Limits, ok \in BOOLEAN : setHistoryLimit(n, ok)
  \/ Rescue \/ SetPassphrase \/ RescueEnds
  \/ \E strong \in BOOLEAN : Rekey(strong)

Spec == Init /\ [][Next]_vars

(* Promises settle: what start() and stop() wait for answers or times out, *)
(* and the user answers a dialog.                                          *)
Fairness == WF_vars(Main) /\ WF_vars(Start) /\ WF_vars(Work) /\ WF_vars(Stop)

FairSpec == Spec /\ Fairness

-----------------------------------------------------------------------------

(* Whatever is in the log can be read with the key in key.bin: no crash    *)
(* and no rescue leaves records behind without it, and nothing is sealed   *)
(* with a key that was zeroed or that another launch replaces.             *)
(* (getOrCreateMasterKey, rekeyAfterCorruption, lock; "a key we cannot     *)
(* read back is a lost store", keyring.ts:105.)                            *)
RecordsHaveTheirKey ==
  \A r \in log : keyFile.state = "ok" /\ r.key = keyFile.key

(* When the application has quit in its own time, every copy that reached  *)
(* capture is in the log, unless it was replaced in the debounce window or *)
(* still in it when capture stopped, was skipped by the rules, could not   *)
(* be written, was swept, or was lost to a crash or a rescue.  (stop,      *)
(* registerShutdown and pendingIngest; "persistence has its own queue to   *)
(* drain", wiring.ts:488.)                                                 *)
CopiesOutliveQuit ==
  finished => \A i \in 1 .. copies : i \in Items(log) \cup gone

(* A copy leaves the log only when as many newer ones are kept as the user *)
(* asked for last, in this launch or an earlier one, unless the last write *)
(* of config.json was cut short or failed, or the log was given up in a    *)
(* rescue.  (saveConfig, loadConfig, enforceRetention and                  *)
(* setHistoryLimit.)                                                       *)
SweepsAsChosen ==
  [][\A i \in Items(log) \ Items(log') :
       \/ main = "rescue" \/ cut
       \/ Cardinality({j \in Items(log) : j > i}) >= chosen.limit]_vars

(* The application ends once it was asked to, whatever it was doing.       *)
(* (registerShutdown and stop.)                                            *)
QuitEnds == quitting ~> main = "down"
=============================================================================
