# TLA+ verification of the clipboard history

A clipboard manager for macOS ("Cairn"): an Electron app (`src/apps/desktop`, packages in
`src/packages`) and a native agent in Swift (`src/agents/macos`) that watches the pasteboard. This
directory holds TLA+ models of its stateful parts, the TLC configurations that check them on small
instances, and TLAPS proofs, for instances of any size, of the safety properties that these check.

Contents: [the system](#the-system) · [the modules](#the-modules) · [the runs](#the-runs) ·
[the proofs](#the-proofs) · [disagreements and observations](#disagreements-and-observations) ·
[not modelled](#not-modelled) · [plan](#plan) · [how to run](#how-to-run)

## The system

A copy travels like this; every arrow is asynchronous and may be overtaken, cut or repeated.

    pasteboard -> agent poll -> stdout lines -> framing -> assembler -> capture (suppress, debounce)
      -> candidate -> ingest queue (wiring) -> history -> store (history.ndjson, blobs/)

and back, when the user picks an item:

    palette -> recallCopy (wiring) -> history.getPayload -> write transport -> agent -> pasteboard
      -> (the poll sees the own write; suppressToken must have named it by then)

| component | state | operations | what makes it correct |
|---|---|---|---|
| event log, `packages/store` | `history.ndjson` (anchor line, sealed and chained lines), `blobs/`, in memory `anchorSeq`, `lineCount`, chain tip | openStore, append, appendCheckpoint, readAll, compact, putBlob, deleteBlob, close | what was acknowledged can be read back after any crash, in order and once; no record is ever unreadable because of the store itself; blobs outlive the records that name them |
| history, `packages/history` | `items`, `byHash`, `createdTabs`, search index, `deadBlobs`, `previewsLoaded`, `loadInFlight` | load, ingest, pin, tag, setTitle, createTab, removeTab, remove, evictNow, setMaxItems, evictPreviewCache, list, search | memory is what a replay would rebuild; retention keeps what is pinned or filed; blanked previews never reach the log |
| search, `packages/search` | entries, capacity | upsert, remove, rebuild | holds what the history lists, and drops the least worth keeping |
| agent host, `packages/agent-host` | child process, pending requests, splitter, restart budget and timer, last watch and accelerator | start, request, on exit, restart, dispose | answers go to who asked; one agent runs; services come back after a crash; nobody waits for ever |
| write transport, same package, and the agent's `WriteUpload` | `active`; the current transfer | write (inline or begin, chunks, commit, abort); expire | the pasteboard holds whole items, the last one asked for; no upload is left in the way |
| change assembler, same package | streams being put together, changes that wait for them | declared, chunk, timeout, abort, abortAll | a change is delivered once, whole or with its gaps named, in order, and none waits for ever |
| capture, `packages/capture` | suppressed tokens, pending change, debounce timer, in-flight chain | start, onChanged, flush, emit, suppressToken, stop | order kept, own writes dropped, the last copy not lost |
| composition, `apps/desktop/main` (wiring) | ingest queue, opening counter, idle and lock flags | start, ingest, recallCopy, showPalette, ensurePreviews, evictPreviewCache, setHistoryLimit, stop | nothing captured is lost at quit; recall does not copy itself; an opening shows its own rows |
| agent, `agents/macos` | poll baseline, request queue, upload in progress | tick, watch, read, write, register hotkey, shutdown | every change is reported, with the data that belongs to its count |
| keyring, `packages/keyring` | live key and mode, `key.bin` | getOrCreateMasterKey, unlockWithPassphrase, rekeyAfterCorruption, lock | the log never lacks the key that opens it |
| process, `apps/desktop/main` (index, shutdown, config) | `config.json`, quit phase | launch, before-quit, save and load the configuration | a quit waits for what is under way and then ends; a choice survives the launch |
| palette window and renderer, `windows.ts`, `apps/desktop/renderer` | window phase; query, filter, rows, selection, preview, editors | show, ready, hide; every key and click; answers and events from main | what is on screen is what main would answer; the selection stays on its item; nothing remains of a hidden palette |

How they interact: the renderer calls main over IPC; main calls history, history calls the store.
The store's methods are synchronous, file operations included; only `readAll` yields between
records. A method of history awaits a load in flight (`history.ts:304` and its like) and then runs to
its end without another await; so what interleaves is loads, evictions of previews and whole methods. Ingests queue up in wiring.
The agent is another process; the host reads its stdout in chunks of any number of lines
and writes requests to its stdin. Callbacks go up (agent host to capture to wiring), calls go down.
The renderer's calls reach main in order and its answers and events come back in order, but main answers some calls
after an await, so that a later read may be answered first.

What is hard about it, and hard to reach with a test: a process that dies, or a file operation that
fails, between two steps of an append, a compaction or a sweep; memory and log that each method
keeps in step by hand; an eviction of previews (screen lock) in the middle of a reload; an agent
that dies with half a line written, while a request, a handshake or a re-arming is under way;
answers that come too late, or together with the event they are about; openings, scrolls and edits that
overtake each other's answers; quitting with work in four queues; a crash between two writes of the only copy of a key. `PROJECT.json` lists each such hazard at its line.

## The modules

| module | models | kind |
|---|---|---|
| `Events` | the records of the log and what replaying one does (`protocol/src/types.ts`, the replay in `history.ts`) | operators |
| `Journal` | what the store promises history: a book that changes by acknowledged events only | abstract specification |
| `LogStore` | `packages/store`: every operation, every failing file operation, crashes | state machine, implements `Journal` |
| `LogStore_proofs` | theorems about `LogStore`, with the refinement of `Journal` | proofs |
| `Retention` | `planEviction` of `retention.ts`, and what a sweep should do (`ExactlySwept`) | operators |
| `MCRetention` | a history that is filled and swept, to check `Retention` over all small histories | state machine |
| `ClipBook` | what history promises its user: rows, one per content | abstract specification |
| `History` | `packages/history` on a store that keeps `Journal`'s promise, and the search index | state machine, implements `ClipBook` |
| `History_proofs` | theorems about `History` and `Retention`, with the refinement of `ClipBook` | proofs |
| `AgentHost` | `spawn-agent.ts`, `correlator.ts`, `framing.ts`, and the agent as far as they can tell | state machine with fairness |
| `AgentHost_proofs` | theorems about `AgentHost` | proofs |
| `Capture` | the agent's poll and writes, the pipe, assembler, capture, ingest queue, recall and stop | state machine |
| `Capture_proofs` | theorems about `Capture` | proofs |
| `WriteTransfer` | `write-transfer.ts`, `WriteUpload.swift`, `WriteRequests.swift` | state machine |
| `Assembler` | the poll's lines (`Pasteboard.swift`, `Chunker.swift`), `reassembler.ts`: streams and the changes made of them | state machine with fairness |
| `Transfers_proofs` | theorems about `Assembler` and `WriteTransfer` | proofs |
| `Palette` | the renderer (`palette-state.svelte.ts`, the handlers of `Palette.svelte`) and the answers it gets from main | state machine |
| `Palette_proofs` | the types of `Palette`, and lemmas about each of its operators | proofs |
| `PaletteView_proofs` | theorems about what `Palette` shows, on top of these | proofs |
| `Opening` | `windows.ts`, the palette side of `wiring.ts`, the renderer's announcement and acknowledgement | state machine with fairness |
| `Keyring` | `packages/keyring` and what it writes, stage by stage | operators and the state they change |
| `App` | `index.ts`, `start` and `stop` of `wiring.ts`, `shutdown.ts`, `config.ts`, composed with `Keyring` | state machine with fairness |
| `Desktop_proofs` | theorems about `App`, `Keyring` and `Opening` | proofs |
| `MCLogStore`, `MCHistory`, `MCWriteTransfer`, `MCAssembler`, `MCPalette` | which item names which blobs, sizes, shapes of items and copies, the first list | constants for TLC |

The layers are composed by contract: `LogStore` is shown to implement `Journal` where calls fail
cleanly, and `History` builds on a store whose `book` changes just as `Journal` says, instead of
carrying the log's lines. `LogStore` and `History` share `Events`; `History` and
`MCRetention` share `Retention`; `App` extends `Keyring`. `Palette` and `Opening` divide the palette between them: what
an opened palette shows and does, and how it comes to be shown.

### LogStore

One step is one call of a method of the store; the methods are synchronous, so no two
overlap. Where the process can die, or a file operation can fail, inside a method, the method has
further actions (`AppendCrashes`, `AppendFails`, `CompactGcFails`, ...) that say what is on disk
then. `PROJECT.json` maps each action to its lines.

- A *line* is a record of what is sealed into it: its position, the sequence number in the
  authenticated data (0 for the anchor, whatever the anchor carries), its own sequence number, the
  chain tip before it, and the event. Encryption is abstracted to what authentication
  decides: a line opens iff position, sequence number and tip are the ones it was sealed with. A
  nonce makes every line unique; the tip, a hash in the code, is the sequence of nonces hashed.
- `torn` says that bytes without a newline end the file. A line appended after them becomes a
  `Glued` one: complete and unreadable.
- `mem` is `anchorSeq`, `lineCount` and the tip; `MaxSeq` is computed from them as in the code.
- `Faults` chooses how a failing call may leave the file: `clean` (nothing written), `torn` (some bytes),
  `whole` (the write took place and fsync failed), `short` (a short write reported as done),
  `renamed` (compaction's rename took place and what follows it failed), `undurable` (an existing
  blob that a crash removes).

### History

A method has no await after the one for a load in flight, and is a single step here.
`load()` awaits every record and is several steps (`Load`, then `Loaded` or `LoadFails`), and
`evictPreviewCache()`, which waits for nothing, may run in between. A deletion of blobs that fails,
a sweep whose append fails after some items, and a crash at each of these places are actions of
their own. An item carries a title and a preview as "present or blank", which is all that scrubbing
and re-loading change; a content is a model value with its blobs (`Refs`), two contents may share
one. The order in which the maps of the code list their items is `ord` (memory) and `added` (the log).
Time is a small counter. `asked` is a ghost: has a load been called since the last eviction?

### AgentHost

A step of the host is one callback of its event loop. A promise that a callback settles is
continued before the next callback, but after the other lines of the same chunk; so while
`task.result` is set, the host may read lines and do nothing else. That order is what decides
whether a re-arming sees the exit that follows it. `kids` holds every agent process ever spawned,
with the lines it wrote and nobody has read yet: they may be read after its exit is known,
because the pipe outlives the process, and `partial`
is the half-line the splitter keeps. A restarted agent is re-armed in the order of `ToRearm`: watch, then hot key,
each of them if the app wants it on.

### Capture

A copy is its change count. Users copy at any time; the agent's tick and its writes take turns on
the agent's queue. The tick reads the change count, reads it again, and then the data (`Tick`, `TickReads`), as the code does,
with other programs copying in between; so a change is a count, which is its token, and the copy whose data it has.
A stream that times out, or that the exit of its agent ends, does not take its change with it: the change goes on with the
representations that had come (`OnChanged` in `StreamTimesOut` and `AgentReplaced`). A declaring line of a dead agent that is
read after its exit starts a stream nobody will finish; its copy is one of the `orphans`. `Mishaps` chooses what else happens: `batch` (several lines
in one chunk, so that an answer's continuation runs after later lines), `timeout` (a write given up
and answered later), `rewatch` (the poller restarts for a power change), `crash` (the agent is
replaced), `stall` (a chunk stream times out although its chunks are on the way), `full` (the store does not take a copy).
That the privacy rules skip a change, or that nothing is left of it after normalisation, is the change that is not `usable`.
Three ghosts: `heard`, the last change that reached capture; `overtaken`, the own writes that reached capture before
`recallCopy` knew their token; and `orphans`.

### WriteTransfer

A call of the transport sends its requests one after the other and waits for each; every request goes through one
queue of the agent, behind whatever the host has given up waiting for. `writes` holds every call with the request
it waits for; `upload` is the agent's current transfer, with how many chunks of each representation have come;
`written` is the order in which items reached the pasteboard. A chunk's content is its place, so the agent's checks
of length and hash are one comparison with the item's shape. Limits on size and encoding, and an agent too old for
chunks, turn a call away before it has any effect and are left out. `Capture` has the
inline write, one at a time, together with the poll that sees it.

### Assembler

A copy offers a sequence of representations, of which only the size (in chunks) matters. `Read` leaves out what is
too large, `prepare` numbers the large ones, `tick` writes the line that declares them, and `emit` the chunks of one
after the other (`writing`). A slot is the place of a representation in the offer. The host
reads one line at a time, of the running agent or of one that died and whose pipe still has lines; both number their
streams from 1. `handleChanged` declares streams until `MaxStreams` is reached and drops the rest,
`handleChunk` takes, refuses or completes, `RepTimeout` gives up, `abortAll` follows the exit. The bytes of a chunk
are the change, slot and place it was cut from, so the comparison of hashes is an equality. When `abortAll` settles several
changes at once, the order in which they are handed on is left open. A fault is a line lost,
a chunk or an inline representation damaged (`ReadGarbled`, `ReadDamaged`), or the death of the agent. `copied` is what
the agent read for each change it reports; that the pasteboard may have moved on between the count and the data is in `Capture`.

### Palette

The functions of `PaletteState` call each other; each is an operator from the renderer's state and channels (`s.ui`,
`s.asked`, `s.inbox`) to the next, and an action applies one to the state of the moment. The code guards its awaits
with sequence numbers; here a call in flight has `live`, which a later call or event takes away (`Outdate`), and
carries what remains to be done after its answer: `reload` and `sel` (look the selected item up again), `preview`,
`done` (what waits for it). Main answers in order except that reads may overtake the other calls (`Answerable`),
since these await a load of the history. A secret expires (`Expire`) and main leaves it out of every answer from then on,
without an event: `Listed`, `Found` and `ShownTabs` take what has expired as a parameter. A new copy is ingested and followed by a
sweep, which deletes the expired rows or, when it fails, fewer of them; the code sends an event for each, the model one (`Copied`). The tab and the kind that narrow the list are one filter. `Gestures` bounds
what the user does in a run, not how often. Three ghosts: `chosen`, the item the user last had selected, for as long as
the view stays the same one and each page that has arrived since shows it; `asOf`, what had expired when main read what is on
screen; `shifted`, whether a page read for a scroll has left out what the page before it had. That `tabs()` returns at most
`TABS_MAX` tabs (`history.ts:582`) is left out.

`Only` is a filter in the order of the list, of rows in a set; `Listed` and `Found` are what main would list and find. A change
of one row in main is `Put` in the place of `RowOf`; an answer is the call with what main adds (`Answered`). `Fetching` is the page
that is on the way, `Spans` says whether a page has the rows of the window (`RangeStart`, `RangeEnd`: overscan included), and what waits
for it is `Joined` to it.

### Opening

`showPalette` prepares a hidden window, waits for evicted previews, and announces the opening with a stamp; the
renderer reads the list, draws two frames and acknowledges; `Ready` presents the window if it is the stamp main waits
for. An eviction (`LockScreen`, `Suspend`, `IdleTick`) withdraws the opening and scrubs the renderer; a load it
overtakes restores nothing (`LoadEnds`). `evicted` is the negation of history's `previewsLoaded`. `Mount`
says when the renderer begins to listen; what is announced before that is `lost`. `excused` is a ghost: the openings
whose previews could not be read back.

### Keyring and App

A call of the keyring is synchronous; it is written as the list of stages the disk goes through (`WriteStages`,
`RekeyStages`), and either `Completes` or the process `DiesWithin` it. `App` is a process that is launched, quits or is
killed, over a disk that stays (`keyFile`, `log`, `file`). `main`, `startup` and `stopping` are how far
`main()`, `start()` and the shutdown are: between two awaits a function is one step, and copies, limits, quits and
crashes happen in between. A copy is first `held` back by the debounce window of capture, where the next one replaces it (`Copy`) and where
`capture.stop()` drops it (`CaptureStop`); then it is read, and becomes a candidate unless the rules skip it. A `saveConfig` that throws may leave
`config.json` as it was, cut, or written (`saveConfigFails`). `gone` is a ghost: the copies the code meant to do without.
`log` holds only which copy is sealed with which key; `enforceRetention` is the limit on the
number of items, the one the user can choose. No caller of the application uses a passphrase or re-keys yet; `Rescues` lets another
process do so between two launches, since the package offers it.

## The runs

| run | module | asks |
|---|---|---|
| `LogStore` | MCLogStore | with clean failures and crashes anywhere: does the log stay readable, memory in step, sequence numbers unique, blobs present, and does it implement `Journal`? |
| `LogStoreFaults` | MCLogStore | whatever a failing write leaves: does damage stay behind the records that were sound, and does a broken log stay visibly broken? |
| `Retention` | MCRetention | is a sweep enough, and no more than needed? |
| `History` | MCHistory | secrets, shared blobs, failed deletions and reloads, locks, crashes: does memory agree with the log, and the log implement `ClipBook`? |
| `HistoryFaults` | MCHistory | the same agreement when appends and blob writes fail half-way, with an index too small for the history |
| `AgentHost` | AgentHost | crashes, noise, late answers: right answers, one agent, services back, dispose ends |
| `Assembler` | MCAssembler | lost and damaged lines, timeouts, two agents: changes handed on whole, in order, and all of them |
| `Capture` | Capture | every mishap: own writes suppressed, order, the last copy, draining at quit |
| `WriteTransfer` | MCWriteTransfer | late requests, expiry, crashes: no upload turned away, no effect after the end, order of the calls |
| `Palette` | MCPalette | every overlap of gestures, openings and answers: is the view current, the selection right, and nothing shown that should be hidden? |
| `Opening` | Opening | evictions, failing loads, recalls and openings that overtake each other: is what is presented its own, and is it presented? |
| `App` | App | launches, quits, crashes, rescues: key and log together, no copy lost but what the debounce window drops, sweeps as chosen, quitting ends |

What the properties say:

- *Store.* `Readable`: `readAll` gets to the end of the log, also right after a crash.
  `MemoryMatchesFile`: an open store's three numbers are the file's. `NoDanglingRefs`: every blob a
  live item names exists. `SeqsOnlyGrow`: the last sequence number never falls, over compactions
  and restarts. `ImplementsJournal`: refinement. `DamageStays`: a record that could be read
  once can be read until compaction, whatever fails later, and no operation, compaction included, turns a log that
  does not verify into one that does.
- *Retention.* `SweepIsExact`: after a sweep the limits hold and a second one would find nothing; an item goes only
  because it has expired, or nobody keeps it and its age or a limit that the newer items and it would break condemns it.
- *History.* `AgreesWithLog`: memory is, up to blanked previews, what replay would
  rebuild. `EvictedStaysEvicted`, `PreviewsReturnWhenAsked`: no preview in
  memory while the screen is locked, and none comes back but by a load asked for after the eviction.
  `SearchFindsEverything`, `SearchKeepsTheKept`: the index
  has every listed item, or, when it is full, drops none that is pinned or filed as long as
  others are there. `BlobsFollowItems`: no item loses a blob, and a blob of a deleted item is on the
  list to be deleted until it is. `ImplementsClipBook`: refinement.
- *Agent host.* `AnswersAreOwn`: no line of one agent carries the id of a request made to another.
  `OneAgent`: a process that runs and was not told to end is the one the host talks to.
  `ServicesReturn`, `DisposeEnds`: liveness; the first also says that after a crash the services the app had turned on are on again
  unless the host has given up.
- *Assembler.* `HandedOnWhole`: at most once, and every representation is either the bytes the agent read for this
  change or named as dropped. `HandedOnInOrder`: unless a line was lost or an agent died.
  `WaitsEnd`: every change the host has read of is handed on.
- *Capture.* `OwnWritesAreSuppressed`: an own write is ingested only if capture saw it before
  recall had its answer. `CopiesInOrder`: copies enter the history in the order they were made, those that came in part included; one is late only if its agent
  died after declaring it and before sending it whole. `LastCopyIsKept`: with nothing under way, the last change that reached
  capture, if it is the user's, the rules let it pass and the store took it, is in the history. `DrainedWhenClosed`: the store
  closes after the last ingest and none is left in any queue.
- *Write transport.* `NeverTurnedAway`: when the agent serves a begin, no earlier upload is in its way.
  `NoEffectAfterTheEnd`: a call that has returned, and has not given up on its abort too, puts nothing on the
  pasteboard later. `LaterWriteWins`: items reach the pasteboard in the order of the calls, and once.
  That an upload is written whole or not at all is checked twice in the code (the host commits only
  when every chunk was accepted; the agent compares lengths and hashes), so that no single slip breaks it; it is part of
  `Commit` and not a property of its own.
- *Palette.* `ViewIsCurrent`: when nothing is under way, rows, tabs and total are what main would answer but for secrets that have
  expired since they were read (`asOf`), and the preview is the selected row's.
  `SelectionFollowsItem`: refreshes, however they overlap, leave the selection on the item the user had selected.
  `TitledStaysHidden`: the content of a titled item is on screen only if the user revealed that item.
  The last two, and the preview, hold until a page read for a scroll leaves out a secret that expired meanwhile (`shifted`, and `asOf` in `chosen`):
  see the [observations](#disagreements-and-observations).
  `NothingWhileHidden`: once hidden, the renderer holds nothing, whatever arrives.
- *Opening.* `PresentsItsOwn`: the window shows rows read for this opening, with their previews unless these could not be read back.
  `NothingKeptAfterEviction`: an eviction the renderer has heard of has emptied it. `OpeningEnds`: no prepared window stays hidden.
- *App.* `RecordsHaveTheirKey`: whatever is in the log can be read with the key in `key.bin`. `CopiesOutliveQuit`: after an
  orderly quit every copy that reached capture is in the log, unless it was replaced in the debounce window or still in it when capture stopped,
  was skipped by the rules, swept, or could not be written (or a crash or a rescue took it). `SweepsAsChosen`: a copy goes only for
  the limit chosen last, unless the write of that choice was cut short or failed. `QuitEnds`: liveness.

Types are stated where a proof needs them (`TypeOK` of `LogStore`); no run spends its time on them.

**Bounds, and why they are enough.** `LogStore`: two items that share one blob, one tab, six
sealed lines: that is an open, several appends, and a compaction (which seals a line for every survivor) followed by
another open or append, with a crash at any place. A third item would add no new kind of event.
`LogStoreFaults` takes one item and four lines: an open, two appends of which one may damage, and
a further call, which is what damage needs to spread. `History`: two ids and two contents, of which
one is a secret and shares a blob; one clock tick, which is the secret's life and the maximum age;
the limit of one item makes a sweep choose. `HistoryFaults` has no secrets but several limits and
an index of one entry. `Retention` takes three items, so that a limit can fall between two, with
every combination of ages, sizes and protections. `AgentHost`: one restart, so that every crash
point is followed by one recovery that succeeds or exhausts the budget; two parse failures to reach
the kill; two calls of the app, so that a service can be turned on and off again around a crash. A second
service doubles what is re-armed but not how, and costs a factor of ten.
`Capture`: three changes of the pasteboard and two recalls, so that own and user's changes follow each
other in every order and a suppressed token can meet the wrong change. `WriteTransfer`: three calls, so that a call can meet what two others left behind; an inline item, one
of two representations and three chunks, and one with an empty representation, so that the step from one representation to
the next is taken. `Assembler`: two streams at once and a copy with three (and with one too large to be read, and an inline one, which may be damaged), so that one is refused; three
copies, so that a small one can pass two large ones; one mishap, and so perhaps a second agent. `Palette`: three items,
the newest titled (so that the first selection shows nothing until it is revealed) and the next secret (so that its pin is
refused), each of which may be copied again; one tab; room for one row or two and pages of two rows, so that scrolling and
moving have to fetch; a search that finds more than it may show; four gestures, openings, copies, expiries or failures in all, which is
two more than an overtaken answer takes. `Opening`: five steps of the user and the system: an eviction, an opening, an eviction that overtakes its load, a
second opening and a failure. `App`: three keys (a first launch that crashes, and a rescue that does), one passphrase,
a limit above the default, two copies (so that one can replace the other in the debounce window, or be swept for it) and five launches, quits, choices and failures: two launches with something happening to each.
The counters bounded are `seals`, `now`, `calls`, `copies`, `recalls`, `writes`, `copied`,
`faults` and, in the last three, `left` (`moves` in `Opening`), a budget that every step nobody is obliged to take spends; each is
bounded in the guard of the action that changes it.
`CHECK_DEADLOCK FALSE` stands in `AgentHost` (it ends when it is disposed of), `Capture` (it ends
when closed and every copy made), `WriteTransfer` (it ends when the last call has), `Assembler` (when all is read) and
`Palette`, `Opening` and `App` (when the budget is spent); the others never stop.

**Fairness.** All of it is weak. `Assembler`: the timer of a stream fires, and the exit of a process is reported. `Opening`: both
processes serve what reaches them, a load ends, and the hidden window draws its frames (`windows.ts` turns background throttling
off). `App`: what `main()`, `start()` and `stop()` wait for settles, queued work is done, and the
user answers a dialog; in the code each request to the agent has a timeout. `AgentHost`: fairness is asked
of: the continuations of a settled promise, the reading of a line that is there, and the exit event (the event
loop serves what is ready); the restart timer and each request's timeout (an armed `setTimeout` fires);
an agent that is alive answering its requests; and an agent that was sent SIGTERM dying, since
`main.swift` installs no handler for it. Nothing is asked of `Dies` (crashes need not happen), of
the app's calls, or of `Dispose`.

**Mutants.** Every property of a passing run has a mutant in the model, a definition marked
`Mutant:` that changes one action the way a slip in the code would, and that the run's own bounds
expose: the property would notice.

## The proofs

Eight modules hold theorems; between them they have one or more for every state machine but `MCRetention`, which only fills
histories for `Retention`. Each theorem holds for every value of the
constants that the named assumption of its module allows (`LogStoreAssumption`, ...), which types them and asks for little else; the
bounds of the runs (`MaxSeals`, `MaxCopies`, `MaxSteps`, ...) are among them and may be any number. What else a theorem
assumes is said below, with the reason the code gives for it. Of the properties the runs check, 34 are safety properties
and refinements; 33 of them are the statement of a theorem, and the last (`SweepIsExact`) is proved as a fact about the function it checks.

**The log** (`LogStore_proofs`). The `Clean*` theorems, `NoNameLacksItsBlob` and `StoreImplementsJournal` assume
`Faults \subseteq {"clean"}`: a call that reports a failure has left nothing behind (crashes may leave a torn
line). Without it they do not hold, see [below](#disagreements-and-observations).

- `TypeCorrect`: `Spec => []TypeOK`, for any faults. It carries one fact that is not a type: an open store
  has counted at least the anchor line. The anchor is authenticated with sequence number 0 and every other line
  with its own; `lineCount >= 1` is why no appended line is ever sealed as an anchor.
- `CleanReadable`, `CleanMemory`: `[]Readable`, `[]MemoryMatchesFile`. Neither is inductive alone. A new line is
  accepted by a reader only if it was sealed for the position, tip and number at which it stands, and it is sealed
  from memory; and opening takes memory from what a reader accepts. The inductive invariant is their conjunction with the
  types, `IInv`. The lemmas under it are about logs as sequences: `AppendVerifies`, `NextLineVerifies`,
  `GenerationVerifies` (a compacted generation, built at once, verifies), `AnchorVerifies`.
- `CleanSeqs`: `SeqsOnlyGrow`. The last line's number is `MaxSeq`, above which appends and the next generation number theirs.
- `StoreImplementsJournal`: the store implements `Journal`. The book is a fold over the lines; that a line appended
  applies its event to it, and that the lines a compaction writes for the survivors rebuild the same book, is proved for logs of any length.
- `NoNameLacksItsBlob`: `[]NoDanglingRefs`. `RefsInv` adds that the directory entry of every blob that is there is durable, so that
  a crash takes none away.
- `DamageIsContained`: `DamageStays`, for **every** set of faults, and so without `IInv`. What takes its place is `Stems`: a line
  that names a predecessor of this generation carries the number of its place in it (`Continues`), whether or not it
  is glued, torn or in the wrong place. A log that does not verify therefore cannot be made to by appending.

**History** (`History_proofs`).

- `PreviewsStayOut`, `PreviewsComeBackAsked`: `EvictedStaysEvicted` and `PreviewsReturnWhenAsked`, whatever fails. `EvictInv`
  is the types and the first with "a load that is running has been asked for".
- `MemoryIsTheLog`, `OneRowPerContent`, `HistoryImplementsClipBook`, `NamedBlobsStay`: `AgreesWithLog`, one row for each
  content, the refinement, and no blob deleted that an item of the log names. They assume `"startup" \notin Faults`, that is:
  the first load of the process succeeds. `index.ts:202` ignores one that fails, and then they are false (disagreement 3); every
  other call to the store may fail. `AgreeInv` says what agreement needs: the log has one row for each content, so the
  index by content is its inverse (`Hashes`), and the order of the items is that of the log. The refinement also needs that only secrets expire,
  and when (`ExpiryInv`): the rows that go unasked must be expendable.
- `BlobsAreKeptAndSwept`: `BlobsFollowItems`, with `"append"` and `"put"` not among the faults either: an ingest that fails after
  `putBlob` leaves blobs nobody names (a hazard `PROJECT.json` lists). `DeadRemembered` is the part of it that says: a blob without an item is pending.
- `SearchIsComplete`, if the index can hold all ids, and `SearchHasWhatIsKept`, for an index of any capacity. `SearchInv` says when
  an index is `Sound`: it holds the current entries, and lacks an item only if it is full of others that are at least as much worth
  keeping. It is carried through `rebuild`, an insertion at a time, and needs that the order of the items lists all of them (`OrderInv`).
- `PlansAreExact`: what `planEviction` condemns is exact (`ExactlySwept`), for every finite history, time and limits: the limits hold
  afterwards, a second sweep finds nothing, and an item goes only if it must. It is about sums over sets of any size: adding an
  item adds its bytes (`BytesStep`), more items have more bytes (`BytesGrow`), and of the items over a limit there is an oldest. `SweepsAreExact` says the same of
  each sweep of a reachable history.

**Agent host** (`AgentHost_proofs`): `OneAgentRuns` (`OneAgent`) and `AnswersFindTheirCallers` (`AnswersAreOwn`). `HostInv` says how
ends and restarts take turns: only the last process can have an end still to be reported, it is the one the host talks to, and no
restart timer runs before that report (`OneAtATime`); and every id a process knows was given out before and, while it is
pending, to this process (`IdsAreOwn`). That ids go on over restarts is what makes a late line of an old agent harmless.

**Capture** (`Capture_proofs`), with every mishap.

- `NoCopyIsDropped`: `LastCopyIsKept`. `KeptInv`: the last change heard is in the debounce window, in the chain, in
  the ingest queue, or in the history.
- `HistoryIsInOrder`: `CopiesInOrder`. `OrderInv`: each queue is sorted, and everything in a queue is older than everything in
  the ones before it, orphans excepted. What makes the pipe and the assembler queues of this kind is that a declaring line is followed at once by its
  last chunk (`PipeInv`), so that of several open streams all but the latest have lost theirs and are orphans (`StreamInv`).
- `OwnWritesStayOut`: `OwnWritesAreSuppressed`. `OwnInv`: an own write is heard at most once (`OnceInv`); a request
  writes once, and before its answer (`RequestInv`); from when `recallCopy` is through, the token lies ready until the write is heard (`TokenInv`);
  so what got past suppression was heard too early (`PassedInv`).
- `StopDrains`: `DrainedWhenClosed`. `DrainInv` follows `stop()`: the debounce window is empty from the
  moment capture stops, the chain of candidates from when it was awaited, the ingest queue at the end; nothing refills
  a queue because the one before it is empty.

**Writes to the pasteboard** (`Transfers_proofs`, second part), for items of any shape, every mishap.

- `WritesInOrder`: `LaterWriteWins`. `CallsInv`: only the last call waits for anything (`OneWaits`, from `active`), so what is
  appended to the queue is the newest; the queue is in the order of the calls and holds at most one request of each that can
  put the item on the pasteboard (`QueueInOrder`); what is written is older than what the queue will write (`WrittenBefore`);
  a call that still uploads has not asked for its commit (`NotYetCommitted`).
- `NothingAfterTheEnd`: `NoEffectAfterTheEnd`. `EndInv`: the abort of a call is behind its commit in the queue
  (`EndsComeLast`), and so its answer says that nothing of the call is left there (`AnsweredLast`, `EndedPutsNothing`).
- `BeginsAreTaken`: `NeverTurnedAway`. `UploadInv`: behind whatever a call that no longer uploads has left, in the queue or as the agent's upload,
  comes something that closes it (`LeavesNothing`), and before any later begin (`ClearedFirst`).

**Changes** (`Transfers_proofs`, first part), for offers of any shape.

- `CopiesArriveWhole`: `HandedOnWhole`. `WholeInv` ties four tables together: every slot that waits is the slot of exactly one stream and every
  stream of one slot (`StreamsInv`), what a slot has received is what was read for it (`SlotsInv`), a change is declared once (`LineInv`) and
  handed on when and only when nothing of it waits (`PendingInv`, `EmittedInv`).
- `CopiesArriveInOrder`: `HandedOnInOrder`. Unless a line was lost or an agent died, the streams of a change end before
  the next is declared (`DeclaredEnd`, `StreamsEnd`: the tick writes them out first), so at most one change waits and it is the
  latest (`PendingLatest`). A stream that is refused, damaged or late ends too.

**Openings** (`Desktop_proofs`, second part): `OpeningShowsItsOwnRows` (`PresentsItsOwn`) and `EvictionReachesTheRenderer`
(`NothingKeptAfterEviction`). `OpeningInv` follows a stamp through both processes: the one main waits for is the latest
(`WindowInv`, `StampInv`); what the renderer asked and has is of its own opening (`RowsInv`); an opening is announced once
(`WaitingInv`, `OnceInv`), and acknowledged only by a renderer that shows it (`AwaitingInv`), so that it does when the window is presented
(`PresentedInv`); rows are blank only with an excuse (`ExcusedInv`); and after an eviction a "hidden" follows whatever is
on its way (`EvictedInv`).

**The palette** (`Palette_proofs`, `PaletteView_proofs`), for any history, tabs, window and sizes of page, any number of gestures,
openings, copies and failed calls, and any order in which calls, answers and events cross.

The renderer's functions call each other, and so do the lemmas: the parts of the invariant are predicates on a state `s` of the
renderer and its channels, and there is a lemma for each operator that says what it keeps. `Right`, the inductive invariant, has two parts.

- `Types`, with what the sequence numbers of the code achieve (`Base`). At most one read of the list is waited for, no preview
  together with a read that will replace the list (`Orderly`, by `Clash`); a read that is waited for is of the filter and the mode on screen (`Fits`);
  and a palette that is not active is empty and waits for no read (`Quiet`). `NothingComesBack` needs no more than this part.
- `Sound`: there *is* a list, without the secrets that had expired when it was read, of which the screen shows a part. The rows, the total, the tabs and the selected row whose preview is there or
  on its way are that list's (`View`). Which list it is depends on what is under way: until a "changed" arrives it is what main has
  now but for what expired since, and the answers ahead of that event are pages of it (`Due`), or of the list that more has expired from (`PageDue`). Where nothing is to come, what is known is known of it
  (`Known`); every row of the window is loaded (`Whole`), because a page on its way has the rows of the window (`Cover`). That the list
  is only *some* list is the point: main's history changes at any moment, and the screen is then right about a list that no longer exists
  until the event that says so is read (`FineMain`, `FineAnswered`: main's steps send that event, or leave what it lists as it is).

What main would answer is `Memory`: lists, finds and tabs for *every* set of expired secrets, with the set that counts for the
screen (`at`) and the present one (`now`). An expiry changes `now` only, which is why it needs no event; a page read for a scroll may change `at`
and with it the list (`Turned`), and from then on `shifted` excuses the preview.

From `Right`:

- `NothingComesBack`: `NothingWhileHidden`. `TitledHidden`: `TitledStaysHidden`; no two rows of the list have one id, so the row
  that has the previewed id is the selected one.
- `ViewCurrent`: `ViewIsCurrent`, if no window has room for more rows than `FETCH_SPAN` (`WindowFits`): 32 rows of 44 pixels, which the palette
  has unless it is stretched over a very tall display. Without it the theorem is false, see [below](#disagreements-and-observations); only `Whole` needs it,
  and the other three theorems hold without.
- `SelectionFollows`: `SelectionFollowsItem`. `Follows` adds: the selected row is the item the user had selected (`Held`), or the rows
  are gone, the item is remembered, every page that will be taken looks it up, and nobody forgets it before (`Awaited`). The last part is why
  `refresh` gives up `#refreshSelectedId` only if no later refresh has begun.

The proofs changed what is claimed. `ViewIsCurrent` is about the rows of the window without the overscan, since a row
of the overscan may be missing when the list has grown while its page was on the way. `chosen` ends when a tab that is gone takes the filter
with it, since the pages that follow are of another view. `TitledStaysHidden` needs the excuse of `shifted`. `Tabs` is disjoint from "all" and "pinned", which are tabs here and are told apart from the user's by their kind in the code.

**The process** (`Desktop_proofs`, first part), for any sets of keys, passphrases and limits, any number of launches, crashes and rescues.

- `KeysAreKept`: `RecordsHaveTheirKey`. `KeyInv` adds what makes it inductive: a live key
  is the one in `key.bin` (`LiveInv`); the store is open only while a key is live (`StoreInv`), so that no record is sealed
  with zeros; and shutdown and the store have not begun before their time (`PhaseInv`), so that the shutdown that zeroes the key meets no
  launch that is about to open the store with it. That a new key is written only over an absent file, when the log
  is empty by the invariant itself, is what makes a crash inside that write harmless (`Written`); that a rescue empties the log
  before it touches the key is what makes every one of its stages harmless (`RekeyForgets`).
- `QuitsLoseNoCopy`: `CopiesOutliveQuit`. `CopyInv`: every copy is in the log, given up, held back, or in one of two queues (`Accounted`), and each
  stage of `stop()` leaves the debounce window or a queue empty for good (`StagesInv`).
- `SweepsFollowTheChoice`: `SweepsAsChosen`. `ChoiceInv`: the choice in `config.json` and the limit the history keeps to are the
  user's, unless the last write of the file was cut short or failed; and the configuration of the process departs from that limit only once `start()` is through, so that what the
  first-run dialog saves is never a choice that was not applied (`LimitInv`).

**Recursion and sums.** The library's induction theorems take an operator and cannot be used. What
they are needed for here is an argument over sets: `Induction` (in `History_proofs`) is induction for a *set* of numbers, from the
well-foundedness of finite subsets, and `Recursion` shows with it that a first value and a step define a function. With these two the rebuilding of the
index is followed and the bytes of a set are summed; `LogStore_proofs` deals in the same way with the replay of the log. No model has a
`RECURSIVE` operator, and the filters of `History` and `Palette` (`Only`) are functions on sequences because the prover knows nothing of `SelectSeq`.

**Model-checked only.**

- Liveness: `ServicesReturn`, `DisposeEnds`, `WaitsEnd`, `OpeningEnds`, `QuitEnds`. The prover has no rule for fairness.
- `SweepIsExact` itself, which is about the histories `MCRetention` builds; `PlansAreExact` says the same of all.
- The mutants, and the counterexamples below.

## Disagreements and observations

Four sentences of the code's own comments do not hold of what the code does. TLC gives the counterexample when the
named property is added to the named configuration:

1. `Readable` in `LogStoreFaults.cfg`: an append that fails after some bytes reached the file leaves them there; the next
   append of the same process glues its line to them, and a complete line fails to authenticate.
   `log-store.ts:185` reserves that for tampering.
2. `LoadRestoresPreviews` in `History.cfg`: load, evict, load: the second load joins the first (`history.ts:299`), which sees
   the eviction, succeeds and leaves previews evicted. `history.ts:110` says "until the next `load()`".
   In `Opening` such an opening is presented with blank previews (`excused`).
3. `NeverASecondRow` in `History.cfg` with `"startup"` among the `Faults`: `index.ts:202` ignores the result of the first load. A log that cannot be read
   through leaves memory empty and the app goes on: a content the log has becomes a second row.
   `dedupe.ts:10` says "never a second row".
4. `OwnWritesNeverCaptured` in `Capture.cfg`: `suppressToken` is called after an await; when the agent's answer and the change it
   caused are in one chunk, capture sees the change first. `wiring.ts:274` says it must never.

Also observed while modelling:

- An empty change (nothing came of its streams, or the rules skip it) replaces an intact change that is still
  in the debounce window (`capture.ts:139`); `LastCopyIsKept` is about the last change heard for that reason.
- A change whose stream timed out, or was ended by the exit of its agent, is ingested with the representations that are left; capture does not look at
  `droppedReps`. If the declaring line of a dead agent is read after its exit, that happens a stream timeout later, and what the new agent
  reports by then is ingested first: the comment at `capture.ts:54` does not extend to this case (`orphans`).
- A copy still in the debounce window when the application quits is dropped (`capture.ts:152`), as is one that the next copy replaces there.
- `resetFraming` runs at the exit, not at the next spawn. The tail of the old agent's output may be read after
  it, and is glued to the new agent's first line (`framing.ts`, "used when the child is replaced"): the hello is lost,
  and the restart is paid for with another one.
- `restartsUsed` is never reset: the sixth crash in the life of the app ends capture, however far apart they are.
- A write to the stdin of an agent that has just died has no error listener (`spawn-agent.ts:283`); which
  writes fail that way is decided by Node and the kernel, and the model loses such a line.
- `Poller.reschedule` takes what is on the pasteboard as its baseline: a copy not yet reported is lost.
- The tick reads the change count twice: a copy in between is reported by this tick and by the next one,
  with the same data; history's deduplication turns the second into a re-copy. A copy between the second count and the data is reported
  under the count before it; if that count is one of an own write, it is suppressed with it and reported by the next tick.
- A write that comes short is acknowledged (`paths.ts:37`, `paths.ts:44`); a blob that exists is not synced
  again (`blobs.ts:62`, `blobs.ts:81`), so one that a crash left unsynced can be named by a durable record.
- "compact failed before rename" (`log-store.ts:488`) is also the answer when the rename took place.
- Copying a secret again does not renew its expiry; when it has expired and is not yet swept, the copy is
  reported as a duplicate (`history.ts:327`), stays hidden and goes with the next sweep.
- `README.md:122` of the repository says pinned items are on top; `history.ts:407` lists by recency only.
- Search and tray show at most 500 and 2,000 items (`index.ts:193`, `tray.ts:42`); the repository's README speaks of all.
- `tag()` does not look at `TABS_MAX` (`history.ts:582`), so more tabs can exist than `tabs()` returns.
- Compaction keeps the order in which items were added, by which history breaks ties; `compact` has no caller in the application.
- A line that is lost, or the death of the agent, lets a later change overtake an earlier one (the ghost `unordered` of `Assembler`).
- *Palette.* A secret that expires on screen stays there, row, total and tab, until something else makes the renderer read the list again; "it had already
  vanished from the palette" (`wiring.ts:400`) is true of the next answer only. A scroll that reads a page then gets rows of the shorter list at the old
  places: the selection, which is a place, is on another row, and the preview of the row before stays beside it (`palette-state.svelte.ts:561` is not reached
  from a scroll), even one the user had revealed of a titled item. A reload that a scroll overtakes returns early: no preview is loaded and the selection is not looked up again.
  In a search a refresh goes through `setQuery` and puts the selection back to the first row. Enter pressed right after typing acts on the list
  of the old query. A change of the history empties the rows until the answer comes, and Enter does nothing meanwhile. A selected item
  outside the page that is loaded is not kept selected. When the window is made to hold more than `FETCH_SPAN` rows while a page for the
  smaller one is on its way and copies have arrived, rows stay missing until the next scroll (add `Heights = {1, 2, 3}` and
  `FetchSpan = 1` to `Palette.cfg`, with two of the items there at first): `ensureLoaded` compares with the total it knew. The renderer counts as active before it was ever shown, and the tab
  it last showed is not scrubbed.
- *Opening.* The `close` of an earlier opening, answered late, hides a newer one; `palette-state.svelte.ts:598` guards recall against
  just that. An opening announced before the renderer listens is never presented (`lost`). In passphrase mode `unlock-screen` clears
  the flag that a lock had zeroed the key, and the next opening tries a load that must fail.
- *App.* A crash while `key.bin` is written for the first time leaves it malformed, and every launch is refused until a re-key, which
  has no caller. `saveConfig` truncates the only copy before it writes: after a crash in between, or a write that throws, the first-run dialog is
  asked again and the next start sweeps by the default limit (`cut`). A `saveConfig` that throws leaves the choice in the process but not in the history (`wiring.ts:341`):
  the menu shows a limit that is not applied until it is chosen again. `stop()` drops the IPC handlers before it lets go of the hot key: pressed
  in between, it opens a palette nobody answers. In passphrase mode a lock zeroes the key that the open store aliases; what it would seal then could not be
  read, but nothing in the application enters that mode.
  After a restart of the agent the answer to registering the hot key again is ignored, so `status()` stays active.

## Not modelled

`PROJECT.json` lists every component with its status. Left out for good: text classification, masking,
fuzzy matching, thumbnails and normalisation (pure functions on which no state depends, beyond what
the models already leave open); generated types, scripts, spikes, packaging and source scans; test doubles;
the tray, the menu and the logger; what the components of the renderer draw. External and assumed: the file system's rename is atomic, AES-GCM
authenticates, SHA-256 does not collide, pipes keep order, Node runs promise continuations before the next callback.
Abstractions of modelled components, where they could matter: in `LogStore` the line or the rename behind a failed fsync (`whole`, `renamed`) counts as durable,
while a power cut could still undo it (`paths.ts:44`, `log-store.ts:485`), and the short write is the other end of that range. `AgentHost` loses a write to a dead agent's stdin silently and has no
`stdin.writable` check (`spawn-agent.ts:280`); it does not tell an answer that says `bound: false` or `ok: false` from a success, since the host's own steps do not either.
`ClipBook` lets any single row go at any time, so that a sweep of one wrong row is caught by `SweepIsExact` and `SweepsAreExact` and not by the refinement.
Left out of them: `meta.json`, which main writes at every launch and nothing reads; the suspension of the poll for
sleep and session changes; placing the window, its content policy and navigation guards; the validation of IPC arguments; toasts and
the width of the split. In `App` the history is a set of copies and the agent answers or does not: `History`,
`AgentHost` and `Capture` have the rest.

## Plan

Done in this order, the most important first: the log, history and retention on it, the agent host, capture with recall, the
chunked write; the palette and its openings, the life of the process with keyring and configuration, the assembler; then the
proofs of the safety properties of all of them, and of both refinements. Next:

1. What `DamageStays` means for history: which items a log that was damaged and compacted still has.
2. The suspension of the poll for sleep and session changes, composed into `Capture`.
3. An abstract specification of the palette, a screen that shows a list main has had, which `Sound` is most of a refinement of.

## How to run

    tlc -workers 2 -config LogStore.cfg MCLogStore.tla      # the run's module is in PROJECT.json
    tlapm LogStore_proofs.tla                               # likewise the other *_proofs modules
