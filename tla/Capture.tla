------------------------------- MODULE Capture -------------------------------
(* The way of a copy from the pasteboard to the history, and the way back:  *)
(* the agent's poll and its writes (agents/macos), the pipe, the change     *)
(* assembler (packages/agent-host), suppression and debounce                *)
(* (packages/capture), the ingest queue, recall and shutdown (wiring.ts).   *)
(*                                                                          *)
(* A copy is its change count: copies[n] says who made the n-th.  What the  *)
(* agent reports is a change [count, data]: the count it read, which is the *)
(* token, and the copy whose data it read a moment later.  A step of the    *)
(* host is one callback of its event loop, except that a chunk of several   *)
(* lines is read one line at a time; what an answer wakes goes on after the *)
(* last line of the chunk that held it.                                     *)
EXTENDS Naturals, Sequences, SequencesExt, FiniteSets

CONSTANTS
  Mishaps,    (* of "batch", "timeout", "rewatch", "crash", "stall", "full" *)
  MaxCopies,  (* bound: changes of the pasteboard                          *)
  MaxRecalls  (* bound: recalls                                            *)

ASSUME CaptureAssumption ==
  /\ Mishaps \subseteq {"batch", "timeout", "rewatch", "crash", "stall", "full"}
  /\ MaxCopies \in Nat /\ MaxRecalls \in Nat

VARIABLES
  copies,      (* the pasteboard: who made each of its changes             *)
  lastCount,   (* Poller.lastChangeCount                                   *)
  reading,     (* the tick has seen a new count and not yet read           *)
  inbox,       (* write requests on their way to the pasteboard queue      *)
  pipe,        (* lines from the agent                                     *)
  recalls,     (* every recall: how far it is, and what it has written     *)
  suppressed,  (* tokens of own writes                                     *)
  assembling,  (* changes whose chunks are not complete                    *)
  pending,     (* the change the debounce timer will flush                 *)
  flushing,    (* inFlight: changes on their way to a candidate            *)
  ingesting,   (* pendingIngest                                            *)
  history,     (* what has been ingested                                   *)
  phase,       (* how far stop() is                                        *)
  heard,       (* the copy that reached capture last, if it is the user's, *)
               (* the rules let it pass and the store takes it             *)
  overtaken,   (* own writes that reached capture before recall knew them  *)
  orphans      (* copies of which an agent that died had sent a part only  *)

agent == <<copies, lastCount, reading, inbox>>
ghosts == <<heard, overtaken, orphans>>
queues == <<flushing, ingesting, history>>
vars == <<agent, pipe, recalls, suppressed, assembling, pending, queues, phase, ghosts>>

None == [data |-> 0, usable |-> FALSE]
Change(n, d) == [count |-> n, data |-> d]
Ids == DOMAIN recalls
Quiet == \A r \in Ids : recalls[r].st # "answered"
Listening == phase = "running"

Init ==
  /\ copies = <<>> /\ lastCount = 0 /\ reading = FALSE
  /\ inbox = <<>> /\ pipe = <<>> /\ recalls = <<>>
  /\ suppressed = {} /\ assembling = <<>> /\ pending = None
  /\ flushing = <<>> /\ ingesting = <<>> /\ history = <<>>
  /\ phase = "running" /\ heard = 0 /\ overtaken = {} /\ orphans = {}

-----------------------------------------------------------------------------
(* The agent.  Ticks and writes take turns on one queue; other programs do  *)
(* not wait for it.                                                         *)

UserCopies ==
  /\ Len(copies) < MaxCopies
  /\ copies' = Append(copies, "user")
  /\ UNCHANGED <<lastCount, reading, inbox, pipe, recalls, suppressed, assembling, pending, queues, phase, ghosts>>

Tick ==
  /\ ~reading /\ lastCount # Len(copies)
  /\ lastCount' = Len(copies) /\ reading' = TRUE
  /\ UNCHANGED <<copies, inbox, pipe, recalls, suppressed, assembling, pending, queues, phase, ghosts>>

(* read(): the count, then the data, with other programs in between; the   *)
(* declaring line, and all chunks right after it.                          *)
TickReads ==
  /\ reading /\ reading' = FALSE
  /\ \E n \in lastCount..Len(copies) :
       LET Line(kind) == [kind |-> kind, change |-> Change(n, Len(copies))]
       IN  \/ pipe' = Append(pipe, Line("inline"))
           \/ pipe' = pipe \o <<Line("declared"), Line("final")>>
  /\ UNCHANGED <<copies, lastCount, inbox, recalls, suppressed, assembling, pending, queues, phase, ghosts>>

Writes ==
  /\ ~reading /\ inbox # <<>> /\ Len(copies) < MaxCopies
  /\ LET r == Head(inbox)  n == Len(copies) + 1
     IN  /\ copies' = Append(copies, "cairn")
         /\ recalls' = [recalls EXCEPT ![r].wrote = n]
         /\ pipe' = Append(pipe, [kind |-> "res", n |-> r])
  /\ inbox' = Tail(inbox)
  /\ UNCHANGED <<lastCount, reading, suppressed, assembling, pending, queues, phase, ghosts>>

(* start() of the poller, called again when the power state changes: what   *)
(* is on the pasteboard becomes the baseline.                               *)
Rewatch ==
  /\ "rewatch" \in Mishaps /\ ~reading
  /\ lastCount' = Len(copies)
  /\ UNCHANGED <<copies, reading, inbox, pipe, recalls, suppressed, assembling, pending, queues, phase, ghosts>>

-----------------------------------------------------------------------------
(* The host.                                                               *)

(* Mutant: a token suppresses whatever comes next.                        *)
Suppresses_Next(n) == suppressed # {}
Suppresses(n) == n \in suppressed

(* The change is an own write that recallCopy() has not come to suppress.  *)
Unknown(n) == \E r \in Ids : recalls[r].wrote = n /\ recalls[r].st # "done"

(* onChanged(): drop an own write, once; else let it replace what the timer *)
(* has not flushed.  Usable: emit() will make a candidate of it, because    *)
(* something was received of it and the rules let it pass.                  *)
OnChanged(c) ==
  IF ~Listening THEN UNCHANGED <<suppressed, pending, heard, overtaken>>
  ELSE \E usable \in BOOLEAN :
         /\ IF Suppresses(c.count)
            THEN suppressed' = suppressed \ {c.count} /\ UNCHANGED pending
            ELSE pending' = [data |-> c.data, usable |-> usable] /\ UNCHANGED suppressed
         /\ heard' = IF usable /\ copies[c.count] = "user" THEN c.data ELSE 0
         /\ overtaken' = IF Unknown(c.count) THEN overtaken \cup {c.count} ELSE overtaken

(* handleLine(): the next line; more lines of a chunk may come before what  *)
(* an answer wakes goes on.                                                 *)
Line == Head(pipe)
HostReads(kind) ==
  /\ pipe # <<>> /\ Line.kind = kind
  /\ Quiet \/ "batch" \in Mishaps
  /\ pipe' = Tail(pipe)

ReadsAnswer ==
  /\ HostReads("res")
  /\ recalls' = IF recalls[Line.n].st = "sent"
                THEN [recalls EXCEPT ![Line.n].st = "answered"] ELSE recalls
  /\ UNCHANGED <<agent, suppressed, assembling, pending, queues, phase, ghosts>>

ReadsInline ==
  /\ HostReads("inline")
  /\ OnChanged(Line.change)
  /\ UNCHANGED <<agent, recalls, assembling, queues, phase, orphans>>

ReadsDeclared ==
  /\ HostReads("declared")
  /\ assembling' = Append(assembling, Line.change)
  /\ UNCHANGED <<agent, recalls, suppressed, pending, queues, phase, ghosts>>

(* The final chunk; too late, if the stream has timed out.                 *)
ReadsFinal ==
  /\ HostReads("final")
  /\ \/ \E i \in DOMAIN assembling :
          /\ assembling[i] = Line.change
          /\ OnChanged(Line.change)
          /\ assembling' = RemoveAt(assembling, i)
     \/ /\ ~Contains(assembling, Line.change)
        /\ UNCHANGED <<assembling, suppressed, pending, heard, overtaken>>
  /\ UNCHANGED <<agent, recalls, queues, phase, orphans>>

(* The oldest stream waits too long for its next chunk, which stalls or     *)
(* will never come: the change goes on with what was received of it.        *)
Awaited(c) == \E k \in DOMAIN pipe : pipe[k].kind = "final" /\ pipe[k].change = c
StreamTimesOut ==
  /\ Quiet /\ assembling # <<>>
  /\ "stall" \in Mishaps \/ ~Awaited(Head(assembling))
  /\ OnChanged(Head(assembling))
  /\ assembling' = Tail(assembling)
  /\ UNCHANGED <<agent, pipe, recalls, queues, phase, orphans>>

(* recallCopy() up to the write; one write at a time.                      *)
Recall ==
  /\ Quiet /\ phase = "running" /\ Len(recalls) < MaxRecalls
  /\ \A r \in Ids : recalls[r].st # "sent"
  /\ recalls' = Append(recalls, [st |-> "sent", wrote |-> 0])
  /\ inbox' = Append(inbox, Len(recalls'))
  /\ UNCHANGED <<copies, lastCount, reading, pipe, suppressed, assembling, pending, queues, phase, ghosts>>

(* ... and from its answer on.                                             *)
(* Mutant: the palette is hidden, in a callback of its own, first.        *)
RecallGoesOn_HidesFirst(r) ==
  /\ \/ /\ recalls[r].st = "answered"
        /\ recalls' = [recalls EXCEPT ![r].st = "done"]
        /\ UNCHANGED suppressed
     \/ /\ recalls[r].st = "done" /\ Quiet
        /\ suppressed' = suppressed \cup {recalls[r].wrote}
        /\ UNCHANGED recalls
  /\ UNCHANGED <<agent, pipe, assembling, pending, queues, phase, ghosts>>
RecallGoesOn(r) ==
  /\ recalls[r].st = "answered"
  /\ recalls' = [recalls EXCEPT ![r].st = "done"]
  /\ suppressed' = suppressed \cup {recalls[r].wrote}
  /\ UNCHANGED <<agent, pipe, assembling, pending, queues, phase, ghosts>>

RecallTimesOut(r) ==
  /\ "timeout" \in Mishaps /\ Quiet /\ recalls[r].st = "sent"
  /\ recalls' = [recalls EXCEPT ![r].st = "failed"]
  /\ UNCHANGED <<agent, pipe, suppressed, assembling, pending, queues, phase, ghosts>>

(* The agent dies and is replaced: what it wrote last may be cut, requests  *)
(* fail, the open stream ends and its change goes on, and the new watch     *)
(* starts from what is on the pasteboard.  (Of several open streams all but *)
(* the last are orphans: they may end in StreamTimesOut just before.)       *)
AgentReplaced ==
  /\ "crash" \in Mishaps /\ Quiet /\ Len(assembling) <= 1
  /\ \E n \in 0..Len(pipe) :
       /\ pipe' = SubSeq(pipe, 1, n)
       /\ orphans' = orphans \cup {pipe[k].change.data : k \in {m \in {n} \cap DOMAIN pipe :
                                                             pipe[m].kind = "declared"}}
  /\ recalls' = [r \in Ids |->
       IF recalls[r].st = "sent" THEN [recalls[r] EXCEPT !.st = "failed"] ELSE recalls[r]]
  /\ IF assembling = <<>> THEN UNCHANGED <<suppressed, pending, heard, overtaken>>
     ELSE OnChanged(Head(assembling))
  /\ assembling' = <<>>
  /\ inbox' = <<>> /\ reading' = FALSE /\ lastCount' = Len(copies)
  /\ UNCHANGED <<copies, queues, phase>>

-----------------------------------------------------------------------------
(* flush(): the timer of the first change of a burst.                      *)
DebounceFires ==
  /\ Quiet /\ pending # None
  /\ flushing' = Append(flushing, pending)
  /\ pending' = None
  /\ UNCHANGED <<agent, pipe, recalls, suppressed, assembling, ingesting, history, phase, ghosts>>

(* emit(), chained: the first in line becomes a candidate, unless nothing   *)
(* is left of it or the rules skip it.                                      *)
(* Mutant: flushes run side by side.                                      *)
Emits_Any == DOMAIN flushing
Emits == {1} \cap DOMAIN flushing
Emit ==
  /\ Quiet
  /\ \E i \in Emits :
       /\ flushing' = RemoveAt(flushing, i)
       /\ ingesting' = IF flushing[i].usable THEN Append(ingesting, flushing[i].data)
                       ELSE ingesting
  /\ UNCHANGED <<agent, pipe, recalls, suppressed, assembling, pending, history, phase, ghosts>>

(* A copy the store does not take is logged and given up.                   *)
Ingest ==
  /\ Quiet /\ ingesting # <<>> /\ phase # "closed"
  /\ \/ history' = Append(history, Head(ingesting)) /\ UNCHANGED heard
     \/ /\ "full" \in Mishaps /\ UNCHANGED history
        /\ heard' = IF heard = Head(ingesting) THEN 0 ELSE heard
  /\ ingesting' = Tail(ingesting)
  /\ UNCHANGED <<agent, pipe, recalls, suppressed, assembling, pending, flushing, phase, overtaken, orphans>>

(* stop(): capture.stop() drops what the timer would flush; then it waits   *)
(* for the candidates, unsubscribes, waits for the ingests, and closes.     *)
StopCapture ==
  /\ Quiet /\ phase = "running"
  /\ phase' = "stopping" /\ pending' = None
  /\ UNCHANGED <<agent, pipe, recalls, suppressed, assembling, queues, ghosts>>

Unsubscribe ==
  /\ Quiet /\ phase = "stopping" /\ flushing = <<>>
  /\ phase' = "draining"
  /\ UNCHANGED <<agent, pipe, recalls, suppressed, assembling, pending, queues, ghosts>>

(* Mutant: the ingest queue is not awaited.                               *)
CloseStore_AtOnce ==
  /\ Quiet /\ phase = "draining"
  /\ phase' = "closed"
  /\ UNCHANGED <<agent, pipe, recalls, suppressed, assembling, pending, queues, ghosts>>
CloseStore ==
  /\ Quiet /\ phase = "draining" /\ ingesting = <<>>
  /\ phase' = "closed"
  /\ UNCHANGED <<agent, pipe, recalls, suppressed, assembling, pending, queues, ghosts>>

Next ==
  \/ UserCopies \/ Tick \/ TickReads \/ Writes \/ Rewatch
  \/ ReadsAnswer \/ ReadsInline \/ ReadsDeclared \/ ReadsFinal
  \/ StreamTimesOut \/ Recall \/ AgentReplaced
  \/ \E r \in Ids : RecallGoesOn(r) \/ RecallTimesOut(r)
  \/ DebounceFires \/ Emit \/ Ingest
  \/ StopCapture \/ Unsubscribe \/ CloseStore

Spec == Init /\ [][Next]_vars

-----------------------------------------------------------------------------
(* A recalled item comes back as a new copy only if capture saw it before   *)
(* recallCopy() had its answer, or after it gave up (suppressToken).        *)
OwnWritesAreSuppressed ==
  \A n \in ToSet(history) : copies[n] = "cairn" => n \in overtaken

(* Copies enter the history in the order in which they were made: "a 5 MB   *)
(* PNG that thumbnails slowly can never emit its candidate after the        *)
(* 12-byte text copied a moment later" (capture.ts:54).  A copy is late     *)
(* only when its agent died after declaring it and before sending it whole. *)
CopiesInOrder ==
  \A i, j \in DOMAIN history :
    i < j /\ history[j] < history[i] => history[j] \in orphans

(* With nothing under way, the copy that reached capture last, if it is the *)
(* user's, the rules let it pass and the store takes it, is in the history: *)
(* debounce and suppression only ever drop own writes and what a later      *)
(* change replaced.                                                         *)
LastCopyIsKept ==
  /\ heard # 0 /\ phase = "running"
  /\ pending = None /\ flushing = <<>> /\ ingesting = <<>>
  => \E i \in DOMAIN history : history[i] = heard

(* The store is closed when every candidate has been ingested, and none     *)
(* comes later (stop).                                                      *)
DrainedWhenClosed == phase = "closed" => flushing = <<>> /\ ingesting = <<>>

(* "the agent's 500 ms poll must never see our own write as a new clipboard *)
(* item" (wiring.ts:274).                                                   *)
OwnWritesNeverCaptured == \A n \in ToSet(history) : copies[n] = "user"
=============================================================================
