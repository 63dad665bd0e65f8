------------------------------ MODULE Assembler ------------------------------
(***************************************************************************)
(* How a large copy reaches the host: the agent's poll reads the           *)
(* pasteboard, declares what it read on one line and streams the large     *)
(* representations in chunks after it (Pasteboard.swift, Chunker.swift,    *)
(* main.swift); the reassembler puts each representation together again,   *)
(* and the change assembler hands a change on when all its representations *)
(* are settled (reassembler.ts).  Around them: lines that are lost or      *)
(* garbled, streams that time out, and an agent that dies, whose output    *)
(* can still be read while its successor, which numbers its streams from   *)
(* one again, is already writing.                                          *)
(*                                                                         *)
(* A size is counted in chunks; a representation of less than Threshold    *)
(* rides inline, and each is known by its slot, its place in the offer.  A *)
(* chunk is known by the change, the slot and the place it was cut from;   *)
(* equal hashes mean equal bytes.                                          *)
(***************************************************************************)
EXTENDS Integers, Sequences, FiniteSets

CONSTANTS
  Contents,     (* what a copy may offer: sequences of sizes               *)
  Threshold,    (* CHUNK_THRESHOLD_BYTES                                   *)
  MaxSize,      (* MAX_REP_BYTES                                           *)
  MaxStreams,   (* MAX_CONCURRENT_REP_STREAMS                              *)
  MaxChanges, MaxFaults   (* bounds                                        *)

ASSUME AssemblerAssumption ==
  /\ Contents \subseteq Seq(Nat \ {0})
  /\ Threshold \in Nat \ {0} /\ MaxSize \in Nat /\ MaxStreams \in Nat
  /\ MaxChanges \in Nat /\ MaxFaults \in Nat

VARIABLES
  agent,        (* which agent runs: the first, the second, ...            *)
  alive,        (* has it not died?                                        *)
  nextRep,      (* Chunker.counter of the running agent                    *)
  writing,      (* the slots of its latest change still to be streamed     *)
  pipes,        (* the lines of each agent that the host has not read      *)
  copied,       (* the changes reported: what the agent read of each       *)
  streams,      (* the reassembler's open streams                          *)
  owner,        (* of each stream, the change and the slot it fills        *)
  pending,      (* the changes that wait for streams: their slots          *)
  emitted,      (* the changes handed on                                   *)
  unordered,    (* was a line lost, or did an agent die? (ghost)           *)
  faults        (* what is left of the bound                               *)

agents == <<agent, alive, nextRep, writing, copied>>
host == <<streams, owner, pending, emitted>>
vars == <<agents, pipes, host, unordered, faults>>

Agents == 1 .. MaxFaults + 1
Streams == DOMAIN streams

Fault == faults > 0 /\ faults' = faults - 1

Without(f, S) == [x \in DOMAIN f \ S |-> f[x]]

-----------------------------------------------------------------------------
(* The agent.                                                              *)

(* Pasteboard.read() leaves out what is too large; a concealed copy has no *)
(* representations at all.                                                 *)
Read(offer) == [i \in {j \in DOMAIN offer : offer[j] <= MaxSize} |-> offer[i]]

Before(S, i) == Cardinality({j \in S : j < i})

(* Chunker.prepare(): a large representation gets the next stream id.      *)
prepare(sizes) ==
  LET large == {i \in DOMAIN sizes : sizes[i] >= Threshold}
  IN  [i \in DOMAIN sizes |->
         [size |-> sizes[i], repId |-> IF i \in large THEN nextRep + Before(large, i) + 1 ELSE 0]]

Chunked(reps) == {i \in DOMAIN reps : reps[i].repId # 0}

(* Chunker.split()                                                         *)
Piece(n, i, seq) == [change |-> n, slot |-> i, seq |-> seq]
Pieces(n, i, size) == [seq \in 1 .. size |-> Piece(n, i, seq - 1)]

Chunks(n, reps, i) ==
  [seq \in 1 .. reps[i].size |->
     [kind |-> "chunk", repId |-> reps[i].repId, seq |-> seq - 1,
      final |-> seq = reps[i].size, piece |-> Piece(n, i, seq - 1)]]

Changed(n, reps) == [kind |-> "changed", change |-> n, reps |-> reps]

Write(lines) == pipes' = [pipes EXCEPT ![agent] = @ \o lines]

(* Mutant: the first stream goes out before the line that declares it.     *)
Declare_ChunksFirst(n, reps) ==
  LET first == {i \in Chunked(reps) : \A j \in Chunked(reps) : i <= j}
  IN  /\ writing' = Chunked(reps) \ first
      /\ \/ first = {} /\ Write(<<Changed(n, reps)>>)
         \/ \E i \in first : Write(Chunks(n, reps, i) \o <<Changed(n, reps)>>)

(* The line that declares the streams comes before their chunks.           *)
Declare(n, reps) ==
  /\ writing' = Chunked(reps)
  /\ Write(<<Changed(n, reps)>>)

(* A tick sees that the pasteboard has changed, and reports what it reads. *)
(* (Whether that is still the change it saw is a question for Capture.)    *)
tick ==
  /\ alive /\ writing = {} /\ Len(copied) < MaxChanges
  /\ \E offer \in Contents :
       LET reps == prepare(Read(offer))
       IN  /\ copied' = Append(copied, reps)
           /\ nextRep' = nextRep + Cardinality(Chunked(reps))
           /\ Declare(Len(copied) + 1, reps)
  /\ UNCHANGED <<agent, alive, host, unordered, faults>>

(* Chunker.emit(): then all chunks of one large representation after the   *)
(* other; the tick ends with the last.                                     *)
emit ==
  /\ alive
  /\ \E i \in writing :
       /\ \A j \in writing : i <= j
       /\ writing' = writing \ {i}
       /\ Write(Chunks(Len(copied), copied[Len(copied)], i))
  /\ UNCHANGED <<agent, alive, nextRep, copied, host, unordered, faults>>

(* The agent dies, perhaps while it writes.                                *)
Die ==
  /\ alive /\ Fault
  /\ alive' = FALSE
  /\ writing' = {}
  /\ \E k \in 0 .. Len(pipes[agent]) : pipes' = [pipes EXCEPT ![agent] = SubSeq(@, 1, k)]
  /\ unordered' = TRUE
  /\ UNCHANGED <<agent, nextRep, copied, host>>

-----------------------------------------------------------------------------
(* The host: slots are settled, and a change whose last slot is settled is *)
(* handed on.                                                              *)

Waiting == [st |-> "waiting", bytes |-> <<>>]
Dropped == [st |-> "dropped", bytes |-> <<>>]
Resolved(bytes) == [st |-> "resolved", bytes |-> bytes]

Outstanding(slots) == {i \in DOMAIN slots : slots[i].st = "waiting"}

(* finish()                                                                *)
Settled(slots) == Outstanding(slots) = {}
Payload(n, slots) == [change |-> n, slots |-> slots]

Complete(all) == {n \in DOMAIN all : Settled(all[n])}

Orders(S) ==
  {order \in [1 .. Cardinality(S) -> S] :
     \A k, l \in DOMAIN order : order[k] = order[l] => k = l}

(* What the settling of slots completes is handed on.  (Several changes at *)
(* once only in abortAll(): they follow the order of their streams, which  *)
(* is left open here.)                                                     *)
Finish(all) ==
  /\ pending' = Without(all, Complete(all))
  /\ \E order \in Orders(Complete(all)) :
       emitted' = emitted \o [k \in DOMAIN order |-> Payload(order[k], all[order[k]])]

(* onComplete and onAbort: the slot that a stream fills is settled.        *)
Fill(id, fate) ==
  [n \in DOMAIN pending |->
     [i \in DOMAIN pending[n] |-> IF owner[id] = [change |-> n, slot |-> i] THEN fate
                                  ELSE pending[n][i]]]

Settle(id, fate) ==
  /\ owner' = Without(owner, {id})
  /\ Finish(Fill(id, fate))

(* abort()                                                                 *)
abort(id) ==
  /\ streams' = Without(streams, {id})
  /\ Settle(id, Dropped)

(* handleChanged(): inline representations are settled at once, and        *)
(* dropped if their bytes do not fit the declared length and hash; of the  *)
(* others, one whose id is taken or that finds no stream free is dropped.  *)
InlineFate(n, i) == Resolved(Pieces(n, i, copied[n][i].size))

(* The representations that get a stream: the first ones, as many as there *)
(* are streams free.                                                       *)
Declared(reps) ==
  LET unowned == {i \in Chunked(reps) : reps[i].repId \notin DOMAIN owner}
  IN  {i \in unowned : Before(unowned, i) < MaxStreams - Cardinality(Streams)}

Slots(n, reps, declared, damaged) ==
  [i \in DOMAIN reps |-> IF i \in declared THEN Waiting
                         ELSE IF i \in Chunked(reps) \cup damaged THEN Dropped
                         ELSE InlineFate(n, i)]

handleChanged(n, reps, damaged) ==
  LET declared == Declared(reps)
      ids == {reps[i].repId : i \in declared}
      slotOf(id) == CHOOSE i \in declared : reps[i].repId = id
      declaration(i) == [size |-> reps[i].size, hash |-> Pieces(n, i, reps[i].size), parts |-> <<>>]
  IN  /\ streams' = [id \in Streams \cup ids |->
                       IF id \in ids THEN declaration(slotOf(id)) ELSE streams[id]]
      /\ owner' = [id \in DOMAIN owner \cup ids |->
                     IF id \in ids THEN [change |-> n, slot |-> slotOf(id)] ELSE owner[id]]
      /\ Finish([m \in DOMAIN pending \cup {n} |->
                    IF m = n THEN Slots(n, reps, declared, damaged) ELSE pending[m]])

(* The hash of what was put together, against the declared one.            *)
(* Mutant: only the length is compared.                                    *)
Whole_Length(s, parts) == Len(parts) = s.size
Whole(s, parts) == Len(parts) = s.size /\ parts = s.hash

(* chunk(): a chunk out of turn, unreadable or too many aborts its stream. *)
handleChunk(c, readable) ==
  IF c.repId \notin Streams THEN UNCHANGED host
  ELSE LET s == streams[c.repId]
           parts == Append(s.parts, c.piece)
       IN  IF c.seq # Len(s.parts) \/ ~readable \/ Len(parts) > s.size
           THEN abort(c.repId)
           ELSE IF ~c.final
           THEN /\ streams' = [streams EXCEPT ![c.repId] = [s EXCEPT !.parts = parts]]
                /\ UNCHANGED <<owner, pending, emitted>>
           ELSE IF ~Whole(s, parts) THEN abort(c.repId)
           ELSE /\ streams' = Without(streams, {c.repId})
                /\ Settle(c.repId, Resolved(parts))

(* abortAll(): every stream is aborted; what is left over is forgotten.    *)
AllDropped ==
  [n \in DOMAIN pending |->
     [i \in DOMAIN pending[n] |-> IF pending[n][i].st = "waiting" THEN Dropped ELSE pending[n][i]]]

(* Mutant: what waits is forgotten rather than handed on.                  *)
abortAll_Forgets ==
  /\ streams' = <<>> /\ owner' = <<>>
  /\ pending' = <<>> /\ UNCHANGED emitted

abortAll ==
  /\ streams' = <<>> /\ owner' = <<>>
  /\ Finish(AllDropped)

-----------------------------------------------------------------------------

Line(a) == Head(pipes[a])
Consume(a) == pipes[a] # <<>> /\ pipes' = [pipes EXCEPT ![a] = Tail(@)]

ReadChanged(a) ==
  /\ Consume(a) /\ Line(a).kind = "changed"
  /\ handleChanged(Line(a).change, Line(a).reps, {})
  /\ UNCHANGED <<agents, unordered, faults>>

(* The bytes of an inline representation were damaged on the way.          *)
ReadDamaged(a) ==
  /\ Consume(a) /\ Line(a).kind = "changed"
  /\ Fault
  /\ \E i \in DOMAIN Line(a).reps \ Chunked(Line(a).reps) :
       handleChanged(Line(a).change, Line(a).reps, {i})
  /\ UNCHANGED <<agents, unordered>>

ReadChunk(a) ==
  /\ Consume(a) /\ Line(a).kind = "chunk"
  /\ handleChunk(Line(a), TRUE)
  /\ UNCHANGED <<agents, unordered, faults>>

(* The bytes of a chunk were damaged on the way.                           *)
ReadGarbled(a) ==
  /\ Consume(a) /\ Line(a).kind = "chunk"
  /\ Fault
  /\ handleChunk(Line(a), FALSE)
  /\ UNCHANGED <<agents, unordered>>

(* A line that does not parse is dropped.                                  *)
LoseLine(a) ==
  /\ Consume(a)
  /\ Fault
  /\ unordered' = TRUE
  /\ UNCHANGED <<agents, host>>

(* No chunk came for REP_STREAM_TIMEOUT_MS.                                *)
RepTimeout(id) ==
  /\ id \in Streams
  /\ abort(id)
  /\ UNCHANGED <<agents, pipes, unordered, faults>>

(* The exit of the agent is reported and, later, its successor started.    *)
OnExit ==
  /\ ~alive /\ agent < MaxFaults + 1
  /\ abortAll
  /\ agent' = agent + 1 /\ alive' = TRUE /\ nextRep' = 0
  /\ UNCHANGED <<writing, copied, pipes, unordered, faults>>

Init ==
  /\ agent = 1 /\ alive = TRUE /\ nextRep = 0 /\ writing = {}
  /\ pipes = [a \in Agents |-> <<>>] /\ copied = <<>>
  /\ streams = <<>> /\ owner = <<>> /\ pending = <<>> /\ emitted = <<>>
  /\ unordered = FALSE /\ faults = MaxFaults

Next ==
  \/ tick \/ emit \/ Die \/ OnExit
  \/ \E a \in Agents : ReadChanged(a) \/ ReadDamaged(a) \/ ReadChunk(a) \/ ReadGarbled(a) \/ LoseLine(a)
  \/ \E id \in Streams : RepTimeout(id)

Spec == Init /\ [][Next]_vars

(* Timers fire, and the exit of a process is reported.                     *)
Fairness == WF_vars(\E id \in Streams : RepTimeout(id)) /\ WF_vars(OnExit)

FairSpec == Spec /\ Fairness

-----------------------------------------------------------------------------

(* A change is handed on at most once, and never while it still waits; a   *)
(* representation it carries has the bytes the agent read for this         *)
(* very change, whatever was lost, damaged or left over by an agent that   *)
(* died; one it declared and does not carry is named as dropped.           *)
(* (createReassembler and createChangeAssembler; "the host verifies the    *)
(* hash BEFORE handing the bytes to anyone", reassembler.ts:157.)          *)
HandedOnWhole ==
  /\ \A k \in DOMAIN emitted :
       LET p == emitted[k]
       IN  /\ p.change \notin DOMAIN pending
           /\ \A l \in DOMAIN emitted : emitted[l].change = p.change => l = k
           /\ DOMAIN p.slots = DOMAIN copied[p.change]
           /\ \A i \in DOMAIN p.slots :
                \/ p.slots[i].st = "dropped"
                \/ p.slots[i] = Resolved(Pieces(p.change, i, copied[p.change][i].size))
  /\ Cardinality(Streams) <= MaxStreams

(* Every change the host has read of is handed on: none waits forever, and *)
(* the death of the agent forgets none.  ("a consumer that was waiting on a*)
(* chunked rep gets a payload with droppedReps rather than nothing at all",*)
(* reassembler.ts:329, and the timeout of a stream.)                       *)
WaitsEnd ==
  \A n \in 1 .. MaxChanges :
    n \in DOMAIN pending ~> \E k \in DOMAIN emitted : emitted[k].change = n

(* As long as no line is lost and no agent dies, changes are handed on in  *)
(* the order they were made, slow streams and damaged chunks included.     *)
(* (Chunker.emit: "chunks AFTER the declaring line, always", main.swift.)  *)
HandedOnInOrder ==
  ~unordered => \A k, l \in DOMAIN emitted : k < l => emitted[k].change < emitted[l].change
=============================================================================
