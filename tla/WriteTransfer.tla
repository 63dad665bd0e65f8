---------------------------- MODULE WriteTransfer ----------------------------
(* Putting an item on the pasteboard: the write transport of the host       *)
(* (packages/agent-host), which sends an item inline or, if it is large, as *)
(* an upload of chunks, and the agent's side of it (WriteUpload.swift,      *)
(* WriteRequests.swift).  Requests wait for the agent on one queue; the     *)
(* host gives up on each after a time, and the agent may serve it later.    *)
EXTENDS Naturals, Sequences, SequencesExt, FiniteSets

CONSTANTS
  Shapes,     (* of an item: <<>> if it is sent inline, else the number of *)
              (* chunks of each of its representations                     *)
  Mishaps,    (* of "timeout", "deadline", "expire", "crash"               *)
  MaxWrites   (* bound: calls of the transport                             *)

ASSUME WriteTransferAssumption ==
  /\ Shapes \subseteq Seq(Nat)
  /\ Mishaps \subseteq {"timeout", "deadline", "expire", "crash"}
  /\ MaxWrites \in Nat

VARIABLES
  writes,   (* every call: its item, the request it waits for, how it ended *)
  active,   (* a call is under way                                         *)
  inbox,    (* requests on their way to the pasteboard queue               *)
  pipe,     (* answers on their way to the host                            *)
  upload,   (* the agent's current transfer                                *)
  written   (* the calls whose item has been put on the pasteboard         *)

transferVars == <<writes, active, inbox, pipe, upload, written>>

-----------------------------------------------------------------------------
Calls == DOMAIN writes

(* Request n of a call's kind; n counts chunks and is 0 for the others.     *)
Request(w, op, n) == [call |-> w, op |-> op, n |-> n]
NoRequest == Request(0, "none", 0)

(* The chunks in the order in which they are sent: by representation, then  *)
(* by sequence number.                                                      *)
UploadChunks(shape) ==
  LET all == UNION {{<<rep, seq>> : seq \in 0..(shape[rep] - 1)} : rep \in DOMAIN shape}
  IN  SetToSortSeq(all, LAMBDA a, b : a[1] < b[1] \/ (a[1] = b[1] /\ a[2] < b[2]))

ChunkOf(r) == UploadChunks(writes[r.call].shape)[r.n]

NoUpload == [call |-> 0, sequences |-> <<>>]

TransferInit ==
  /\ writes = <<>> /\ active = FALSE
  /\ inbox = <<>> /\ pipe = <<>>
  /\ upload = NoUpload /\ written = <<>>

-----------------------------------------------------------------------------
(* `lost' is a ghost: the call has given up on its last request as well.    *)
Awaiting(shape, request, lost) == [shape |-> shape, waits |-> request, lost |-> lost]

Proceeds(w, request, lost) ==
  writes' = [writes EXCEPT ![w] = Awaiting(@.shape, request, lost)]

(* The host.  deps.request: ask, and wait.                                  *)
Asks(w, op, n) ==
  /\ Proceeds(w, Request(w, op, n), FALSE)
  /\ inbox' = Append(inbox, Request(w, op, n))
  /\ UNCHANGED active

Returns(w, lost) ==
  /\ Proceeds(w, NoRequest, lost)
  /\ active' = FALSE
  /\ UNCHANGED inbox

(* Mutant: nothing keeps a second call out.                                 *)
MayStart_Always == TRUE
(* A call while another is under way is refused, and changes nothing.       *)
MayStart == ~active

Call(shape) ==
  /\ MayStart /\ Len(writes) < MaxWrites
  /\ LET w == Len(writes) + 1
         first == Request(w, IF shape = <<>> THEN "write" ELSE "begin", 0)
     IN  /\ writes' = Append(writes, Awaiting(shape, first, FALSE))
         /\ inbox' = Append(inbox, first)
  /\ active' = TRUE
  /\ UNCHANGED <<pipe, upload, written>>

(* Mutant: only an upload that has begun is aborted.                        *)
GivesUp_OnceBegun(w, lost) ==
  IF writes[w].waits.op \in {"write", "abort", "begin"}
  THEN Returns(w, lost) ELSE Asks(w, "abort", 0)

(* Mutant: after the commit there is nothing left to abort.                 *)
GivesUp_NotCommitted(w, lost) ==
  IF writes[w].waits.op \in {"write", "abort", "commit"}
  THEN Returns(w, lost) ELSE Asks(w, "abort", 0)

(* The finally block: whatever failed, the agent is told to abort.          *)
GivesUp(w, lost) ==
  IF writes[w].waits.op \in {"write", "abort"}
  THEN Returns(w, lost) ELSE Asks(w, "abort", 0)

(* The next chunk, or the commit, unless the 30 seconds are over.           *)
GoesOn(w) ==
  LET n == writes[w].waits.n + 1
  IN  \/ IF n <= Len(UploadChunks(writes[w].shape)) THEN Asks(w, "chunk", n) ELSE Asks(w, "commit", 0)
      \/ "deadline" \in Mishaps /\ GivesUp(w, FALSE)

(* An answer; nobody may wait for it any more.                              *)
HostHears ==
  /\ pipe # <<>>
  /\ LET r == Head(pipe).request  ok == Head(pipe).ok  w == r.call
     IN  IF writes[w].waits # r THEN UNCHANGED <<writes, active, inbox>>
         ELSE IF ok /\ r.op \in {"begin", "chunk"} THEN GoesOn(w)
         ELSE IF ok THEN Returns(w, FALSE)
         ELSE GivesUp(w, FALSE)
  /\ pipe' = Tail(pipe)
  /\ UNCHANGED <<upload, written>>

TimesOut(w) ==
  /\ "timeout" \in Mishaps
  /\ writes[w].waits # NoRequest
  /\ GivesUp(w, writes[w].waits.op \in {"write", "abort"})
  /\ UNCHANGED <<pipe, upload, written>>

-----------------------------------------------------------------------------
(* The agent.                                                               *)
Served == Head(inbox)

Takes(op) == inbox # <<>> /\ Served.op = op /\ inbox' = Tail(inbox)

Answers(r, ok) == pipe' = Append(pipe, [request |-> r, ok |-> ok])

Found(r) == upload.call = r.call

WriteInline ==
  /\ Takes("write") /\ Answers(Served, TRUE)
  /\ written' = Append(written, Served.call)
  /\ UNCHANGED <<writes, active, upload>>

Begin ==
  /\ Takes("begin") /\ Answers(Served, upload = NoUpload)
  /\ upload' = IF upload = NoUpload
               THEN [call |-> Served.call,
                     sequences |-> [rep \in DOMAIN writes[Served.call].shape |-> 0]]
               ELSE upload
  /\ UNCHANGED <<writes, active, written>>

(* A chunk out of order discards the upload it is for.                      *)
AppendChunk ==
  /\ Takes("chunk")
  /\ LET rep == ChunkOf(Served)[1]  seq == ChunkOf(Served)[2]
         fits == Found(Served) /\ seq = upload.sequences[rep]
     IN  /\ Answers(Served, fits)
         /\ upload' = IF fits THEN [upload EXCEPT !.sequences[rep] = @ + 1]
                      ELSE IF Found(Served) THEN NoUpload ELSE upload
  /\ UNCHANGED <<writes, active, written>>

(* Lengths and hashes tell whether every chunk has come.                    *)
Commit ==
  /\ Takes("commit")
  /\ LET whole == Found(Served) /\ upload.sequences = writes[Served.call].shape
     IN  /\ Answers(Served, whole)
         /\ written' = IF whole THEN Append(written, Served.call) ELSE written
  /\ upload' = IF Found(Served) THEN NoUpload ELSE upload
  /\ UNCHANGED <<writes, active>>

Abort ==
  /\ Takes("abort") /\ Answers(Served, TRUE)
  /\ upload' = IF Found(Served) THEN NoUpload ELSE upload
  /\ UNCHANGED <<writes, active, written>>

(* Nothing has come for too long, or the transfer takes too long.           *)
Expire ==
  /\ "expire" \in Mishaps /\ upload # NoUpload
  /\ upload' = NoUpload
  /\ UNCHANGED <<writes, active, inbox, pipe, written>>

(* The agent dies.  The request that waits fails, and so does its abort, as *)
(* there is no agent to ask; lines already written may still be read.       *)
Crash ==
  /\ "crash" \in Mishaps
  /\ writes' = [w \in Calls |->
       IF writes[w].waits = NoRequest THEN writes[w]
       ELSE Awaiting(writes[w].shape, NoRequest, FALSE)]
  /\ active' = FALSE
  /\ inbox' = <<>> /\ upload' = NoUpload
  /\ \E n \in 0..Len(pipe) : pipe' = SubSeq(pipe, 1, n)
  /\ UNCHANGED written

-----------------------------------------------------------------------------
TransferNext ==
  \/ \E shape \in Shapes : Call(shape)
  \/ HostHears
  \/ \E w \in Calls : TimesOut(w)
  \/ WriteInline \/ Begin \/ AppendChunk \/ Commit \/ Abort
  \/ Expire \/ Crash

TransferSpec == TransferInit /\ [][TransferNext]_transferVars

-----------------------------------------------------------------------------
(* An upload is never turned away because the agent still holds an earlier  *)
(* one: whatever became of that, its abort or commit is ahead in the queue  *)
(* (the `finally' of the transport, begin() of WriteUpload).                *)
NeverTurnedAway == inbox # <<>> /\ Served.op = "begin" => upload = NoUpload

(* A call that has returned has had its effect, if it did not give up on    *)
(* its abort too: an item reported as failed does not replace the           *)
(* pasteboard later (the abort waits behind the commit that was late).      *)
Ended(w) == writes[w].waits = NoRequest /\ ~writes[w].lost
NoEffectAfterTheEnd ==
  [][\A w \in Calls : Ended(w) /\ w \notin ToSet(written) => w \notin ToSet(written')]_transferVars

(* Items reach the pasteboard in the order of the calls, and once each: a   *)
(* late write, of a call long given up, never replaces a newer item.        *)
LaterWriteWins ==
  \A i, j \in DOMAIN written : i < j => written[i] < written[j]
=============================================================================
