------------------------------ MODULE AgentHost ------------------------------
(* The host's side of the agent process (packages/agent-host): spawnAgent,  *)
(* which starts the native agent, replaces it when it dies and gives up     *)
(* after a number of restarts; and createAgentCore, which pairs requests    *)
(* with the answers read from the agent's stdout.                           *)
(*                                                                          *)
(* A step of the host is one callback of its event loop.  What a callback   *)
(* settles is taken up by the promise that waits for it before the next     *)
(* callback, but only after the remaining lines of the same chunk: while    *)
(* task.result is set, the host may read lines and nothing else.            *)
(*                                                                          *)
(* The agent answers the requests of one service in order, may write lines  *)
(* that are no protocol lines, and may die at any moment, in the middle of  *)
(* a line too; what it wrote stays readable after the exit is reported.     *)
EXTENDS Naturals, Sequences, Functions, FiniteSets

CONSTANTS
  MaxRestarts,  (* restarts before the host gives up                       *)
  MaxFailures,  (* unparseable lines in a row before the agent is killed   *)
  Services,     (* what the app turns on and off: "watch", "hotkey"        *)
  Noises,       (* what it may write for an answer: "noise" or "major"     *)
                (* lines                                                   *)
  MaxCalls      (* bound: requests of the app                              *)

ASSUME AgentHostAssumption ==
  /\ MaxRestarts \in Nat /\ MaxFailures \in Nat /\ MaxCalls \in Nat
  /\ Services \subseteq {"watch", "hotkey"}
  /\ Noises \subseteq {"noise", "major"}

VARIABLES
  kids,          (* every agent process so far, in the order of spawning   *)
  child,         (* the one the host talks to, 0 for none                  *)
  disposed,      (* "no", "closing" or "done"                              *)
  closing,       (* the process dispose() waits for                        *)
  failed,        (* the host has given up                                  *)
  restartsUsed,
  timer,         (* a restart is scheduled                                 *)
  task,          (* start() or restart(), and the request it waits for     *)
  pending,       (* the correlator: requests waiting for an answer         *)
  counter,       (* the correlator's last id                               *)
  helloId,
  wanted,        (* lastWatchIntervalMs and lastAccelerator, if not null   *)
  failures,      (* consecutive parse failures                             *)
  partial,       (* the splitter holds the beginning of a line             *)
  calls          (* bound: requests the app has made                       *)

host == <<disposed, closing, failed, restartsUsed, timer>>
wire == <<helloId, wanted, counter>>
framing == <<failures, partial>>
vars == <<kids, child, host, task, pending, wire, framing, calls>>

-----------------------------------------------------------------------------
Kids == DOMAIN kids
Idle == [step |-> "idle", id |-> 0, first |-> FALSE, result |-> "none"]

(* A request turns a service on or off; "hello" is the handshake.          *)
Turn(s, on) == [of |-> s, on |-> on]
Hello == Turn("hello", TRUE)
Requests == {Hello, Turn("shutdown", TRUE)} \cup {Turn(s, on) : s \in Services, on \in BOOLEAN}

Line(kind, id) == [kind |-> kind, id |-> id]

(* Mutant: every agent gets ids from 1.                                   *)
NextId_PerAgent == IF child = 0 THEN 1 ELSE counter + 1
NextId == counter + 1

(* The process ignores nothing: SIGTERM ends it, sooner or later.          *)
KilledIn(ks, c) ==
  IF c = 0 THEN ks ELSE [ks EXCEPT ![c].signalled = TRUE]
KillChild(ks) == kids' = KilledIn(ks, child) /\ child' = 0

(* The task learns how its request ended.                                  *)
Told(ids, result) ==
  IF task.id \in ids /\ task.result = "none"
  THEN [task EXCEPT !.result = result]
  ELSE task

Take(ids, result) ==
  /\ pending' = Restrict(pending, DOMAIN pending \ ids)
  /\ task' = Told(ids \cap DOMAIN pending, result)

FailAll == Take(DOMAIN pending, "err")

(* Nothing that a callback has settled is waiting to be taken up.          *)
Quiet == task.result = "none"

Sendable == disposed = "no" /\ ~failed /\ child # 0

(* What the line does to the agent's inbox: a dead process reads nothing.  *)
Deliver(id, req) ==
  IF kids[child].st = "running"
  THEN [kids EXCEPT ![child].inbox = Append(@, [id |-> id, req |-> req])]
  ELSE kids

(* What to send again after a restart; recorded once the line is written.  *)
Recorded(req) == IF req.on THEN wanted \cup {req.of} ELSE wanted \ {req.of}

(* The correlator registers the request under its id.                       *)
Registered(req, to) ==
  [id \in DOMAIN pending \cup {NextId} |->
     IF id = NextId THEN [req |-> req, to |-> to] ELSE pending[id]]

(* request(): register, send, and record what a restart has to repeat.     *)
Request(req) ==
  /\ counter' = NextId
  /\ UNCHANGED helloId
  /\ IF Sendable
     THEN /\ pending' = Registered(req, child)
          /\ kids' = Deliver(NextId, req)
          /\ wanted' = Recorded(req)
     ELSE UNCHANGED <<pending, kids, wanted>>

Waiting(step) ==
  [step |-> step, id |-> NextId, first |-> FALSE,
   result |-> IF Sendable THEN "none" ELSE "err"]

-----------------------------------------------------------------------------
Init ==
  /\ kids = <<>> /\ child = 0
  /\ disposed = "no" /\ closing = 0 /\ failed = FALSE
  /\ restartsUsed = 0 /\ timer = FALSE
  /\ task = Idle /\ pending = <<>>
  /\ counter = 0 /\ helloId = 0 /\ wanted = {}
  /\ failures = 0 /\ partial = FALSE /\ calls = 0

(* spawnChild() and hello().  "unborn" is a spawn that will report error.  *)
Spawn(first) ==
  \E st \in {"running", "unborn"} :
    LET k == Len(kids) + 1
    IN  /\ kids' = Append(kids,
             [st |-> st, signalled |-> FALSE, told |-> FALSE,
              inbox |-> <<[id |-> NextId, req |-> Hello]>>,
              out |-> <<>>, on |-> {}])
        /\ child' = k
        /\ counter' = NextId /\ helloId' = NextId
        /\ pending' = Registered(Hello, k)
        /\ task' = [step |-> "hello", id |-> NextId, first |-> first, result |-> "none"]
        /\ UNCHANGED wanted

Start ==
  /\ kids = <<>> /\ disposed = "no"
  /\ Spawn(TRUE)
  /\ UNCHANGED <<host, framing, calls>>

(* Mutant: the timer does not ask whether a restart is still wanted.      *)
Restart_Unchecked ==
  /\ timer /\ Quiet
  /\ timer' = FALSE
  /\ Spawn(FALSE)
  /\ UNCHANGED <<disposed, closing, failed, restartsUsed, framing, calls>>
Restart ==
  /\ timer /\ Quiet
  /\ timer' = FALSE
  /\ IF disposed # "no" \/ failed
     THEN UNCHANGED <<kids, child, task, pending, wire>>
     ELSE Spawn(FALSE)
  /\ UNCHANGED <<disposed, closing, failed, restartsUsed, framing, calls>>

(* The error event of the child process: it was never spawned.             *)
SpawnError(k) ==
  /\ kids[k].st = "unborn" /\ ~kids[k].told /\ Quiet
  /\ kids' = [kids EXCEPT ![k].told = TRUE]
  /\ child' = 0
  /\ failed' = TRUE
  /\ FailAll
  /\ UNCHANGED <<disposed, closing, restartsUsed, timer, wire, framing, calls>>

GivesUp == restartsUsed >= MaxRestarts

(* onExit().                                                               *)
Exit(k) ==
  /\ kids[k].st = "dead" /\ ~kids[k].told /\ Quiet
  /\ kids' = [kids EXCEPT ![k].told = TRUE]
  /\ child' = 0
  /\ FailAll
  /\ failures' = 0 /\ partial' = FALSE
  /\ IF disposed # "no" \/ failed
     THEN UNCHANGED <<failed, restartsUsed, timer>>
     ELSE IF GivesUp
     THEN failed' = TRUE /\ UNCHANGED <<restartsUsed, timer>>
     ELSE /\ restartsUsed' = restartsUsed + 1
          /\ timer' = TRUE
          /\ UNCHANGED failed
  /\ UNCHANGED <<disposed, closing, wire, calls>>

(* The correlator's timeout.                                               *)
TimesOut(id) ==
  /\ Quiet /\ id \in DOMAIN pending
  /\ Take({id}, "err")
  /\ UNCHANGED <<kids, child, host, wire, framing, calls>>

-----------------------------------------------------------------------------
(* start() and restart() go on after the request they wait for.            *)

(* Mutant: the agent that did not greet is left alone.                    *)
HelloFailed_KeepsChild ==
  /\ task.step = "hello" /\ task.result = "err"
  /\ failed' = (failed \/ task.first)
  /\ task' = Idle
  /\ UNCHANGED <<kids, child, disposed, closing, restartsUsed, timer, pending, wire, framing, calls>>
HelloFailed ==
  /\ task.step = "hello" /\ task.result = "err"
  /\ failed' = (failed \/ task.first)
  /\ KillChild(kids)
  /\ task' = Idle
  /\ UNCHANGED <<disposed, closing, restartsUsed, timer, pending, wire, framing, calls>>

Started ==
  /\ task.step = "hello" /\ task.result = "ok" /\ task.first
  /\ task' = Idle
  /\ UNCHANGED <<kids, child, host, pending, wire, framing, calls>>

(* The services to turn on again after the one just done, in this order.   *)
Rearms == [hello |-> 0, watch |-> 1, hotkey |-> 2]
ToRearm == {s \in wanted : Rearms[s] > Rearms[task.step]}

Rearm ==
  /\ task.result # "none" /\ ~task.first
  /\ task.step = "hello" => task.result = "ok"
  /\ \/ /\ ToRearm = {}
        /\ task' = Idle
        /\ UNCHANGED <<kids, pending, wire>>
     \/ \E s \in ToRearm :
          /\ \A t \in ToRearm : Rearms[s] <= Rearms[t]
          /\ Request(Turn(s, TRUE))
          /\ task' = Waiting(s)
  /\ UNCHANGED <<child, host, framing, calls>>

-----------------------------------------------------------------------------
(* handleBytes() and handleLine(): the next line of an agent's stdout.     *)

Reads(k) == kids[k].out # <<>>
Next1(k) == Head(kids[k].out)
Popped(k) == [kids EXCEPT ![k].out = Tail(@)]

(* Bytes without a newline; they stay in the splitter.                     *)
HearsPart(k) ==
  /\ Reads(k) /\ Next1(k).kind = "part"
  /\ kids' = Popped(k)
  /\ partial' = TRUE
  /\ UNCHANGED <<child, host, task, pending, wire, failures, calls>>

(* A line that does not parse, or one glued to what the splitter held.  The *)
(* agent is killed at once if it is too long, or if it is one too many.     *)
HearsNoise(k) ==
  /\ Reads(k)
  /\ Next1(k).kind = "noise" \/ (partial /\ Next1(k).kind \in {"res", "other", "major"})
  /\ partial' = FALSE
  /\ \/ /\ failures + 1 < MaxFailures
        /\ failures' = failures + 1
        /\ kids' = Popped(k) /\ UNCHANGED child
     \/ /\ failures' \in {failures, MaxFailures}
        /\ failures' = MaxFailures => failures + 1 >= MaxFailures
        /\ KillChild(Popped(k))
  /\ UNCHANGED <<host, task, pending, wire, calls>>

(* A line of another wire major is refused for good, and so is an answer   *)
(* to the last hello that reports one ("other").                           *)
HearsMajor(k) ==
  /\ Reads(k) /\ ~partial
  /\ \/ /\ Next1(k).kind = "major"
        /\ failures' = IF failures < MaxFailures THEN failures + 1 ELSE failures
        /\ UNCHANGED <<task, pending>>
     \/ /\ Next1(k).kind = "other" /\ Next1(k).id = helloId
        /\ failures' = 0
        /\ Take({Next1(k).id}, "err")
  /\ failed' = TRUE
  /\ KillChild(Popped(k))
  /\ UNCHANGED <<disposed, closing, restartsUsed, timer, wire, partial, calls>>

(* The correlator settles the request, if it still waits.                  *)
HearsAnswer(k) ==
  /\ Reads(k) /\ ~partial
  /\ Next1(k).kind \in {"res", "other"}
  /\ Next1(k).kind = "other" => Next1(k).id # helloId
  /\ failures' = 0
  /\ kids' = Popped(k)
  /\ Take({Next1(k).id}, "ok")
  /\ UNCHANGED <<child, host, wire, partial, calls>>

-----------------------------------------------------------------------------
(* The app.                                                                *)

AppCalls(req) ==
  /\ Quiet /\ kids # <<>> /\ ~task.first
  /\ disposed = "no" /\ calls < MaxCalls
  /\ Request(req)
  /\ calls' = calls + 1
  /\ UNCHANGED <<child, host, task, framing>>

(* dispose(), up to its await: ask, SIGTERM, and wait for close.           *)
(* Mutant: the courtesy without the SIGTERM.                              *)
Dispose_NoSignal ==
  /\ Quiet /\ disposed = "no"
  /\ timer' = FALSE
  /\ IF child = 0
     THEN /\ disposed' = "done" /\ FailAll
          /\ UNCHANGED <<kids, child, closing>>
     ELSE /\ disposed' = "closing" /\ closing' = child
          /\ kids' = Deliver(0, Turn("shutdown", TRUE)) /\ child' = 0
          /\ UNCHANGED <<pending, task>>
  /\ UNCHANGED <<failed, restartsUsed, wire, framing, calls>>
Dispose ==
  /\ Quiet /\ disposed = "no"
  /\ timer' = FALSE
  /\ IF child = 0
     THEN /\ disposed' = "done" /\ FailAll
          /\ UNCHANGED <<kids, child, closing>>
     ELSE /\ disposed' = "closing" /\ closing' = child
          /\ KillChild(Deliver(0, Turn("shutdown", TRUE)))
          /\ UNCHANGED <<pending, task>>
  /\ UNCHANGED <<failed, restartsUsed, wire, framing, calls>>

(* The close event of the process dispose() waits for: it is gone and its   *)
(* output read to the end.  It had not exited when dispose() began to wait. *)
Disposed ==
  /\ Quiet /\ disposed = "closing"
  /\ kids[closing].told /\ kids[closing].out = <<>>
  /\ disposed' = "done"
  /\ FailAll
  /\ UNCHANGED <<kids, child, closing, failed, restartsUsed, timer, wire, framing, calls>>

-----------------------------------------------------------------------------
(* The agent.                                                              *)

Handles(k, i) ==
  /\ kids[k].st = "running" /\ ~kids[k].signalled
  /\ i \in DOMAIN kids[k].inbox
  /\ \A j \in 1..(i - 1) : kids[k].inbox[j].req.of # kids[k].inbox[i].req.of
  /\ kids[k].inbox[i].req.of # "shutdown"

(* It does as asked and answers, or writes something else instead; an      *)
(* agent of another major says so in its hello.                            *)
Answers(k) ==
  \E i \in 1..Len(kids[k].inbox) :
    /\ Handles(k, i)
    /\ LET r == kids[k].inbox[i]
           others == IF r.req = Hello /\ "major" \in Noises THEN {"other"} ELSE {}
       IN  \E kind \in {"res"} \cup Noises \cup others :
             kids' = [kids EXCEPT ![k] = [kids[k] EXCEPT
               !.inbox = SubSeq(@, 1, i - 1) \o SubSeq(@, i + 1, Len(@)),
               !.out = Append(@, Line(kind, IF kind \in Noises THEN 0 ELSE r.id)),
               !.on = IF r.req.on THEN @ \cup ({r.req.of} \cap Services)
                                  ELSE @ \ {r.req.of}]]
    /\ UNCHANGED <<child, host, task, pending, wire, framing, calls>>

Dies(k) ==
  /\ kids[k].st = "running"
  /\ \E tail \in {<<>>, <<Line("part", 0)>>} :
       kids' = [kids EXCEPT ![k] = [kids[k] EXCEPT
              !.st = "dead", !.inbox = <<>>, !.on = {}, !.out = @ \o tail]]
  /\ UNCHANGED <<child, host, task, pending, wire, framing, calls>>

(* SIGTERM, for which the agent installs no handler, or the shutdown       *)
(* request, ends it.                                                       *)
DiesAsAsked(k) == kids[k].signalled /\ Dies(k)

-----------------------------------------------------------------------------
Hears(k) == \/ HearsPart(k) \/ HearsNoise(k)
            \/ HearsMajor(k) \/ HearsAnswer(k)
Continues == HelloFailed \/ Started \/ Rearm
Ended(k) == SpawnError(k) \/ Exit(k)

Next ==
  \/ Start \/ Restart \/ Continues \/ Dispose \/ Disposed
  \/ \E k \in Kids : \/ Hears(k) \/ Ended(k)
                     \/ Answers(k) \/ Dies(k)
  \/ \E id \in DOMAIN pending : TimesOut(id)
  \/ \E s \in Services, on \in BOOLEAN : AppCalls(Turn(s, on))

(* The event loop serves what is ready, a timer that is armed fires, an    *)
(* agent that lives answers, and one that is asked to go goes.             *)
Fairness ==
  /\ WF_vars(Restart) /\ WF_vars(Continues) /\ WF_vars(Disposed)
  /\ \A k \in 1..(MaxRestarts + 1) :
       /\ WF_vars(k \in Kids /\ Hears(k))
       /\ WF_vars(k \in Kids /\ Ended(k))
       /\ WF_vars(k \in Kids /\ Answers(k))
       /\ WF_vars(k \in Kids /\ DiesAsAsked(k))
  /\ \A id \in 1..(3 * MaxRestarts + MaxCalls + 1) : WF_vars(TimesOut(id))

Spec == Init /\ [][Next]_vars /\ Fairness

-----------------------------------------------------------------------------
(* A line still to be read from one agent never carries the id of a request *)
(* made to another: no caller is answered by a process it did not ask       *)
(* (correlator settle() and nextId(), over restarts).                       *)
AnswersAreOwn ==
  \A k \in Kids : \A n \in DOMAIN kids[k].out :
    LET id == kids[k].out[n].id
    IN  id \in DOMAIN pending => pending[id].to = k

(* A process that runs and has not been told to end is the one the host     *)
(* talks to, and there is none once the host has given up or is disposed    *)
(* of (killChild, restart, dispose).                                        *)
OneAgent ==
  \A k \in Kids : kids[k].st = "running" /\ ~kids[k].signalled =>
    k = child /\ disposed = "no" /\ ~failed

(* What the app has turned on comes back after every crash, or the host     *)
(* gives up.                                                                *)
ServicesReturn ==
  \A s \in Services :
    s \in wanted ~> \/ s \notin wanted \/ failed \/ disposed # "no"
                    \/ child # 0 /\ s \in kids[child].on

(* "so dispose can never hang".                                             *)
DisposeEnds == disposed = "closing" ~> disposed = "done"
=============================================================================
