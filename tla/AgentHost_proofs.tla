-------------------------- MODULE AgentHost_proofs --------------------------
(* What holds of the host's agents for any number of restarts, failures and *)
(* calls, whatever an agent writes and whenever it dies.                    *)
EXTENDS AgentHost, SequenceTheorems, TLAPS

-----------------------------------------------------------------------------
(* Types, as far as the proofs need them.                                   *)
Kinds == {"res", "other", "part"} \cup Noises
Lines == [kind : Kinds, id : Nat]
Sent == [id : Nat, req : Requests]
Kid == [st : {"running", "unborn", "dead"}, signalled : BOOLEAN, told : BOOLEAN,
        inbox : Seq(Sent), out : Seq(Lines), on : SUBSET Services]
Task == [step : {"idle", "hello"} \cup Services, id : Nat, first : BOOLEAN,
         result : {"none", "ok", "err"}]

TypeInv ==
  /\ kids \in Seq(Kid) /\ child \in Nat /\ closing \in Nat
  /\ task \in Task
  /\ counter \in Nat /\ DOMAIN pending \subseteq 1..counter
  /\ failed \in BOOLEAN /\ timer \in BOOLEAN
  /\ wanted \subseteq Services

(* At most the last process has an end still to be reported, it is the one  *)
(* the host talks to, if any, and a restart waits for that report.          *)
OneAtATime ==
  /\ child \in {0, Len(kids)}
  /\ \A k \in Kids : kids[k].told => kids[k].st # "running"
  /\ \A k \in Kids : ~kids[k].told => k = Len(kids) /\ ~timer
  /\ kids = <<>> => task = Idle /\ DOMAIN pending = {} /\ ~failed /\ ~timer

(* The requests a process has not answered and the lines it has written.    *)
Ids(kid) == {kid.out[n].id : n \in DOMAIN kid.out} \cup {kid.inbox[n].id : n \in DOMAIN kid.inbox}

(* Every id a process knows was given out before, and is its own.           *)
IdsAreOwn ==
  \A k \in Kids : \A id \in Ids(kids[k]) :
    id <= counter /\ (id \in DOMAIN pending => pending[id].to = k)

HostInv == TypeInv /\ OneAtATime /\ OneAgent /\ IdsAreOwn

LEMMA HostInit == Init => HostInv
<1> SUFFICES ASSUME Init
             PROVE  HostInv
  OBVIOUS
<1>1. kids = <<>> /\ Kids = {} /\ pending = <<>> /\ DOMAIN pending = {} /\ task = Idle
  BY DEF Init, Kids
<1>2. TypeInv
  <2>1. task \in Task
    BY <1>1 DEF Idle, Task
  <2>2. kids \in Seq(Kid)
    BY <1>1
  <2> QED BY <1>1, <2>1, <2>2 DEF Init, TypeInv
<1>3. OneAtATime /\ OneAgent /\ IdsAreOwn
  BY <1>1 DEF Init, OneAtATime, OneAgent, IdsAreOwn
<1> QED BY <1>2, <1>3 DEF HostInv

-----------------------------------------------------------------------------
(* What the operations on processes do to them.                             *)

(* The same processes, but for what they hold.                              *)
Same(ks) ==
  /\ ks \in Seq(Kid) /\ Len(ks) = Len(kids)
  /\ \A k \in Kids : ks[k].told = kids[k].told
                     /\ ks[k].st = kids[k].st /\ ks[k].signalled = kids[k].signalled

LEMMA KidType ==
  ASSUME TypeInv, NEW k \in Kids
  PROVE  /\ kids[k] \in Kid /\ k \in 1..Len(kids) /\ Len(kids) \in Nat
         /\ \A id \in Ids(kids[k]) : id \in Nat
<1>1. kids[k] \in Kid /\ k \in 1..Len(kids) /\ Len(kids) \in Nat
  BY DEF TypeInv, Kids
<1>2. kids[k].out \in Seq(Lines) /\ kids[k].inbox \in Seq(Sent)
  BY <1>1 DEF Kid
<1>3. /\ \A n \in DOMAIN kids[k].out : kids[k].out[n].id \in Nat
      /\ \A n \in DOMAIN kids[k].inbox : kids[k].inbox[n].id \in Nat
  <2>1. \A n \in DOMAIN kids[k].out : kids[k].out[n] \in Lines
    BY <1>2
  <2>2. \A n \in DOMAIN kids[k].inbox : kids[k].inbox[n] \in Sent
    BY <1>2
  <2> QED BY <2>1, <2>2 DEF Lines, Sent
<1> QED BY <1>1, <1>3 DEF Ids

LEMMA TailOf ==
  ASSUME NEW S, NEW s \in Seq(S), s # <<>>
  PROVE  /\ Tail(s) \in Seq(S) /\ Head(s) = s[1] /\ 1 \in DOMAIN s /\ Head(s) \in S
         /\ \A n \in DOMAIN Tail(s) : n + 1 \in DOMAIN s /\ Tail(s)[n] = s[n + 1]
  OBVIOUS

LEMMA Appended ==
  ASSUME NEW S, NEW s \in Seq(S), NEW x \in S
  PROVE  /\ Append(s, x) \in Seq(S)
         /\ \A n \in DOMAIN Append(s, x) :
              (n \in DOMAIN s /\ Append(s, x)[n] = s[n]) \/ Append(s, x)[n] = x
  OBVIOUS

LEMMA WithoutOne ==
  ASSUME NEW S, NEW s \in Seq(S), NEW i \in 1..Len(s)
  PROVE  LET rest == SubSeq(s, 1, i - 1) \o SubSeq(s, i + 1, Len(s))
         IN  /\ rest \in Seq(S)
             /\ \A n \in DOMAIN rest : \E m \in DOMAIN s : rest[n] = s[m]
<1> DEFINE a == SubSeq(s, 1, i - 1)
           b == SubSeq(s, i + 1, Len(s))
<1>1. a \in Seq(S) /\ Len(a) = i - 1 /\ \A n \in 1..(i - 1) : a[n] = s[n]
  OBVIOUS
<1>2. b \in Seq(S) /\ Len(b) = Len(s) - i /\ \A n \in 1..(Len(s) - i) : b[n] = s[n + i]
  OBVIOUS
<1>0. Len(s) \in Nat /\ i \in Nat /\ i >= 1 /\ i <= Len(s) /\ DOMAIN s = 1..Len(s)
  OBVIOUS
<1> HIDE DEF a, b
<1>3. a \o b \in Seq(S) /\ Len(a \o b) = Len(s) - 1
  <2>1. a \o b \in Seq(S) /\ Len(a \o b) = Len(a) + Len(b)
    BY <1>1, <1>2, ConcatProperties
  <2> QED BY <1>0, <1>1, <1>2, <2>1
<1>4. ASSUME NEW n \in DOMAIN (a \o b)
      PROVE  \E m \in DOMAIN s : (a \o b)[n] = s[m]
  <2>1. n \in 1..(Len(s) - 1)
    BY <1>3
  <2>2. CASE n < i
    <3>1. (a \o b)[n] = a[n]
      BY <1>0, <1>1, <1>2, <2>1, <2>2
    <3> QED BY <1>0, <1>1, <2>1, <2>2, <3>1
  <2>3. CASE n >= i
    <3>1. (a \o b)[n] = b[n - (i - 1)]
      BY <1>0, <1>1, <1>2, <2>1, <2>3
    <3>2. b[n - (i - 1)] = s[n + 1]
      BY <1>0, <1>2, <2>1, <2>3
    <3> QED BY <1>0, <2>1, <3>1, <3>2
  <2> QED BY <1>0, <2>1, <2>2, <2>3
<1> QED BY <1>3, <1>4 DEF a, b

LEMMA Changes ==
  ASSUME TypeInv, NEW k \in Kids, NEW kid \in Kid
  PROVE  LET ks == [kids EXCEPT ![k] = kid]
         IN  /\ ks \in Seq(Kid) /\ Len(ks) = Len(kids) /\ DOMAIN ks = Kids
             /\ ks[k] = kid
             /\ \A j \in Kids : j # k => ks[j] = kids[j]
  BY DEF TypeInv, Kids

LEMMA PoppedIs ==
  ASSUME TypeInv, NEW k \in Kids, Reads(k)
  PROVE  /\ Same(Popped(k))
         /\ \A j \in Kids : Ids(Popped(k)[j]) \subseteq Ids(kids[j])
         /\ Next1(k) \in Lines /\ Next1(k).id \in Ids(kids[k])
<1> DEFINE kid == [kids[k] EXCEPT !.out = Tail(@)]
<1>1. kids[k] \in Kid /\ kids[k].out \in Seq(Lines) /\ kids[k].out # <<>>
  BY KidType DEF Kid, Reads
<1>2. /\ Tail(kids[k].out) \in Seq(Lines) /\ Head(kids[k].out) \in Lines
      /\ Head(kids[k].out) = kids[k].out[1] /\ 1 \in DOMAIN kids[k].out
      /\ \A n \in DOMAIN Tail(kids[k].out) :
           n + 1 \in DOMAIN kids[k].out /\ Tail(kids[k].out)[n] = kids[k].out[n + 1]
  BY <1>1, TailOf
<1>3. /\ kid \in Kid /\ kid.out = Tail(kids[k].out) /\ kid.inbox = kids[k].inbox
      /\ kid.told = kids[k].told /\ kid.st = kids[k].st /\ kid.signalled = kids[k].signalled
  BY <1>1, <1>2 DEF Kid
<1>4. Popped(k) = [kids EXCEPT ![k] = kid]
  BY <1>1 DEF Popped, Kids
<1> HIDE DEF kid
<1>5. Ids(kid) \subseteq Ids(kids[k])
  BY <1>2, <1>3 DEF Ids
<1>6. Next1(k).id \in Ids(kids[k])
  BY <1>2 DEF Next1, Ids
<1> QED BY <1>2, <1>3, <1>4, <1>5, <1>6, Changes DEF Same, Next1

LEMMA DeliverIs ==
  ASSUME TypeInv, child \in Kids, NEW id \in Nat, NEW req \in Requests
  PROVE  /\ Same(Deliver(id, req))
         /\ \A j \in Kids : j # child => Ids(Deliver(id, req)[j]) = Ids(kids[j])
         /\ Ids(Deliver(id, req)[child]) \subseteq Ids(kids[child]) \cup {id}
<1> DEFINE new == [id |-> id, req |-> req]
           kid == [kids[child] EXCEPT !.inbox = Append(@, new)]
<1>1. kids[child] \in Kid /\ kids[child].inbox \in Seq(Sent) /\ new \in Sent
  BY KidType DEF Kid, Sent
<1>2. CASE kids[child].st = "running"
  <2>1. new.id = id
    OBVIOUS
  <2> HIDE DEF new
  <2>2. /\ Append(kids[child].inbox, new) \in Seq(Sent)
        /\ \A n \in DOMAIN Append(kids[child].inbox, new) :
             \/ n \in DOMAIN kids[child].inbox
                /\ Append(kids[child].inbox, new)[n] = kids[child].inbox[n]
             \/ Append(kids[child].inbox, new)[n] = new
    BY <1>1, Appended
  <2>3. /\ kid \in Kid /\ kid.inbox = Append(kids[child].inbox, new) /\ kid.out = kids[child].out
        /\ kid.told = kids[child].told /\ kid.st = kids[child].st
        /\ kid.signalled = kids[child].signalled
    BY <1>1, <2>2 DEF Kid
  <2>4. Deliver(id, req) = [kids EXCEPT ![child] = kid]
    BY <1>1, <1>2 DEF Deliver, Kids, new
  <2> HIDE DEF kid
  <2>5. Ids(kid) \subseteq Ids(kids[child]) \cup {id}
    BY <2>1, <2>2, <2>3 DEF Ids
  <2> QED BY <2>3, <2>4, <2>5, Changes DEF Same
<1>3. CASE kids[child].st # "running"
  BY <1>3 DEF Deliver, Same, TypeInv
<1> QED BY <1>2, <1>3

(* The process that is told to end, and no other, is marked.                *)
LEMMA KilledIs ==
  ASSUME TypeInv, OneAtATime, NEW ks, Same(ks)
  PROVE  LET killed == KilledIn(ks, child)
         IN  /\ killed \in Seq(Kid) /\ Len(killed) = Len(kids)
             /\ \A k \in Kids :
                  /\ killed[k].told = kids[k].told /\ killed[k].st = kids[k].st
                  /\ killed[k].signalled = (kids[k].signalled \/ k = child)
                  /\ Ids(killed[k]) = Ids(ks[k])
<1>1. CASE child = 0
  BY <1>1, KidType DEF KilledIn, Same, Kid
<1>2. CASE child # 0
  <2> DEFINE kid == [ks[child] EXCEPT !.signalled = TRUE]
             killed == [ks EXCEPT ![child] = kid]
  <2>1. child \in Kids /\ Kids = 1..Len(kids) /\ DOMAIN ks = Kids
    BY <1>2 DEF OneAtATime, TypeInv, Kids, Same
  <2>2. \A k \in Kids : ks[k] \in Kid /\ kids[k] \in Kid
    BY <2>1, KidType DEF Same
  <2>3. /\ kid \in Kid /\ kid.signalled = TRUE /\ kid.out = ks[child].out
        /\ kid.inbox = ks[child].inbox /\ kid.told = ks[child].told /\ kid.st = ks[child].st
    BY <2>1, <2>2 DEF Kid
  <2>4. KilledIn(ks, child) = killed
    BY <1>2 DEF KilledIn
  <2> HIDE DEF kid
  <2>5. /\ killed \in Seq(Kid) /\ Len(killed) = Len(kids) /\ killed[child] = kid
        /\ \A j \in Kids : j # child => killed[j] = ks[j]
    BY <2>1, <2>2, <2>3 DEF Same, TypeInv
  <2> HIDE DEF killed
  <2>6. Ids(kid) = Ids(ks[child])
    BY <2>3 DEF Ids
  <2>7. \A k \in Kids : kids[k].signalled \in BOOLEAN
    BY <2>2 DEF Kid
  <2>8. ASSUME NEW k \in Kids
        PROVE  /\ killed[k].told = kids[k].told /\ killed[k].st = kids[k].st
               /\ killed[k].signalled = (kids[k].signalled \/ k = child)
               /\ Ids(killed[k]) = Ids(ks[k])
    <3>1. CASE k = child
      BY <2>1, <2>3, <2>5, <2>6, <3>1 DEF Same
    <3>2. CASE k # child
      BY <2>5, <2>7, <3>2 DEF Same
    <3> QED BY <3>1, <3>2
  <2> QED BY <2>4, <2>5, <2>8
<1> QED BY <1>1, <1>2

-----------------------------------------------------------------------------
(* What a step that spawns nothing and asks nothing may do to the host.     *)

(* The processes keep their places; none starts to run, none is reported    *)
(* gone that runs, and none learns an id.                                   *)
KidsAge ==
  /\ kids' \in Seq(Kid) /\ Len(kids') = Len(kids)
  /\ \A k \in Kids :
       /\ kids'[k].st = "running" => kids[k].st = "running"
       /\ kids[k].signalled => kids'[k].signalled
       /\ kids[k].told => kids'[k].told
       /\ kids'[k].told => kids[k].told \/ kids'[k].st # "running"
       /\ Ids(kids'[k]) \subseteq Ids(kids[k]) \cup {0}

PendingShrinks ==
  /\ DOMAIN pending' \subseteq DOMAIN pending
  /\ \A id \in DOMAIN pending' : pending'[id] = pending[id]

(* The host lets its agent go only once it is gone or told to go, and gives *)
(* up or is disposed of only without one.                                   *)
ChildStays ==
  child' = child /\ (disposed' = disposed \/ disposed # "no") /\ failed' = failed
ChildGoes ==
  /\ child' = 0
  /\ child \in Kids => kids'[child].signalled \/ kids'[child].st # "running"

LEMMA Keeps ==
  ASSUME HostInv, KidsAge, PendingShrinks, ChildStays \/ ChildGoes,
         task' \in Task, closing' \in Nat, failed' \in BOOLEAN, timer' \in BOOLEAN,
         counter' = counter, wanted' = wanted,
         timer' => timer \/ \A k \in Kids : kids'[k].told,
         kids = <<>> => task' = task /\ failed' = failed /\ ~timer'
  PROVE  HostInv'
<1>1. /\ Kids = 1..Len(kids) /\ Len(kids) \in Nat /\ Kids' = Kids /\ Len(kids') = Len(kids)
      /\ kids \in Seq(Kid) /\ kids' \in Seq(Kid) /\ child \in Nat
  BY DEF HostInv, TypeInv, KidsAge, Kids
<1>2. \A k \in Kids : /\ kids'[k].told \in BOOLEAN /\ kids[k].told \in BOOLEAN
                      /\ kids'[k].signalled \in BOOLEAN /\ kids[k].signalled \in BOOLEAN
  <2>1. \A k \in Kids : kids'[k] \in Kid /\ kids[k] \in Kid
    BY <1>1
  <2> QED BY <2>1 DEF Kid
<1>3. TypeInv'
  BY <1>1 DEF HostInv, TypeInv, KidsAge, PendingShrinks, ChildStays, ChildGoes
<1>4. kids' = <<>> => kids = <<>>
  BY <1>1
<1>5. OneAtATime'
  BY <1>1, <1>2, <1>4 DEF HostInv, OneAtATime, KidsAge, PendingShrinks, ChildStays, ChildGoes
<1>6. OneAgent'
  BY <1>1, <1>2 DEF HostInv, OneAgent, KidsAge, ChildStays, ChildGoes
<1>7. IdsAreOwn'
  <2> SUFFICES ASSUME NEW k \in Kids, NEW id \in Ids(kids'[k])
               PROVE  id <= counter /\ (id \in DOMAIN pending' => pending'[id].to = k)
    BY <1>1 DEF IdsAreOwn, Ids
  <2>1. counter \in Nat /\ DOMAIN pending \subseteq 1..counter
    BY DEF HostInv, TypeInv
  <2>2. CASE id \in Ids(kids[k])
    BY <2>2 DEF HostInv, IdsAreOwn, PendingShrinks
  <2>3. CASE id = 0
    BY <2>1, <2>3 DEF PendingShrinks
  <2> QED BY <2>2, <2>3 DEF KidsAge
<1> QED BY <1>3, <1>5, <1>6, <1>7 DEF HostInv

LEMMA TakeIs ==
  ASSUME TypeInv, NEW ids, NEW result \in {"ok", "err"}, Take(ids, result)
  PROVE  /\ PendingShrinks /\ task' \in Task
         /\ DOMAIN pending = {} => task' = task
<1>1. PendingShrinks
  BY DEF Take, Restrict, PendingShrinks
<1>2. task' \in Task
  BY DEF Take, Told, TypeInv, Task
<1>3. DOMAIN pending = {} => task' = task
  BY DEF Take, Told
<1> QED BY <1>1, <1>2, <1>3

LEMMA NothingPending ==
  ASSUME HostInv, kids = <<>>
  PROVE  task = Idle /\ DOMAIN pending = {} /\ ~failed /\ ~timer
  BY DEF HostInv, OneAtATime

(* A process that is replaced by one that differs in what it holds.         *)
LEMMA SameAges ==
  ASSUME HostInv, Same(kids'), \A k \in Kids : Ids(kids'[k]) \subseteq Ids(kids[k]) \cup {0}
  PROVE  KidsAge
  BY DEF Same, KidsAge

LEMMA KillKeeps ==
  ASSUME HostInv, NEW ks, Same(ks), \A k \in Kids : Ids(ks[k]) \subseteq Ids(kids[k]) \cup {0},
         KillChild(ks)
  PROVE  KidsAge /\ ChildGoes
<1>1. /\ kids' \in Seq(Kid) /\ Len(kids') = Len(kids) /\ child' = 0
      /\ \A k \in Kids :
           /\ kids'[k].told = kids[k].told /\ kids'[k].st = kids[k].st
           /\ kids'[k].signalled = (kids[k].signalled \/ k = child)
           /\ Ids(kids'[k]) = Ids(ks[k])
  BY KilledIs DEF KillChild, HostInv
<1> QED BY <1>1 DEF KidsAge, ChildGoes

-----------------------------------------------------------------------------
LEMMA HearsKeeps ==
  ASSUME HostInv, NEW k \in Kids, Hears(k)
  PROVE  HostInv'
<1> DEFINE ks == Popped(k)
<1>1. /\ Reads(k) /\ Same(ks) /\ \A j \in Kids : Ids(ks[j]) \subseteq Ids(kids[j]) \cup {0}
      /\ kids # <<>> /\ TypeInv
  BY PoppedIs DEF Hears, HearsPart, HearsNoise, HearsMajor, HearsAnswer, HostInv, Kids
<1>2. closing \in Nat /\ failed \in BOOLEAN /\ timer \in BOOLEAN /\ task \in Task
  BY <1>1 DEF TypeInv
<1>3. kids' = ks => KidsAge
  BY <1>1, SameAges
<1>4. KillChild(ks) => KidsAge /\ ChildGoes
  BY <1>1, KillKeeps
<1> HIDE DEF ks
<1>5. CASE HearsPart(k)
  <2>1. kids' = ks /\ UNCHANGED <<child, host, task, pending, wire>>
    BY <1>5 DEF HearsPart, ks
  <2>2. ChildStays /\ PendingShrinks /\ UNCHANGED <<closing, failed, timer, counter, wanted>>
    BY <2>1 DEF host, wire, ChildStays, PendingShrinks
  <2> QED BY <1>1, <1>2, <1>3, <2>1, <2>2, Keeps
<1>6. CASE HearsNoise(k)
  <2>1. /\ (kids' = ks /\ UNCHANGED child) \/ KillChild(ks)
        /\ UNCHANGED <<host, task, pending, wire>>
    BY <1>6 DEF HearsNoise, ks
  <2>2. PendingShrinks /\ UNCHANGED <<disposed, closing, failed, timer, counter, wanted>>
    BY <2>1 DEF host, wire, PendingShrinks
  <2>3. KidsAge /\ (ChildStays \/ ChildGoes)
    BY <1>3, <1>4, <2>1, <2>2 DEF ChildStays
  <2> QED BY <1>1, <1>2, <2>1, <2>2, <2>3, Keeps
<1>7. CASE HearsMajor(k)
  <2>1. /\ UNCHANGED <<task, pending>> \/ Take({Next1(k).id}, "err")
        /\ failed' = TRUE /\ KillChild(ks)
        /\ UNCHANGED <<closing, timer, wire>>
    BY <1>7 DEF HearsMajor, ks
  <2>2. PendingShrinks /\ task' \in Task /\ UNCHANGED <<counter, wanted>>
    BY <1>1, <1>2, <2>1, TakeIs DEF wire, PendingShrinks
  <2> QED BY <1>1, <1>2, <1>4, <2>1, <2>2, Keeps
<1>8. CASE HearsAnswer(k)
  <2>1. kids' = ks /\ Take({Next1(k).id}, "ok") /\ UNCHANGED <<child, host, wire>>
    BY <1>8 DEF HearsAnswer, ks
  <2>2. PendingShrinks /\ task' \in Task
    BY <1>1, <2>1, TakeIs
  <2>3. ChildStays /\ UNCHANGED <<closing, failed, timer, counter, wanted>>
    BY <2>1 DEF host, wire, ChildStays
  <2> QED BY <1>1, <1>2, <1>3, <2>1, <2>2, <2>3, Keeps
<1> QED BY <1>5, <1>6, <1>7, <1>8 DEF Hears

LEMMA EndedKeeps ==
  ASSUME HostInv, NEW k \in Kids, Ended(k)
  PROVE  HostInv'
<1> DEFINE kid == [kids[k] EXCEPT !.told = TRUE]
<1>1. /\ TypeInv /\ kids[k] \in Kid /\ ~kids[k].told /\ kids[k].st # "running"
      /\ kids' = [kids EXCEPT ![k].told = TRUE] /\ child' = 0 /\ FailAll
      /\ UNCHANGED <<closing, wire>> /\ kids # <<>> /\ Kids = 1..Len(kids)
      /\ failed' \in BOOLEAN /\ timer' \in BOOLEAN
  <2>1. TypeInv /\ kids[k] \in Kid /\ kids # <<>> /\ Kids = 1..Len(kids)
    BY KidType DEF HostInv, TypeInv, Kids
  <2>2. failed \in BOOLEAN /\ timer \in BOOLEAN
    BY <2>1 DEF TypeInv
  <2>3. CASE SpawnError(k)
    BY <2>1, <2>2, <2>3 DEF SpawnError
  <2>4. CASE Exit(k)
    <3>1. failed' \in BOOLEAN /\ timer' \in BOOLEAN
      BY <2>2, <2>4 DEF Exit
    <3> QED BY <2>1, <2>4, <3>1 DEF Exit
  <2> QED BY <2>3, <2>4 DEF Ended
<1>2. /\ kid \in Kid /\ kid.told = TRUE /\ kid.st = kids[k].st
      /\ kid.signalled = kids[k].signalled /\ kid.out = kids[k].out /\ kid.inbox = kids[k].inbox
  BY <1>1 DEF Kid
<1>3. kids' = [kids EXCEPT ![k] = kid]
  BY <1>1 DEF TypeInv
<1> HIDE DEF kid
<1>4. Ids(kid) = Ids(kids[k])
  BY <1>2 DEF Ids
<1>5. /\ kids' \in Seq(Kid) /\ Len(kids') = Len(kids) /\ kids'[k] = kid
      /\ \A j \in Kids : j # k => kids'[j] = kids[j]
  <2>1. TypeInv /\ kid \in Kid
    BY <1>1, <1>2
  <2> QED BY <1>3, <2>1, Changes
<1>6. \A j \in Kids : kids'[j].told
  <2>1. \A j \in Kids : ~kids[j].told => j = Len(kids)
    BY DEF HostInv, OneAtATime
  <2>2. k = Len(kids)
    BY <1>1, <2>1
  <2> QED BY <1>2, <1>5, <2>1, <2>2
<1>7. KidsAge
  BY <1>1, <1>2, <1>4, <1>5 DEF KidsAge
<1>8. ChildGoes
  <2>1. child \in Kids => child = k
    BY <1>1 DEF HostInv, OneAtATime
  <2> QED BY <1>1, <1>2, <1>5, <2>1 DEF ChildGoes
<1>9. PendingShrinks /\ task' \in Task /\ closing' \in Nat /\ UNCHANGED <<counter, wanted>>
  BY <1>1, TakeIs DEF FailAll, TypeInv, wire
<1> QED BY <1>1, <1>6, <1>7, <1>8, <1>9, Keeps

(* The steps of the app, of timers and of start() and restart() that change *)
(* no process.                                                              *)
LEMMA WaitsKeep ==
  ASSUME HostInv,
         \/ \E id \in DOMAIN pending : TimesOut(id)
         \/ Started \/ Disposed
         \/ kids # <<>> /\ Rearm /\ ToRearm = {}
         \/ Restart /\ (disposed # "no" \/ failed)
  PROVE  HostInv'
<1>1. TypeInv /\ task \in Task /\ Idle \in Task /\ closing \in Nat /\ failed \in BOOLEAN
      /\ timer \in BOOLEAN
  BY DEF HostInv, TypeInv, Idle, Task
<1>2. UNCHANGED kids => KidsAge
  BY DEF HostInv, TypeInv, KidsAge, Kids
<1>3. UNCHANGED pending => PendingShrinks
  BY DEF PendingShrinks
<1>4. kids = <<>> => task.step # "hello"
  BY NothingPending DEF Idle
<1>5. ASSUME NEW id \in DOMAIN pending, TimesOut(id)
      PROVE  HostInv'
  <2>1. Take({id}, "err") /\ UNCHANGED <<kids, child, host, wire>> /\ kids # <<>>
    BY <1>5, NothingPending DEF TimesOut
  <2>2. PendingShrinks /\ task' \in Task
    BY <1>1, <2>1, TakeIs
  <2>3. ChildStays /\ UNCHANGED <<closing, failed, timer, counter, wanted>>
    BY <2>1 DEF host, wire, ChildStays
  <2> QED BY <1>1, <1>2, <2>1, <2>2, <2>3, Keeps
<1>6. CASE Started
  <2>1. /\ task' = Idle /\ UNCHANGED <<kids, child, disposed, closing, failed, timer, pending, counter, wanted>>
        /\ kids # <<>>
    BY <1>4, <1>6 DEF Started, host, wire
  <2>2. ChildStays
    BY <2>1 DEF ChildStays
  <2> QED BY <1>1, <1>2, <1>3, <2>1, <2>2, Keeps
<1>7. CASE Disposed
  <2>1. FailAll /\ UNCHANGED <<kids, child, closing, failed, timer, counter, wanted>>
    BY <1>7 DEF Disposed, wire
  <2>2. PendingShrinks /\ task' \in Task /\ (kids = <<>> => task' = task)
    BY <1>1, <2>1, TakeIs, NothingPending DEF FailAll
  <2>3. ChildStays
    BY <1>7, <2>1 DEF Disposed, ChildStays
  <2>4. kids = <<>> => ~timer
    BY NothingPending
  <2> QED BY <1>1, <1>2, <2>1, <2>2, <2>3, <2>4, Keeps
<1>8. CASE kids # <<>> /\ Rearm /\ ToRearm = {}
  <2>1. /\ task' = Idle /\ UNCHANGED <<kids, child, disposed, closing, failed, timer, pending, counter, wanted>>
    BY <1>8 DEF Rearm, host, wire
  <2>2. ChildStays
    BY <2>1 DEF ChildStays
  <2> QED BY <1>1, <1>2, <1>3, <1>8, <2>1, <2>2, Keeps
<1>9. CASE Restart /\ (disposed # "no" \/ failed)
  <2>1. /\ timer' = FALSE
        /\ UNCHANGED <<kids, child, disposed, closing, failed, task, pending, counter, wanted>>
    BY <1>9 DEF Restart, wire
  <2>2. ChildStays
    BY <2>1 DEF ChildStays
  <2> QED BY <1>1, <1>2, <1>3, <2>1, <2>2, Keeps
<1> QED BY <1>5, <1>6, <1>7, <1>8, <1>9

LEMMA HelloFailedKeeps == HostInv /\ HelloFailed => HostInv'
<1> SUFFICES ASSUME HostInv, HelloFailed
             PROVE  HostInv'
  OBVIOUS
<1>1. /\ TypeInv /\ task \in Task /\ Idle \in Task /\ closing \in Nat /\ failed \in BOOLEAN
      /\ timer \in BOOLEAN /\ Same(kids)
  BY DEF HostInv, TypeInv, Idle, Task, Same
<1>2. /\ failed' \in BOOLEAN /\ task' = Idle /\ KillChild(kids)
      /\ UNCHANGED <<closing, timer, pending, counter, wanted>>
  BY <1>1 DEF HelloFailed, wire, Task
<1>3. kids # <<>>
  BY NothingPending DEF HelloFailed, Idle
<1>4. KidsAge /\ ChildGoes /\ PendingShrinks
  BY <1>1, <1>2, KillKeeps DEF PendingShrinks
<1> QED BY <1>1, <1>2, <1>3, <1>4, Keeps

LEMMA DisposeKeeps == HostInv /\ Dispose => HostInv'
<1> SUFFICES ASSUME HostInv, Dispose
             PROVE  HostInv'
  OBVIOUS
<1>1. /\ TypeInv /\ task \in Task /\ closing \in Nat /\ failed \in BOOLEAN /\ child \in Nat
      /\ Same(kids)
  BY DEF HostInv, TypeInv, Same
<1>2. timer' = FALSE /\ UNCHANGED <<failed, counter, wanted>>
  BY DEF Dispose, wire
<1>3. CASE child = 0
  <2>1. FailAll /\ UNCHANGED <<kids, child, closing>>
    BY <1>3 DEF Dispose
  <2>2. PendingShrinks /\ task' \in Task /\ (kids = <<>> => task' = task)
    BY <1>1, <2>1, TakeIs, NothingPending DEF FailAll
  <2>3. KidsAge /\ ChildGoes
    BY <1>1, <1>3, <2>1, SameAges DEF ChildGoes, Kids, TypeInv
  <2> QED BY <1>1, <1>2, <2>1, <2>2, <2>3, Keeps
<1>4. CASE child # 0
  <2> DEFINE ks == Deliver(0, Turn("shutdown", TRUE))
  <2>1. /\ closing' = child /\ KillChild(ks) /\ UNCHANGED <<pending, task>>
    BY <1>4 DEF Dispose
  <2>2. child \in Kids /\ Turn("shutdown", TRUE) \in Requests /\ kids # <<>>
    BY <1>1, <1>4 DEF HostInv, OneAtATime, Kids, Requests, TypeInv
  <2>3. Same(ks) /\ \A k \in Kids : Ids(ks[k]) \subseteq Ids(kids[k]) \cup {0}
    BY <1>1, <2>2, DeliverIs
  <2> HIDE DEF ks
  <2>4. KidsAge /\ ChildGoes /\ PendingShrinks
    BY <2>1, <2>3, KillKeeps DEF PendingShrinks
  <2> QED BY <1>1, <1>2, <2>1, <2>2, <2>4, Keeps
<1> QED BY <1>3, <1>4

(* The agent's own steps: one process changes, and runs no more than before.*)
LEMMA AgentKeeps ==
  ASSUME HostInv, NEW k \in Kids, Answers(k) \/ Dies(k)
  PROVE  HostInv'
<1>1. /\ TypeInv /\ kids[k] \in Kid /\ kids # <<>> /\ task \in Task /\ closing \in Nat
      /\ failed \in BOOLEAN /\ timer \in BOOLEAN
  BY KidType DEF HostInv, TypeInv, Kids
<1>2. /\ UNCHANGED <<child, disposed, closing, failed, timer, task, pending, counter, wanted>>
      /\ ChildStays /\ PendingShrinks
  BY DEF Answers, Dies, host, wire, ChildStays, PendingShrinks
<1>3. /\ kids[k].out \in Seq(Lines) /\ kids[k].inbox \in Seq(Sent)
      /\ kids[k].on \subseteq Services
  BY <1>1 DEF Kid
<1>4. kids[k].told => kids[k].st # "running"
  BY DEF HostInv, OneAtATime
<1>5. ASSUME NEW kid \in Kid, kids' = [kids EXCEPT ![k] = kid],
             kid.told = kids[k].told, kid.signalled = kids[k].signalled,
             kid.st = kids[k].st \/ kid.st = "dead",
             Ids(kid) \subseteq Ids(kids[k]) \cup {0}
      PROVE  HostInv'
  <2>1. /\ kids' \in Seq(Kid) /\ Len(kids') = Len(kids) /\ kids'[k] = kid
        /\ \A j \in Kids : j # k => kids'[j] = kids[j]
    BY <1>1, <1>5, Changes
  <2>2. KidsAge
    BY <1>5, <2>1 DEF KidsAge
  <2> QED BY <1>1, <1>2, <2>2, Keeps
<1>6. CASE Answers(k)
  <2>1. PICK i \in 1..Len(kids[k].inbox) :
          LET r == kids[k].inbox[i]
              others == IF r.req = Hello /\ "major" \in Noises THEN {"other"} ELSE {}
          IN  \E kind \in {"res"} \cup Noises \cup others :
                kids' = [kids EXCEPT ![k] = [kids[k] EXCEPT
                  !.inbox = SubSeq(@, 1, i - 1) \o SubSeq(@, i + 1, Len(@)),
                  !.out = Append(@, Line(kind, IF kind \in Noises THEN 0 ELSE r.id)),
                  !.on = IF r.req.on THEN @ \cup ({r.req.of} \cap Services)
                                     ELSE @ \ {r.req.of}]]
    BY <1>6 DEF Answers
  <2>1a. PICK kind \in {"res", "other"} \cup Noises :
          kids' = [kids EXCEPT ![k] = [kids[k] EXCEPT
            !.inbox = SubSeq(kids[k].inbox, 1, i - 1)
                      \o SubSeq(kids[k].inbox, i + 1, Len(kids[k].inbox)),
            !.out = Append(kids[k].out, Line(kind, IF kind \in Noises THEN 0
                                                  ELSE kids[k].inbox[i].id)),
            !.on = IF kids[k].inbox[i].req.on
                   THEN kids[k].on \cup ({kids[k].inbox[i].req.of} \cap Services)
                   ELSE kids[k].on \ {kids[k].inbox[i].req.of}]]
    BY <2>1
  <2> DEFINE on == IF kids[k].inbox[i].req.on
                   THEN kids[k].on \cup ({kids[k].inbox[i].req.of} \cap Services)
                   ELSE kids[k].on \ {kids[k].inbox[i].req.of}
  <2>1b. on \subseteq Services
    BY <1>3
  <2> DEFINE inbox == SubSeq(kids[k].inbox, 1, i - 1)
                      \o SubSeq(kids[k].inbox, i + 1, Len(kids[k].inbox))
             line == Line(kind, IF kind \in Noises THEN 0 ELSE kids[k].inbox[i].id)
             out == Append(kids[k].out, line)
             kid == [kids[k] EXCEPT !.inbox = inbox, !.out = out, !.on = on]
  <2>2. /\ inbox \in Seq(Sent)
        /\ \A n \in DOMAIN inbox : \E m \in DOMAIN kids[k].inbox : inbox[n] = kids[k].inbox[m]
    BY <1>3, WithoutOne
  <2>3. i \in DOMAIN kids[k].inbox /\ kids[k].inbox[i].id \in Nat
    <3>1. i \in DOMAIN kids[k].inbox /\ kids[k].inbox[i] \in Sent
      BY <1>3
    <3> QED BY <3>1 DEF Sent
  <2>4. line \in Lines /\ line.id \in {0, kids[k].inbox[i].id}
    BY <2>3 DEF Line, Lines, Kinds
  <2> HIDE DEF inbox, line, on
  <2>5. /\ out \in Seq(Lines)
        /\ \A n \in DOMAIN out : (n \in DOMAIN kids[k].out /\ out[n] = kids[k].out[n]) \/ out[n] = line
    BY <1>3, <2>4, Appended
  <2> HIDE DEF out
  <2>6. /\ kid \in Kid /\ kid.out = out /\ kid.inbox = inbox /\ kid.told = kids[k].told
        /\ kid.signalled = kids[k].signalled /\ kid.st = kids[k].st
    BY <1>1, <2>2, <2>5, <2>1b DEF Kid
  <2>7. kids' = [kids EXCEPT ![k] = kid]
    BY <2>1a DEF inbox, out, line, on
  <2> HIDE DEF kid
  <2>8. \A n \in DOMAIN kid.out : kid.out[n].id \in Ids(kids[k]) \cup {0}
    BY <2>3, <2>4, <2>5, <2>6 DEF Ids
  <2>9. \A n \in DOMAIN kid.inbox : kid.inbox[n].id \in Ids(kids[k])
    BY <2>2, <2>6 DEF Ids
  <2>10. Ids(kid) \subseteq Ids(kids[k]) \cup {0}
    BY <2>8, <2>9 DEF Ids
  <2> QED BY <1>5, <2>6, <2>7, <2>10
<1>7. CASE Dies(k)
  <2>1. PICK tail \in {<<>>, <<Line("part", 0)>>} :
          kids' = [kids EXCEPT ![k] = [kids[k] EXCEPT !.st = "dead", !.inbox = <<>>,
                                                !.on = {}, !.out = @ \o tail]]
    BY <1>7 DEF Dies
  <2> DEFINE out == kids[k].out \o tail
             kid == [kids[k] EXCEPT !.st = "dead", !.inbox = <<>>, !.on = {}, !.out = out]
  <2>2. Line("part", 0) \in Lines /\ Line("part", 0).id = 0
    BY DEF Line, Lines, Kinds
  <2>3. /\ out \in Seq(Lines)
        /\ \A n \in DOMAIN out : \/ n \in DOMAIN kids[k].out /\ out[n] = kids[k].out[n]
                                 \/ out[n] = Line("part", 0)
    <3>1. CASE tail = <<>>
      BY <1>3, <3>1
    <3>2. CASE tail = <<Line("part", 0)>>
      <4>1. out = Append(kids[k].out, Line("part", 0))
        BY <1>3, <3>2
      <4> QED BY <1>3, <2>2, <4>1, Appended
    <3> QED BY <3>1, <3>2
  <2>4. kids' = [kids EXCEPT ![k] = kid]
    BY <1>1, <2>1
  <2>1a. <<>> \in Seq(Sent) /\ {} \subseteq Services
    OBVIOUS
  <2> HIDE DEF out
  <2>5. /\ kid \in Kid /\ kid.out = out /\ kid.inbox = <<>> /\ kid.told = kids[k].told
        /\ kid.signalled = kids[k].signalled /\ kid.st = "dead"
    BY <1>1, <2>3, <2>1a DEF Kid
  <2> HIDE DEF kid
  <2>6. Ids(kid) \subseteq Ids(kids[k]) \cup {0}
    BY <2>2, <2>3, <2>5 DEF Ids
  <2> QED BY <1>5, <2>4, <2>5, <2>6
<1> QED BY <1>6, <1>7

-----------------------------------------------------------------------------
(* The steps that ask an agent for something: each takes a fresh id.        *)
LEMMA RequestKeeps ==
  ASSUME HostInv, kids # <<>>, NEW req \in Requests, req.of \in Services, Request(req),
         UNCHANGED <<child, closing, disposed, failed, timer>>, task' \in Task
  PROVE  HostInv'
<1>1. /\ TypeInv /\ child \in Nat /\ counter \in Nat /\ Len(kids) \in Nat
      /\ Kids = 1..Len(kids) /\ DOMAIN pending \subseteq 1..counter /\ wanted \subseteq Services
      /\ child \in {0, Len(kids)} /\ kids \in Seq(Kid)
  BY DEF HostInv, TypeInv, OneAtATime, Kids
<1>2. counter' = counter + 1 /\ NextId = counter + 1
  BY DEF Request, NextId
<1>3. CASE Sendable
  <2>1. /\ pending' = Registered(req, child) /\ kids' = Deliver(NextId, req)
        /\ wanted' = Recorded(req)
    BY <1>3 DEF Request
  <2>2. child \in Kids
    BY <1>1, <1>3 DEF Sendable
  <2>3. /\ Same(kids')
        /\ \A j \in Kids : j # child => Ids(kids'[j]) = Ids(kids[j])
        /\ Ids(kids'[child]) \subseteq Ids(kids[child]) \cup {NextId}
    BY <1>1, <1>2, <2>1, <2>2, DeliverIs
  <2>4. /\ kids' \in Seq(Kid) /\ Len(kids') = Len(kids) /\ Kids' = Kids
        /\ \A k \in Kids : /\ kids'[k].told = kids[k].told /\ kids'[k].st = kids[k].st
                           /\ kids'[k].signalled = kids[k].signalled
    <3>1. kids' \in Seq(Kid) /\ Len(kids') = Len(kids)
      BY <2>3 DEF Same
    <3>2. DOMAIN kids' = 1..Len(kids)
      BY <1>1, <3>1
    <3> QED BY <1>1, <2>3, <3>1, <3>2 DEF Same, Kids
  <2>5. /\ DOMAIN pending' = DOMAIN pending \cup {NextId}
        /\ \A id \in DOMAIN pending : id # NextId => pending'[id] = pending[id]
        /\ pending'[NextId].to = child
    BY <2>1 DEF Registered
  <2>6. TypeInv'
    <3>1. wanted' \subseteq Services
      BY <1>1, <2>1 DEF Recorded
    <3> QED BY <1>1, <1>2, <2>4, <2>5, <3>1 DEF TypeInv
  <2>7. OneAtATime'
    BY <1>1, <2>4 DEF HostInv, OneAtATime
  <2>8. OneAgent'
    BY <2>4 DEF HostInv, OneAgent
  <2>9. IdsAreOwn'
    <3> SUFFICES ASSUME NEW k \in Kids, NEW id \in Ids(kids'[k])
                 PROVE  id <= counter' /\ (id \in DOMAIN pending' => pending'[id].to = k)
      BY <2>4 DEF IdsAreOwn, Ids
    <3>1. CASE id \in Ids(kids[k])
      <4>1. id \in Nat /\ id <= counter /\ (id \in DOMAIN pending => pending[id].to = k)
        BY <1>1, <3>1, KidType DEF HostInv, IdsAreOwn
      <4> QED BY <1>1, <1>2, <2>5, <4>1
    <3>2. CASE id \notin Ids(kids[k])
      <4>1. k = child /\ id = NextId
        BY <2>3, <3>2
      <4> QED BY <1>1, <1>2, <2>5, <4>1
    <3> QED BY <3>1, <3>2
  <2> QED BY <2>6, <2>7, <2>8, <2>9 DEF HostInv
<1>4. CASE ~Sendable
  <2>1. UNCHANGED <<pending, kids, wanted>> /\ Kids' = Kids
    BY <1>4 DEF Request, Kids
  <2>2. TypeInv' /\ OneAtATime' /\ OneAgent'
    BY <1>1, <1>2, <2>1 DEF HostInv, TypeInv, OneAtATime, OneAgent
  <2>3. IdsAreOwn'
    <3> SUFFICES ASSUME NEW k \in Kids, NEW id \in Ids(kids[k])
                 PROVE  id <= counter' /\ (id \in DOMAIN pending => pending[id].to = k)
      BY <2>1 DEF IdsAreOwn, Ids
    <3>1. id \in Nat /\ id <= counter /\ (id \in DOMAIN pending => pending[id].to = k)
      BY <1>1, KidType DEF HostInv, IdsAreOwn
    <3> QED BY <1>1, <1>2, <3>1
  <2> QED BY <2>2, <2>3 DEF HostInv
<1> QED BY <1>3, <1>4

LEMMA AsksKeep ==
  ASSUME HostInv,
         \/ kids # <<>> /\ Rearm /\ ToRearm # {}
         \/ \E s \in Services, on \in BOOLEAN : AppCalls(Turn(s, on))
  PROVE  HostInv'
<1>1. \A s \in Services, on \in BOOLEAN : Turn(s, on) \in Requests /\ Turn(s, on).of = s
  <2> SUFFICES ASSUME NEW s \in Services, NEW on \in BOOLEAN
               PROVE  Turn(s, on) \in Requests /\ Turn(s, on).of = s
    OBVIOUS
  <2>1. Turn(s, on).of = s
    BY DEF Turn
  <2> DEFINE turns == {Turn(t, o) : t \in Services, o \in BOOLEAN}
  <2>2. Turn(s, on) \in turns
    OBVIOUS
  <2>3. Requests = {Hello, Turn("shutdown", TRUE)} \cup turns
    BY DEF Requests
  <2> HIDE DEF turns
  <2> QED BY <2>1, <2>2, <2>3
<1>2. counter \in Nat /\ task \in Task /\ wanted \subseteq Services
  BY DEF HostInv, TypeInv
<1>3. CASE kids # <<>> /\ Rearm /\ ToRearm # {}
  <2>1. PICK s \in wanted : Request(Turn(s, TRUE)) /\ task' = Waiting(s)
    BY <1>3 DEF Rearm, ToRearm
  <2>2. task' \in Task
    BY <1>2, <2>1 DEF Waiting, Task, NextId
  <2>3. UNCHANGED <<child, closing, disposed, failed, timer>>
    BY <1>3 DEF Rearm, host
  <2> QED BY <1>1, <1>2, <1>3, <2>1, <2>2, <2>3, RequestKeeps
<1>4. ASSUME NEW s \in Services, NEW on \in BOOLEAN, AppCalls(Turn(s, on))
      PROVE  HostInv'
  <2>1. /\ kids # <<>> /\ Request(Turn(s, on)) /\ task' = task
        /\ UNCHANGED <<child, closing, disposed, failed, timer>>
    BY <1>4 DEF AppCalls, host
  <2> QED BY <1>1, <1>2, <2>1, RequestKeeps
<1> QED BY <1>3, <1>4

(* A process is spawned only when every other one is reported gone.         *)
LEMMA SpawnKeeps ==
  ASSUME HostInv, NEW first \in BOOLEAN, Spawn(first),
         \A k \in Kids : kids[k].told, disposed = "no", ~failed,
         timer' = FALSE, UNCHANGED <<closing, disposed, failed>>
  PROVE  HostInv'
<1>1. /\ TypeInv /\ counter \in Nat /\ Len(kids) \in Nat /\ closing \in Nat
      /\ Kids = 1..Len(kids) /\ DOMAIN pending \subseteq 1..counter /\ wanted \subseteq Services
      /\ kids \in Seq(Kid) /\ failed \in BOOLEAN
  BY DEF HostInv, TypeInv, Kids
<1>2. counter' = counter + 1 /\ NextId = counter + 1 /\ UNCHANGED wanted
  BY DEF Spawn, NextId
<1> DEFINE new(st) == [st |-> st, signalled |-> FALSE, told |-> FALSE,
                       inbox |-> <<[id |-> NextId, req |-> Hello]>>, out |-> <<>>, on |-> {}]
<1>3. PICK st \in {"running", "unborn"} :
        /\ kids' = Append(kids, new(st))
        /\ child' = Len(kids) + 1 /\ pending' = Registered(Hello, Len(kids) + 1)
        /\ task' = [step |-> "hello", id |-> NextId, first |-> first, result |-> "none"]
  BY DEF Spawn
<1> DEFINE kid == new(st)
<1>4. /\ kid.told = FALSE /\ kid.inbox = <<[id |-> NextId, req |-> Hello]>> /\ kid.out = <<>>
  OBVIOUS
<1>5. kid \in Kid
  <2>1. [id |-> NextId, req |-> Hello] \in Sent
    BY <1>1, <1>2 DEF Sent, Requests
  <2>2. <<[id |-> NextId, req |-> Hello]>> \in Seq(Sent)
    BY <2>1
  <2>3. <<>> \in Seq(Lines) /\ {} \subseteq Services
    OBVIOUS
  <2> HIDE DEF Lines, Sent
  <2> QED BY <2>2, <2>3 DEF Kid
<1>6. Ids(kid) = {NextId}
  <2>1. DOMAIN kid.out = {} /\ DOMAIN kid.inbox = {1} /\ kid.inbox[1].id = NextId
    BY <1>4
  <2> QED BY <2>1 DEF Ids
<1>7. kids' = Append(kids, kid)
  BY <1>3
<1> HIDE DEF kid, new
<1>8. /\ kids' \in Seq(Kid) /\ Len(kids') = Len(kids) + 1 /\ kids'[Len(kids) + 1] = kid
      /\ \A k \in Kids : kids'[k] = kids[k]
      /\ Kids' = 1..(Len(kids) + 1)
  BY <1>1, <1>5, <1>7 DEF Kids
<1>9. /\ DOMAIN pending' = DOMAIN pending \cup {NextId}
      /\ \A id \in DOMAIN pending : id # NextId => pending'[id] = pending[id]
      /\ pending'[NextId].to = Len(kids) + 1
  BY <1>3 DEF Registered
<1>10. TypeInv'
  <2>1. task' \in Task
    BY <1>1, <1>2, <1>3 DEF Task
  <2>2. child' \in Nat /\ counter' \in Nat /\ DOMAIN pending' \subseteq 1..counter'
    BY <1>1, <1>2, <1>3, <1>9
  <2> QED BY <1>1, <1>2, <1>8, <2>1, <2>2 DEF TypeInv
<1>11. \A k \in Kids' : k = Len(kids) + 1 \/ k \in Kids
  BY <1>1, <1>8
<1>12. OneAtATime'
  <2>1. kids' # <<>>
    BY <1>1, <1>8
  <2>2. \A k \in Kids' : kids'[k].told => kids'[k].st # "running"
    BY <1>4, <1>8, <1>11 DEF HostInv, OneAtATime
  <2>3. \A k \in Kids' : ~kids'[k].told => k = Len(kids') /\ ~timer'
    BY <1>8, <1>11
  <2> QED BY <1>3, <1>8, <2>1, <2>2, <2>3 DEF OneAtATime
<1>13. OneAgent'
  <2>1. \A k \in Kids : kids[k].st # "running"
    BY DEF HostInv, OneAtATime
  <2> QED BY <1>3, <1>8, <1>11, <2>1 DEF OneAgent
<1>14. IdsAreOwn'
  <2> SUFFICES ASSUME NEW k \in Kids', NEW id \in Ids(kids'[k])
               PROVE  id <= counter' /\ (id \in DOMAIN pending' => pending'[id].to = k)
    BY DEF IdsAreOwn, Ids
  <2>1. CASE k = Len(kids) + 1
    BY <1>1, <1>2, <1>6, <1>8, <1>9, <2>1
  <2>2. CASE k \in Kids
    <3>1. id \in Nat /\ id <= counter /\ (id \in DOMAIN pending => pending[id].to = k)
      BY <1>1, <1>8, <2>2, KidType DEF HostInv, IdsAreOwn
    <3> QED BY <1>1, <1>2, <1>9, <3>1
  <2> QED BY <1>11, <2>1, <2>2
<1> QED BY <1>10, <1>12, <1>13, <1>14 DEF HostInv

-----------------------------------------------------------------------------
LEMMA HostStep == HostInv /\ [Next]_vars => HostInv'
<1> SUFFICES ASSUME HostInv, [Next]_vars
             PROVE  HostInv'
  OBVIOUS
<1>1. timer => kids # <<>> /\ \A k \in Kids : kids[k].told
  BY NothingPending DEF HostInv, OneAtATime
<1>2. CASE Start
  <2>1. kids = <<>> /\ disposed = "no" /\ Spawn(TRUE) /\ UNCHANGED <<closing, disposed, failed, timer>>
    BY <1>2 DEF Start, host
  <2>2. Kids = {} /\ ~failed /\ timer = FALSE
    BY <2>1, NothingPending DEF Kids, HostInv, TypeInv
  <2> QED BY <2>1, <2>2, SpawnKeeps
<1>3. CASE Restart
  <2>1. CASE disposed # "no" \/ failed
    BY <1>3, <2>1, WaitsKeep
  <2>2. CASE disposed = "no" /\ ~failed
    <3>1. timer /\ timer' = FALSE /\ Spawn(FALSE) /\ UNCHANGED <<closing, disposed, failed>>
      BY <1>3, <2>2 DEF Restart
    <3> QED BY <1>1, <2>2, <3>1, SpawnKeeps
  <2> QED BY <2>1, <2>2
<1>4. CASE Continues
  <2>1. kids # <<>> \/ ~Rearm
    <3>1. Rearm => task.result # "none"
      BY DEF Rearm
    <3>2. Idle.result = "none"
      BY DEF Idle
    <3> QED BY <3>1, <3>2, NothingPending
  <2> QED BY <1>4, <2>1, HelloFailedKeeps, WaitsKeep, AsksKeep DEF Continues
<1>5. CASE Dispose \/ Disposed
  BY <1>5, DisposeKeeps, WaitsKeep
<1>6. ASSUME NEW k \in Kids, Hears(k) \/ Ended(k) \/ Answers(k) \/ Dies(k)
      PROVE  HostInv'
  BY <1>6, HearsKeeps, EndedKeeps, AgentKeeps
<1>7. CASE \E id \in DOMAIN pending : TimesOut(id)
  BY <1>7, WaitsKeep
<1>8. CASE \E s \in Services, on \in BOOLEAN : AppCalls(Turn(s, on))
  BY <1>8, AsksKeep
<1>9. CASE UNCHANGED vars
  BY <1>9 DEF vars, host, wire, HostInv, TypeInv, OneAtATime, OneAgent, IdsAreOwn, Kids, Ids
<1> QED BY <1>2, <1>3, <1>4, <1>5, <1>6, <1>7, <1>8, <1>9 DEF Next

(* The invariant holds of every run of the host: one process at a time that *)
(* nobody has told to end, and ids of requests that are never used twice.   *)
THEOREM HostInvariant == Spec => []HostInv
<1> QED BY HostInit, HostStep, PTL DEF Spec

(* There is one agent: a process that runs and has not been told to end is  *)
(* the one the host talks to, and there is none once the host has given up  *)
(* or is disposed of, over any number of restarts (killChild, restart,      *)
(* dispose of spawn-agent.ts).                                              *)
THEOREM OneAgentRuns == Spec => []OneAgent
<1>1. HostInv => OneAgent
  BY DEF HostInv
<1> QED BY <1>1, HostInvariant, PTL

(* A line still to be read from one agent never carries the id of a request *)
(* made to another, whatever the agents write and however often one is      *)
(* replaced: the ids go on over restarts (nextId of correlator.ts).         *)
THEOREM AnswersFindTheirCallers == Spec => []AnswersAreOwn
<1>1. HostInv => AnswersAreOwn
  BY DEF HostInv, IdsAreOwn, AnswersAreOwn, Ids
<1> QED BY <1>1, HostInvariant, PTL
=============================================================================
