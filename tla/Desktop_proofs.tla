--------------------------- MODULE Desktop_proofs ---------------------------
(***************************************************************************)
(* The main process of the desktop: what holds of its life (module App),   *)
(* for every set of keys, passphrases and limits and any number of         *)
(* launches, crashes and rescues; and of the opening of its palette (module*)
(* Opening), for any number of openings, locks, idle times and recalls.    *)
(***************************************************************************)
EXTENDS App, Opening, SequenceTheorems, TLAPS

-----------------------------------------------------------------------------
(* App: whatever is in the log can be read with the key in key.bin, a quit *)
(* loses no copy, and a sweep takes what the user chose to do without.     *)

-----------------------------------------------------------------------------
(* The inductive invariant.                                                *)

FileInv ==
  /\ keyFile.state \in {"ok", "absent", "malformed"}
  /\ keyFile.state = "ok" => keyFile.key \in Keys

(* A key that is live is the one in key.bin.                               *)
LiveInv == masterKey # NoKey => keyFile.state = "ok" /\ keyFile.key = masterKey

(* Records are only written while a key is live.                           *)
StoreInv == store \/ main = "store" => masterKey # NoKey

(* Nothing can be shut down, and the store is not open, before its time.   *)
PhaseInv ==
  /\ main \in {"down", "rescue", "key", "store", "load"} => startup = "no" /\ stopping = "no"
  /\ main \in {"down", "rescue", "key", "store"} => ~store

KeyInv == RecordsHaveTheirKey /\ FileInv /\ LiveInv /\ StoreInv /\ PhaseInv

-----------------------------------------------------------------------------
LEMMA Joined ==
  ASSUME NEW a, NEW b, NEW c, NEW d
  PROVE  <<a, b>> \o <<c, d>> = <<a, b, c, d>>
<1> DEFINE all == {a, b, c, d}
           s   == <<a, b>>
           t   == <<c, d>>
<1>1. s \in Seq(all) /\ t \in Seq(all) /\ <<a, b, c, d>> \in Seq(all)
  OBVIOUS
<1>2. /\ Len(s) = 2 /\ s[1] = a /\ s[2] = b
      /\ Len(t) = 2 /\ t[1] = c /\ t[2] = d
  OBVIOUS
<1>3. Len(s \o t) = 4 /\ s \o t \in Seq(all)
  BY <1>1, <1>2
<1>4. \A i \in 1 .. 4 : (s \o t)[i] = IF i <= 2 THEN s[i] ELSE t[i - 2]
  BY <1>1, <1>2
<1>5. \A i \in 1 .. 4 : (s \o t)[i] = <<a, b, c, d>>[i]
  BY <1>2, <1>4
<1>6. Len(<<a, b, c, d>>) = 4
  OBVIOUS
<1>7. s \o t = <<a, b, c, d>>
  <2> HIDE DEF s, t, all
  <2> QED BY <1>1, <1>3, <1>5, <1>6, SeqEqual
<1> QED BY <1>7

(* A rescue goes through no stage with records, and its outcome is a key   *)
(* file that belongs to the key that is live then.                         *)
LEMMA RekeyForgets ==
  ASSUME NEW strong \in BOOLEAN, NEW k \in Keys
  PROVE  /\ Completes(RekeyStages(strong, k)) =>
              /\ log' = {}
              /\ keyFile' = IF strong THEN KeyFileIs("os-keyring", k, NoPhrase) ELSE Absent
         /\ DiesWithin(RekeyStages(strong, k)) =>
              /\ log' = {}
              /\ keyFile' \in {keyFile, Absent, Malformed}
<1> DEFINE new == KeyFileIs("os-keyring", k, NoPhrase)
           S   == <<Disk(keyFile, {}), Disk(Absent, {}), Disk(Malformed, {}), Disk(new, {})>>
           T   == <<Disk(keyFile, {}), Disk(Absent, {})>>
<1>1. CASE strong
  <2>1. RekeyStages(strong, k) = T \o <<Disk(Malformed, {}), Disk(new, {})>>
    BY <1>1 DEF RekeyStages, WriteStages
  <2>2. RekeyStages(strong, k) = S
    BY <2>1, Joined
  <2>3. Len(S) = 4
    OBVIOUS
  <2>4. Completes(S) => log' = {} /\ keyFile' = new
    BY <2>3 DEF Completes, Reaches, Disk
  <2>5. \A i \in 1 .. 3 : S[i].log = {} /\ S[i].keyFile \in {keyFile, Absent, Malformed}
    BY DEF Disk
  <2>6. DiesWithin(S) => log' = {} /\ keyFile' \in {keyFile, Absent, Malformed}
    <3> HIDE DEF S
    <3> QED BY <2>3, <2>5 DEF DiesWithin, Reaches
  <2> QED BY <1>1, <2>2, <2>4, <2>6
<1>2. CASE ~strong
  <2>1. RekeyStages(strong, k) = T \o << >>
    BY <1>2 DEF RekeyStages
  <2>2. RekeyStages(strong, k) = T
    BY <2>1
  <2>3. Len(T) = 2
    OBVIOUS
  <2>4. Completes(T) => log' = {} /\ keyFile' = Absent
    BY <2>3 DEF Completes, Reaches, Disk
  <2>5. DiesWithin(T) => log' = {} /\ keyFile' = keyFile
    BY <2>3 DEF DiesWithin, Reaches, Disk
  <2> QED BY <1>2, <2>2, <2>4, <2>5
<1> QED BY <1>1, <1>2

LEMMA KeyFiles ==
  /\ Absent.state = "absent" /\ Malformed.state = "malformed"
  /\ \A m, k, p : /\ KeyFileIs(m, k, p).state = "ok"
                  /\ KeyFileIs(m, k, p).key = k
                  /\ KeyFileIs(m, k, p).mode = m
BY DEF Absent, Malformed, KeyFileIs

(* A new key file is written over an absent one.                           *)
LEMMA Written ==
  ASSUME NEW f
  PROVE  /\ Completes(WriteStages(f, log)) => keyFile' = f /\ log' = log
         /\ DiesWithin(WriteStages(f, log)) => keyFile' = Malformed /\ log' = log
BY DEF WriteStages, Completes, DiesWithin, Reaches, Disk

-----------------------------------------------------------------------------
LEMMA KeyInvInit == Init => KeyInv
BY DEF Init, KeyringInit, KeyInv, RecordsHaveTheirKey, FileInv, LiveInv, StoreInv, PhaseInv,
       Absent

(* A step that leaves the keyring, the store and the phases alone.         *)
phases == <<main, startup, stopping, store>>

LEMMA KeyInvIdle ==
  ASSUME KeyInv, UNCHANGED <<disk, live, phases>>
  PROVE  KeyInv'
BY DEF KeyInv, RecordsHaveTheirKey, FileInv, LiveInv, StoreInv, PhaseInv, disk, live, phases

(* A step of the process that leaves the files and the key alone, or only  *)
(* loses records.                                                          *)
LEMMA KeyInvPhase ==
  ASSUME KeyInv, log' \subseteq log, UNCHANGED <<keyFile, live>>, StoreInv', PhaseInv'
  PROVE  KeyInv'
BY DEF KeyInv, RecordsHaveTheirKey, FileInv, LiveInv, live

(* The end of a process, its files being as they should.                   *)
LEMMA KeyInvEnds ==
  ASSUME Ends, RecordsHaveTheirKey', FileInv'
  PROVE  KeyInv'
BY DEF Ends, lock, Holds, KeyInv, LiveInv, StoreInv, PhaseInv

-----------------------------------------------------------------------------
(* The steps that touch the key or the log.                                *)
LEMMA KeyInvMasterKey ==
  ASSUME KeyringAssumption, KeyInv,
         NEW strong \in BOOLEAN, NEW unwraps \in BOOLEAN, MasterKey(strong, unwraps)
  PROVE  KeyInv'
<1>1. CASE Refused(strong, unwraps)
  <2>1. main' = "refused" /\ UNCHANGED <<disk, live, startup, stopping, store>>
    BY <1>1 DEF MasterKey
  <2>2. StoreInv' /\ PhaseInv'
    BY <2>1 DEF KeyInv, StoreInv, PhaseInv, live, MasterKey
  <2> QED BY <2>1, <2>2, KeyInvPhase DEF disk
<1>2. CASE ~Refused(strong, unwraps)
  <2>1. PICK k \in Keys : getOrCreateMasterKey(strong, unwraps, k)
    BY <1>2 DEF MasterKey
  <2>2. /\ main = "key" /\ main' = "store"
        /\ UNCHANGED <<startup, stopping, store>>
    BY <1>2 DEF MasterKey
  <2>3. StoreInv' /\ PhaseInv' <=> masterKey' # NoKey
    BY <2>2 DEF KeyInv, StoreInv, PhaseInv
  <2>4. k # NoKey
    BY KeyringAssumption DEF KeyringAssumption
  <2>5. CASE FirstLaunch(strong)
    <3> DEFINE new == KeyFileIs("os-keyring", k, NoPhrase)
    <3>1. keyFile' = new /\ log' = log /\ masterKey' = k
      BY <2>1, <2>5, Written DEF getOrCreateMasterKey, Holds
    <3>2. log = {}
      BY <2>5 DEF FirstLaunch, KeyInv, RecordsHaveTheirKey
    <3>3. new.state = "ok" /\ new.key = k
      BY DEF KeyFileIs
    <3>4. RecordsHaveTheirKey' /\ FileInv' /\ LiveInv'
      BY <3>1, <3>2, <3>3 DEF RecordsHaveTheirKey, FileInv, LiveInv
    <3> QED BY <3>4, <3>1, <2>3, <2>4 DEF KeyInv
  <2>6. CASE ~FirstLaunch(strong) /\ masterKey = NoKey
    <3>1. UNCHANGED <<keyFile, log>> /\ masterKey' = k /\ k = keyFile.key
      BY <2>1, <2>6 DEF getOrCreateMasterKey, Holds, disk
    <3>2. keyFile.state = "ok"
      BY <1>2, <2>6 DEF Refused, FirstLaunch, KeyInv, FileInv
    <3>3. RecordsHaveTheirKey' /\ FileInv' /\ LiveInv'
      BY <3>1, <3>2 DEF KeyInv, RecordsHaveTheirKey, FileInv, LiveInv
    <3> QED BY <3>1, <3>3, <2>3, <2>4 DEF KeyInv
  <2>7. CASE masterKey # NoKey
    <3>1. UNCHANGED <<keyFile, log, masterKey>>
      BY <2>1, <2>7 DEF getOrCreateMasterKey, FirstLaunch, disk, live
    <3> QED BY <3>1, <2>7, <2>3 DEF KeyInv, RecordsHaveTheirKey, FileInv, LiveInv
  <2> QED BY <2>5, <2>6, <2>7
<1> QED BY <1>1, <1>2

LEMMA KeyInvOpenStore ==
  ASSUME KeyInv, OpenStore
  PROVE  KeyInv'
<1>1. masterKey # NoKey /\ keyFile.state = "ok" /\ keyFile.key = masterKey
  BY DEF KeyInv, OpenStore, StoreInv, LiveInv
<1>2. UNCHANGED <<keyFile, masterKey, startup, stopping>> /\ main = "store"
  BY DEF OpenStore, live
<1>3. main' \in {"load", "refused"} /\ (main' = "refused" => ~store')
  BY DEF OpenStore
<1>4. \A r \in log' : r \in log \/ r = [item |-> 0, key |-> masterKey]
  BY DEF OpenStore
<1>5. \A r \in log' : r.key = keyFile.key
  BY <1>1, <1>4 DEF KeyInv, RecordsHaveTheirKey
<1> QED BY <1>1, <1>2, <1>3, <1>5
        DEF KeyInv, RecordsHaveTheirKey, FileInv, LiveInv, StoreInv, PhaseInv

LEMMA KeyInvIngest ==
  ASSUME KeyInv, NEW ok \in BOOLEAN, Ingest(ok)
  PROVE  KeyInv'
<1>1. UNCHANGED <<keyFile, live, phases>>
  BY DEF Ingest, process, phases
<1>2. CASE ok /\ store
  <2>1. log' = log \cup {[item |-> Head(pending), key |-> masterKey]}
    BY <1>2 DEF Ingest
  <2>2. keyFile.state = "ok" /\ keyFile.key = masterKey
    BY <1>2 DEF KeyInv, StoreInv, LiveInv
  <2>3. RecordsHaveTheirKey'
    BY <2>1, <2>2, <1>1 DEF KeyInv, RecordsHaveTheirKey
  <2> QED BY <2>3, <1>1 DEF KeyInv, FileInv, LiveInv, StoreInv, PhaseInv, live, phases
<1>3. CASE ~(ok /\ store)
  BY <1>1, <1>3, KeyInvIdle DEF Ingest, disk
<1> QED BY <1>2, <1>3

LEMMA Retains ==
  ASSUME enforceRetention
  PROVE  log' \subseteq log
BY DEF enforceRetention

LEMMA KeyInvKill ==
  ASSUME KeyInv, Kill
  PROVE  KeyInv'
<1>1. Ends
  BY DEF Kill
<1>2. CASE UNCHANGED disk
  BY <1>1, <1>2, KeyInvEnds DEF KeyInv, RecordsHaveTheirKey, FileInv, disk
<1>3. CASE FirstLaunch(TRUE) /\ \E k \in Fresh :
             DiesWithin(WriteStages(KeyFileIs("os-keyring", k, NoPhrase), log))
  <2>1. keyFile' = Malformed /\ log' = log
    BY <1>3, Written
  <2>2. log = {}
    BY <1>3 DEF FirstLaunch, KeyInv, RecordsHaveTheirKey
  <2>3. RecordsHaveTheirKey' /\ FileInv'
    BY <2>1, <2>2, KeyFiles DEF RecordsHaveTheirKey, FileInv
  <2> QED BY <1>1, <2>3, KeyInvEnds
<1>4. CASE \E k \in Fresh, strong \in BOOLEAN : DiesWithin(RekeyStages(strong, k))
  <2>1. log' = {} /\ keyFile' \in {keyFile, Absent, Malformed}
    BY <1>4, RekeyForgets DEF Fresh
  <2>2. RecordsHaveTheirKey' /\ FileInv'
    BY <2>1, KeyFiles DEF KeyInv, RecordsHaveTheirKey, FileInv
  <2> QED BY <1>1, <2>2, KeyInvEnds
<1> QED BY <1>2, <1>3, <1>4 DEF Kill

LEMMA KeyInvRekey ==
  ASSUME KeyringAssumption, KeyInv, NEW strong \in BOOLEAN, Rekey(strong)
  PROVE  KeyInv'
<1>1. PICK k \in Keys : rekeyAfterCorruption(strong, k)
  BY DEF Rekey
<1>2. UNCHANGED <<main, startup, stopping, store>> /\ main = "rescue"
  BY DEF Rekey, RescueUnchanged
<1>3. StoreInv' /\ PhaseInv'
  BY <1>2 DEF KeyInv, StoreInv, PhaseInv
<1>4. /\ log' = {}
      /\ keyFile' = IF strong THEN KeyFileIs("os-keyring", k, NoPhrase) ELSE Absent
      /\ masterKey' = IF strong THEN k ELSE NoKey
  BY <1>1, RekeyForgets DEF rekeyAfterCorruption, Holds, lock
<1>5. RecordsHaveTheirKey' /\ FileInv' /\ LiveInv'
  BY <1>4, KeyFiles DEF RecordsHaveTheirKey, FileInv, LiveInv
<1> QED BY <1>3, <1>5 DEF KeyInv

LEMMA KeyInvSetPassphrase ==
  ASSUME KeyringAssumption, KeyInv, SetPassphrase
  PROVE  KeyInv'
<1>1. PICK p \in Phrases, k \in Keys : unlockWithPassphrase(p, k)
  BY DEF SetPassphrase
<1>2. UNCHANGED <<main, startup, stopping, store>> /\ main = "rescue"
  BY DEF SetPassphrase, RescueUnchanged
<1>3. StoreInv' /\ PhaseInv'
  BY <1>2 DEF KeyInv, StoreInv, PhaseInv
<1>4. masterKey' = k
  BY <1>1 DEF unlockWithPassphrase, Holds
<1>5. CASE keyFile.state = "ok" /\ k = keyFile.key /\ UNCHANGED disk
  BY <1>3, <1>4, <1>5 DEF KeyInv, RecordsHaveTheirKey, FileInv, LiveInv, disk
<1>6. CASE /\ keyFile.state = "absent"
           /\ Completes(WriteStages(KeyFileIs("passphrase", k, p), log))
  <2>1. keyFile' = KeyFileIs("passphrase", k, p) /\ log' = log
    BY <1>6, Written
  <2>2. log = {}
    BY <1>6 DEF KeyInv, RecordsHaveTheirKey
  <2>3. RecordsHaveTheirKey' /\ FileInv' /\ LiveInv'
    BY <2>1, <2>2, <1>4, KeyFiles DEF RecordsHaveTheirKey, FileInv, LiveInv
  <2> QED BY <1>3, <2>3 DEF KeyInv
<1> QED BY <1>1, <1>5, <1>6 DEF unlockWithPassphrase

-----------------------------------------------------------------------------
(* The steps of the process that leave the key and the log alone.          *)
LEMMA KeyInvLaunch ==
  ASSUME KeyInv, Launch \/ Compose \/ StartFailed \/ ErrorBoxClosed
                 \/ \E icon \in BOOLEAN : Running(icon)
  PROVE  KeyInv'
<1>1. log' \subseteq log /\ UNCHANGED <<keyFile, live>>
  BY Retains DEF Launch, Compose, StartFailed, ErrorBoxClosed, Running, disk
<1>2. CASE Launch
  <2>1. StoreInv' /\ PhaseInv'
    BY <1>2 DEF Launch, KeyInv, StoreInv, PhaseInv, live
  <2> QED BY <1>1, <2>1, KeyInvPhase
<1>3. CASE Compose
  <2>1. StoreInv' /\ PhaseInv'
    BY <1>3 DEF Compose, KeyInv, StoreInv, PhaseInv, live
  <2> QED BY <1>1, <2>1, KeyInvPhase
<1>4. CASE StartFailed
  <2>1. StoreInv' /\ PhaseInv'
    BY <1>4 DEF StartFailed, KeyInv, StoreInv, PhaseInv, live
  <2> QED BY <1>1, <2>1, KeyInvPhase
<1>5. CASE ErrorBoxClosed
  <2>1. StoreInv' /\ PhaseInv'
    BY <1>5 DEF ErrorBoxClosed, KeyInv, StoreInv, PhaseInv, live
  <2> QED BY <1>1, <2>1, KeyInvPhase
<1>6. CASE \E icon \in BOOLEAN : Running(icon)
  <2>1. StoreInv' /\ PhaseInv'
    BY <1>6 DEF Running, KeyInv, StoreInv, PhaseInv, live
  <2> QED BY <1>1, <2>1, KeyInvPhase
<1> QED BY <1>2, <1>3, <1>4, <1>5, <1>6

LEMMA KeyInvMain ==
  ASSUME KeyringAssumption, KeyInv, Main
  PROVE  KeyInv'
BY KeyInvMasterKey, KeyInvOpenStore, KeyInvLaunch DEF Main

LEMMA KeyInvStart ==
  ASSUME KeyInv, Start
  PROVE  KeyInv'
<1>1. UNCHANGED <<disk, live, main, stopping, store>>
  BY DEF Start, AgentStart, CaptureStart, chooseHotkey, Bind
<1>2. startup # "no"
  BY DEF Start, AgentStart, CaptureStart, chooseHotkey, Bind
<1>3. StoreInv' /\ PhaseInv'
  BY <1>1, <1>2 DEF KeyInv, StoreInv, PhaseInv, live
<1> QED BY <1>1, <1>3, KeyInvPhase DEF disk

LEMMA KeyInvWork ==
  ASSUME KeyInv, Work
  PROVE  KeyInv'
<1>1. CASE Flush \/ \E skipped \in BOOLEAN : Candidate(skipped)
  BY <1>1, KeyInvIdle DEF Flush, Candidate, process, phases
<1>2. CASE \E ok \in BOOLEAN : Ingest(ok)
  BY <1>2, KeyInvIngest
<1>3. CASE \E of \in {"ingest", "limit"} : Sweep(of)
  <2>1. log' \subseteq log /\ UNCHANGED <<keyFile, live, phases>>
    BY <1>3, Retains DEF Sweep, process, phases
  <2>2. StoreInv' /\ PhaseInv'
    BY <2>1 DEF KeyInv, StoreInv, PhaseInv, live, phases
  <2> QED BY <2>1, <2>2, KeyInvPhase
<1> QED BY <1>1, <1>2, <1>3 DEF Work

LEMMA KeyInvStop ==
  ASSUME KeyInv, Stop
  PROVE  KeyInv'
<1>1. CASE BeforeQuit
  <2>1. CASE Registered /\ ~finished
    <3>1. UNCHANGED <<disk, live, main, startup, store>> /\ startup # "no"
      BY <1>1, <2>1 DEF BeforeQuit, Registered
    <3>2. StoreInv' /\ PhaseInv'
      BY <3>1 DEF KeyInv, StoreInv, PhaseInv, live
    <3> QED BY <3>1, <3>2, KeyInvPhase DEF disk
  <2>2. CASE ~(Registered /\ ~finished)
    <3>1. Ends /\ UNCHANGED disk
      BY <1>1, <2>2 DEF BeforeQuit
    <3> QED BY <3>1, KeyInvEnds DEF KeyInv, RecordsHaveTheirKey, FileInv, disk
  <2> QED BY <2>1, <2>2
<1>2. CASE AwaitStartup \/ CaptureStop \/ WhenIdle \/ Drained \/ Finish
           \/ \E ok \in BOOLEAN : Unbind(ok)
  <2>1. UNCHANGED <<disk, live, main, startup, store>> /\ stopping # "no"
    BY <1>2 DEF AwaitStartup, CaptureStop, WhenIdle, Drained, Finish, Unbind, StopStep
  <2>2. StoreInv' /\ PhaseInv'
    BY <2>1 DEF KeyInv, StoreInv, PhaseInv, live
  <2> QED BY <2>1, <2>2, KeyInvPhase DEF disk
<1>3. CASE Disposed
  <2>1. /\ UNCHANGED <<disk, main, startup>> /\ stopping # "no"
        /\ masterKey' = NoKey /\ store' = FALSE
    BY <1>3 DEF Disposed, StopStep, lock, Holds
  <2>2. StoreInv' /\ PhaseInv'
    BY <2>1 DEF KeyInv, StoreInv, PhaseInv
  <2> QED BY <2>1, <2>2 DEF KeyInv, RecordsHaveTheirKey, FileInv, LiveInv, disk
<1> QED BY <1>1, <1>2, <1>3 DEF Stop

LEMMA KeyInvRescue ==
  ASSUME KeyInv, Rescue \/ RescueEnds
  PROVE  KeyInv'
<1>1. CASE Rescue
  <2>1. UNCHANGED <<disk, live, startup, stopping, store>> /\ main = "down" /\ main' = "rescue"
    BY <1>1 DEF Rescue, RescueUnchanged
  <2>2. StoreInv' /\ PhaseInv'
    BY <2>1 DEF KeyInv, StoreInv, PhaseInv
  <2> QED BY <2>1, <2>2, KeyInvPhase DEF disk
<1>2. CASE RescueEnds
  <2>1. /\ UNCHANGED <<disk, startup, stopping, store>> /\ main = "rescue" /\ main' = "down"
        /\ masterKey' = NoKey
    BY <1>2 DEF RescueEnds, RescueUnchanged, lock, Holds
  <2>2. StoreInv' /\ PhaseInv'
    BY <2>1 DEF KeyInv, StoreInv, PhaseInv
  <2> QED BY <2>1, <2>2 DEF KeyInv, RecordsHaveTheirKey, FileInv, LiveInv, disk
<1> QED BY <1>1, <1>2

LEMMA KeyInvNext ==
  ASSUME KeyringAssumption, KeyInv, [Next]_vars
  PROVE  KeyInv'
<1>1. CASE Copy \/ Quit \/ \E n \in Limits, ok \in BOOLEAN : setHistoryLimit(n, ok)
  <2>1. UNCHANGED <<disk, live, phases>>
    BY <1>1 DEF Copy, Quit, setHistoryLimit, process, phases
  <2> QED BY <2>1, KeyInvIdle
<1>2. CASE UNCHANGED vars
  <2>1. UNCHANGED <<disk, live, phases>>
    BY <1>2 DEF vars, process, phases
  <2> QED BY <2>1, KeyInvIdle
<1> QED BY <1>1, <1>2, KeyInvLaunch, KeyInvMain, KeyInvStart, KeyInvWork, KeyInvStop, KeyInvKill,
           KeyInvRescue, KeyInvSetPassphrase, KeyInvRekey DEF Next

(* Whatever is in the log can be read with the key in key.bin, in every    *)
(* state of any number of launches, crashes in the middle of a write and   *)
(* rescues.  (getOrCreateMasterKey, rekeyAfterCorruption,                  *)
(* unlockWithPassphrase and lock, keyring.ts; openStore and ingest.)       *)
THEOREM KeysAreKept == Spec => []RecordsHaveTheirKey
<1>1. KeyInv => RecordsHaveTheirKey
  BY DEF KeyInv
<1> QED BY KeyringAssumption, KeyInvInit, KeyInvNext, <1>1, PTL DEF Spec

-----------------------------------------------------------------------------
(* Where a copy can be.  A process that ends outside the shutdown has not  *)
(* begun to capture, and each stage of stop() leaves a place empty that    *)
(* nothing fills again: so the quit that comes last finds no copy on its   *)
(* way.                                                                    *)

Places == Items(log) \cup gone \cup Held \cup ToSet(reading) \cup ToSet(pending)

Numbered ==
  /\ copies \in Nat /\ held \in Nat
  /\ reading \in Seq(Nat \ {0}) /\ pending \in Seq(Nat \ {0})

Accounted == \A i \in 1 .. copies : i \in Places

(* What the stages of stop() that are over have left.                      *)
StagesInv ==
  /\ startup = "no" => ~capturing /\ held = 0 /\ reading = <<>> /\ pending = <<>>
  /\ stopping \in {"no", "startup"} \/ startup \in {"ok", "err", "thrown"}
  /\ stopping \in {"idle", "ingest", "dispose", "finish", "finished"} => ~capturing /\ held = 0
  /\ stopping \in {"ingest", "dispose", "finish", "finished"} => reading = <<>>
  /\ stopping \in {"dispose", "finish", "finished"} => pending = <<>>
  /\ finished => stopping = "finished"

CopyInv == Numbered /\ Accounted /\ StagesInv

-----------------------------------------------------------------------------
LEMMA Members ==
  ASSUME NEW S, NEW s \in Seq(S)
  PROVE  /\ \A x \in S : Append(s, x) \in Seq(S) /\ ToSet(Append(s, x)) = ToSet(s) \cup {x}
         /\ s # <<>> => /\ Head(s) \in S /\ Tail(s) \in Seq(S)
                        /\ ToSet(s) = {Head(s)} \cup ToSet(Tail(s))
         /\ \A t \in Seq(S) : ToSet(s \o t) = ToSet(s) \cup ToSet(t)
<1>1. ASSUME NEW x \in S
      PROVE  Append(s, x) \in Seq(S) /\ ToSet(Append(s, x)) = ToSet(s) \cup {x}
  <2>1. /\ Append(s, x) \in Seq(S) /\ Len(Append(s, x)) = Len(s) + 1
        /\ Append(s, x)[Len(s) + 1] = x
        /\ \A i \in 1 .. Len(s) : Append(s, x)[i] = s[i]
    OBVIOUS
  <2>2. Len(s) \in Nat /\ DOMAIN s = 1 .. Len(s) /\ DOMAIN Append(s, x) = 1 .. Len(s) + 1
    BY <2>1
  <2>3. ToSet(Append(s, x)) \subseteq ToSet(s) \cup {x}
    BY <2>1, <2>2 DEF ToSet
  <2>4. ToSet(s) \cup {x} \subseteq ToSet(Append(s, x))
    BY <2>1, <2>2 DEF ToSet
  <2> QED BY <2>1, <2>3, <2>4
<1>2. ASSUME s # <<>>
      PROVE  /\ Head(s) \in S /\ Tail(s) \in Seq(S)
             /\ ToSet(s) = {Head(s)} \cup ToSet(Tail(s))
  <2>1. /\ Head(s) = s[1] /\ Head(s) \in S /\ Tail(s) \in Seq(S)
        /\ Len(Tail(s)) = Len(s) - 1 /\ Len(s) >= 1 /\ Len(s) \in Nat
        /\ \A i \in 1 .. Len(s) - 1 : Tail(s)[i] = s[i + 1]
    BY <1>2
  <2>2. DOMAIN s = 1 .. Len(s) /\ DOMAIN Tail(s) = 1 .. Len(s) - 1
    BY <2>1
  <2>3. ASSUME NEW i \in 1 .. Len(s)
        PROVE  s[i] \in {Head(s)} \cup ToSet(Tail(s))
    <3>1. CASE i = 1
      BY <2>1, <3>1
    <3>2. CASE i # 1
      <4>1. i - 1 \in 1 .. Len(s) - 1 /\ Tail(s)[i - 1] = s[i]
        BY <2>1, <3>2
      <4> QED BY <4>1, <2>2 DEF ToSet
    <3> QED BY <3>1, <3>2
  <2>4. {Head(s)} \cup ToSet(Tail(s)) \subseteq ToSet(s)
    BY <2>1, <2>2 DEF ToSet
  <2> QED BY <2>1, <2>2, <2>3, <2>4 DEF ToSet
<1>3. ASSUME NEW t \in Seq(S)
      PROVE  ToSet(s \o t) = ToSet(s) \cup ToSet(t)
  <2>1. /\ Len(s \o t) = Len(s) + Len(t) /\ Len(s) \in Nat /\ Len(t) \in Nat
        /\ \A i \in 1 .. Len(s) + Len(t) :
              (s \o t)[i] = IF i <= Len(s) THEN s[i] ELSE t[i - Len(s)]
    OBVIOUS
  <2>2. DOMAIN s = 1 .. Len(s) /\ DOMAIN t = 1 .. Len(t) /\ DOMAIN (s \o t) = 1 .. Len(s) + Len(t)
    BY <2>1
  <2>3. ASSUME NEW i \in 1 .. Len(t)
        PROVE  t[i] = (s \o t)[i + Len(s)] /\ i + Len(s) \in 1 .. Len(s) + Len(t)
    BY <2>1
  <2>4. ASSUME NEW i \in 1 .. Len(s) + Len(t)
        PROVE  (s \o t)[i] \in ToSet(s) \cup ToSet(t)
    <3>1. CASE i <= Len(s)
      BY <2>1, <2>2, <3>1 DEF ToSet
    <3>2. CASE ~(i <= Len(s))
      <4>1. i - Len(s) \in 1 .. Len(t) /\ (s \o t)[i] = t[i - Len(s)]
        BY <2>1, <3>2
      <4> QED BY <4>1, <2>2 DEF ToSet
    <3> QED BY <3>1, <3>2
  <2>5. ToSet(s) \subseteq ToSet(s \o t)
    BY <2>1, <2>2 DEF ToSet
  <2>6. ToSet(t) \subseteq ToSet(s \o t)
    BY <2>2, <2>3 DEF ToSet
  <2>7. ToSet(s \o t) \subseteq ToSet(s) \cup ToSet(t)
    <3> HIDE DEF ToSet
    <3>1. ToSet(s \o t) = {(s \o t)[i] : i \in 1 .. Len(s) + Len(t)}
      BY <2>2 DEF ToSet
    <3> QED BY <3>1, <2>4
  <2> QED BY <2>5, <2>6, <2>7
<1> QED BY <1>1, <1>2, <1>3

LEMMA Empty == ToSet(<<>>) = {}
BY DEF ToSet

LEMMA CopyInvInit == Init => CopyInv
BY DEF Init, CopyInv, Numbered, Accounted, StagesInv

(* No copy leaves the places.                                              *)
LEMMA CopiesStay ==
  ASSUME CopyInv, copies' = copies, Places \subseteq Places'
  PROVE  Accounted'
BY DEF CopyInv, Accounted

(* A step of the process that neither takes nor loses a copy.              *)
LEMMA CopyInvIdle ==
  ASSUME CopyInv, Items(log) \subseteq Items(log') \cup gone', gone \subseteq gone',
         UNCHANGED <<held, reading, pending, copies>>, StagesInv'
  PROVE  CopyInv'
<1>1. Places \subseteq Places'
  BY DEF Places, Held
<1>2. Numbered'
  BY DEF CopyInv, Numbered
<1> QED BY <1>1, <1>2, CopiesStay DEF CopyInv

(* What a sweep takes from the log is accounted for.                       *)
LEMMA Swept ==
  ASSUME enforceRetention
  PROVE  Items(log) \subseteq Items(log') \cup gone' /\ gone \subseteq gone'
BY DEF enforceRetention, Items, Beyond

(* The end of a process.                                                   *)
LEMMA CopyInvEnds ==
  ASSUME CopyInv, Ends, copies' = copies,
         Places \subseteq Items(log') \cup gone'
  PROVE  CopyInv'
<1>1. Places \subseteq Places'
  BY DEF Places
<1>2. Numbered' /\ StagesInv'
  BY DEF Ends, CopyInv, Numbered, StagesInv
<1> QED BY <1>1, <1>2, CopiesStay DEF CopyInv

LEMMA CopyInvKill ==
  ASSUME CopyInv, Kill
  PROVE  CopyInv'
<1>1. /\ Ends /\ copies' = copies
      /\ gone' = gone \cup Held \cup ToSet(reading \o pending) \cup (Items(log) \ Items(log'))
  BY DEF Kill
<1>2. ToSet(reading \o pending) = ToSet(reading) \cup ToSet(pending)
  BY Members DEF CopyInv, Numbered
<1>3. Places \subseteq Items(log') \cup gone'
  BY <1>1, <1>2 DEF Places
<1> QED BY <1>1, <1>3, CopyInvEnds

LEMMA CopyInvMain ==
  ASSUME KeyInv, CopyInv, Launch \/ Main
  PROVE  CopyInv'
<1>1. UNCHANGED <<held, reading, pending, copies, capturing>>
  BY DEF Launch, Main, MasterKey, OpenStore, Compose, StartFailed, ErrorBoxClosed, Running, queues
<1>2. UNCHANGED <<startup, stopping, finished>> \/ Compose
  BY DEF Launch, Main, MasterKey, OpenStore, StartFailed, ErrorBoxClosed, Running
<1>3. StagesInv'
  <2>1. CASE UNCHANGED <<startup, stopping, finished>>
    BY <1>1, <2>1 DEF CopyInv, StagesInv
  <2>2. CASE Compose
    <3>1. startup = "no" /\ stopping = "no" /\ UNCHANGED <<stopping, finished>>
      BY <2>2 DEF Compose, KeyInv, PhaseInv
    <3> QED BY <1>1, <3>1 DEF CopyInv, StagesInv
  <2> QED BY <1>2, <2>1, <2>2
<1>4. Items(log) \subseteq Items(log') \cup gone' /\ gone \subseteq gone'
  <2>1. CASE Launch \/ StartFailed \/ ErrorBoxClosed \/ \E icon \in BOOLEAN : Running(icon)
    BY <2>1 DEF Launch, StartFailed, ErrorBoxClosed, Running, disk, ghosts
  <2>2. CASE \E strong, unwraps \in BOOLEAN : MasterKey(strong, unwraps)
    <3>1. log' = log
      BY <2>2, Written DEF MasterKey, getOrCreateMasterKey, disk
    <3>2. gone' = gone
      BY <2>2 DEF MasterKey, ghosts
    <3> QED BY <3>1, <3>2
  <2>3. CASE OpenStore
    <3>1. log \subseteq log' /\ gone' = gone
      BY <2>3 DEF OpenStore, ghosts
    <3> QED BY <3>1 DEF Items
  <2>4. CASE Compose
    BY <2>4, Swept DEF Compose
  <2> QED BY <2>1, <2>2, <2>3, <2>4 DEF Main
<1> QED BY <1>1, <1>3, <1>4, CopyInvIdle

LEMMA CopyInvStart ==
  ASSUME CopyInv, Start
  PROVE  CopyInv'
<1>1. UNCHANGED <<log, gone, held, reading, pending, copies, stopping, finished>>
  BY DEF Start, AgentStart, CaptureStart, chooseHotkey, Bind, disk, queues, ghosts
<1>2. startup \in {"agent", "capture", "ask", "bind"} /\ startup' # "no"
  BY DEF Start, AgentStart, CaptureStart, chooseHotkey, Bind
<1>3. StagesInv'
  BY <1>1, <1>2 DEF CopyInv, StagesInv
<1> QED BY <1>1, <1>3, CopyInvIdle

LEMMA CopyInvCopy ==
  ASSUME CopyInv, Copy
  PROVE  CopyInv'
<1>1. /\ capturing /\ copies' = copies + 1 /\ held' = copies + 1 /\ gone' = gone \cup Held
      /\ UNCHANGED <<log, reading, pending, capturing, startup, stopping, finished>>
  BY DEF Copy, disk, process
<1>2. copies \in Nat
  BY DEF CopyInv, Numbered
<1>3. Numbered' /\ StagesInv'
  BY <1>1, <1>2 DEF CopyInv, Numbered, StagesInv
<1>4. Held' = {copies + 1}
  BY <1>1, <1>2 DEF Held
<1>5. Places \cup {copies + 1} \subseteq Places'
  BY <1>1, <1>4 DEF Places
<1>6. \A i \in 1 .. copies' : i \in 1 .. copies \/ i = copies + 1
  BY <1>1, <1>2
<1>7. Accounted'
  BY <1>5, <1>6 DEF CopyInv, Accounted
<1> QED BY <1>3, <1>7 DEF CopyInv

LEMMA CopyInvFlush ==
  ASSUME CopyInv, Flush
  PROVE  CopyInv'
<1>1. /\ held # 0 /\ held' = 0 /\ reading' = Append(reading, held)
      /\ UNCHANGED <<log, gone, pending, copies, capturing, startup, stopping, finished>>
  BY DEF Flush, disk, process, ghosts
<1>2. held \in Nat \ {0} /\ reading \in Seq(Nat \ {0})
  BY <1>1 DEF CopyInv, Numbered
<1>3. reading' \in Seq(Nat \ {0}) /\ ToSet(reading') = ToSet(reading) \cup {held}
  <2>1. \A x \in Nat \ {0} : /\ Append(reading, x) \in Seq(Nat \ {0})
                             /\ ToSet(Append(reading, x)) = ToSet(reading) \cup {x}
    BY <1>2, Members
  <2>2. /\ Append(reading, held) \in Seq(Nat \ {0})
        /\ ToSet(Append(reading, held)) = ToSet(reading) \cup {held}
    <3> HIDE DEF ToSet
    <3> QED BY <2>1, <1>2, Zenon
  <2> QED BY <1>1, <2>2
<1>4. Places \subseteq Places'
  BY <1>1, <1>3 DEF Places, Held
<1>5. Numbered'
  BY <1>1, <1>3 DEF CopyInv, Numbered
<1>6. StagesInv'
  BY <1>1 DEF CopyInv, StagesInv
<1> QED BY <1>1, <1>4, <1>5, <1>6, CopiesStay DEF CopyInv

LEMMA CopyInvCandidate ==
  ASSUME CopyInv, NEW skipped \in BOOLEAN, Candidate(skipped)
  PROVE  CopyInv'
<1>1. /\ reading # <<>> /\ reading' = Tail(reading)
      /\ UNCHANGED <<log, held, copies, capturing, startup, stopping, finished>>
  BY DEF Candidate, disk, process
<1>2. stopping \notin {"ingest", "dispose", "finish", "finished"} /\ startup # "no"
  BY <1>1 DEF CopyInv, StagesInv
<1>3. /\ Head(reading) \in Nat \ {0} /\ reading' \in Seq(Nat \ {0})
      /\ ToSet(reading) = {Head(reading)} \cup ToSet(reading')
  BY <1>1, Members DEF CopyInv, Numbered
<1>4. /\ pending' \in Seq(Nat \ {0}) /\ gone \subseteq gone'
      /\ ToSet(pending) \cup {Head(reading)} \subseteq ToSet(pending') \cup gone'
  <2>1. CASE skipped
    BY <2>1 DEF Candidate, CopyInv, Numbered
  <2>2. CASE ~skipped
    <3>1. pending' = Append(pending, Head(reading)) /\ gone' = gone
      BY <1>2, <2>2 DEF Candidate
    <3>2. pending' \in Seq(Nat \ {0}) /\ ToSet(pending') = ToSet(pending) \cup {Head(reading)}
      BY <1>3, <3>1, Members DEF CopyInv, Numbered
    <3> QED BY <3>1, <3>2
  <2> QED BY <2>1, <2>2
<1>5. Places \subseteq Places'
  BY <1>1, <1>3, <1>4 DEF Places, Held
<1>6. Numbered'
  BY <1>1, <1>3, <1>4 DEF CopyInv, Numbered
<1>7. StagesInv'
  BY <1>1, <1>2 DEF CopyInv, StagesInv
<1> QED BY <1>1, <1>5, <1>6, <1>7, CopiesStay DEF CopyInv

LEMMA CopyInvIngest ==
  ASSUME CopyInv, NEW ok \in BOOLEAN, Ingest(ok)
  PROVE  CopyInv'
<1>1. /\ pending # <<>> /\ pending' = Tail(pending)
      /\ UNCHANGED <<held, reading, copies, capturing, startup, stopping, finished>>
  BY DEF Ingest, process
<1>2. /\ Head(pending) \in Nat \ {0} /\ pending' \in Seq(Nat \ {0})
      /\ ToSet(pending) = {Head(pending)} \cup ToSet(pending')
  BY <1>1, Members DEF CopyInv, Numbered
<1>3. Items(log) \cup gone \cup {Head(pending)} \subseteq Items(log') \cup gone'
  <2>1. CASE ok /\ store
    <3>1. log' = log \cup {[item |-> Head(pending), key |-> masterKey]} /\ gone' = gone
      BY <2>1 DEF Ingest
    <3>2. [item |-> Head(pending), key |-> masterKey].item = Head(pending)
      OBVIOUS
    <3>3. Items(log) \subseteq Items(log') /\ Head(pending) \in Items(log')
      BY <3>1, <3>2, <1>2 DEF Items
    <3> QED BY <3>1, <3>3
  <2>2. CASE ~(ok /\ store)
    BY <2>2 DEF Ingest
  <2> QED BY <2>1, <2>2
<1>4. Places \subseteq Places'
  BY <1>1, <1>2, <1>3 DEF Places, Held
<1>5. Numbered'
  BY <1>1, <1>2 DEF CopyInv, Numbered
<1>6. stopping \notin {"dispose", "finish", "finished"} /\ startup # "no"
  BY <1>1 DEF CopyInv, StagesInv
<1>7. StagesInv'
  BY <1>1, <1>6 DEF CopyInv, StagesInv
<1> QED BY <1>1, <1>4, <1>5, <1>7, CopiesStay DEF CopyInv

LEMMA CopyInvStop ==
  ASSUME CopyInv, Stop
  PROVE  CopyInv'
<1>1. CASE BeforeQuit /\ Registered /\ ~finished
  <2>1. /\ UNCHANGED <<log, gone, queues, copies, startup, finished>>
        /\ stopping' = IF stopping = "no" THEN "startup" ELSE stopping
        /\ startup # "no"
    BY <1>1 DEF BeforeQuit, Registered, disk, ghosts
  <2>2. StagesInv'
    BY <2>1 DEF CopyInv, StagesInv, queues
  <2> QED BY <2>1, <2>2, CopyInvIdle DEF queues
<1>2. CASE BeforeQuit /\ ~(Registered /\ ~finished)
  <2>1. Ends /\ UNCHANGED <<log, gone, copies>>
    BY <1>2 DEF BeforeQuit, disk, ghosts
  <2>2. held = 0 /\ reading = <<>> /\ pending = <<>>
    BY <1>2 DEF Registered, CopyInv, StagesInv
  <2>3. Places \subseteq Items(log') \cup gone'
    BY <2>1, <2>2, Empty DEF Places, Held
  <2> QED BY <2>1, <2>3, CopyInvEnds
<1>3. CASE CaptureStop
  <2>1. /\ held' = 0 /\ gone' = gone \cup Held /\ ~capturing'
        /\ UNCHANGED <<log, reading, pending, copies, startup, finished>>
        /\ stopping = "capture" /\ stopping' = "idle"
    BY <1>3 DEF CaptureStop, StopStep, disk
  <2>2. Places \subseteq Places'
    BY <2>1 DEF Places
  <2>3. Numbered'
    BY <2>1 DEF CopyInv, Numbered
  <2>4. StagesInv'
    BY <2>1 DEF CopyInv, StagesInv
  <2> QED BY <2>1, <2>2, <2>3, <2>4, CopiesStay DEF CopyInv
<1>4. CASE AwaitStartup \/ WhenIdle \/ Drained \/ Disposed \/ Finish
           \/ \E ok \in BOOLEAN : Unbind(ok)
  <2>1. UNCHANGED <<log, gone, held, reading, pending, copies, startup>>
    BY <1>4 DEF AwaitStartup, WhenIdle, Drained, Disposed, Finish, Unbind, StopStep, disk
  <2>2. CASE AwaitStartup \/ \E ok \in BOOLEAN : Unbind(ok)
    <3>1. /\ UNCHANGED <<capturing, finished>>
          /\ stopping' \in {"unbind", "capture"} /\ stopping \in {"startup", "unbind"}
      BY <2>2 DEF AwaitStartup, Unbind, StopStep
    <3>2. startup \in {"ok", "err", "thrown"}
      BY <2>2, <3>1 DEF AwaitStartup, Unbind, StopStep, CopyInv, StagesInv
    <3>3. StagesInv'
      BY <2>1, <3>1, <3>2 DEF CopyInv, StagesInv
    <3> QED BY <2>1, <3>3, CopyInvIdle
  <2>3. CASE WhenIdle
    <3>1. /\ reading = <<>> /\ UNCHANGED <<capturing, finished>>
          /\ stopping = "idle" /\ stopping' = "ingest"
      BY <2>3 DEF WhenIdle, StopStep
    <3>2. StagesInv'
      BY <2>1, <3>1 DEF CopyInv, StagesInv
    <3> QED BY <2>1, <3>2, CopyInvIdle
  <2>4. CASE Drained
    <3>1. /\ pending = <<>> /\ UNCHANGED <<capturing, finished>>
          /\ stopping = "ingest" /\ stopping' = "dispose"
      BY <2>4 DEF Drained, StopStep
    <3>2. StagesInv'
      BY <2>1, <3>1 DEF CopyInv, StagesInv
    <3> QED BY <2>1, <3>2, CopyInvIdle
  <2>5. CASE Disposed
    <3>1. UNCHANGED <<capturing, finished>> /\ stopping = "dispose" /\ stopping' = "finish"
      BY <2>5 DEF Disposed, StopStep
    <3>2. StagesInv'
      BY <2>1, <3>1 DEF CopyInv, StagesInv
    <3> QED BY <2>1, <3>2, CopyInvIdle
  <2>6. CASE Finish
    <3>1. capturing' = capturing /\ stopping = "finish" /\ stopping' = "finished"
      BY <2>6 DEF Finish, StopStep
    <3>2. StagesInv'
      BY <2>1, <3>1 DEF CopyInv, StagesInv
    <3> QED BY <2>1, <3>2, CopyInvIdle
  <2> QED BY <1>4, <2>2, <2>3, <2>4, <2>5, <2>6
<1> QED BY <1>1, <1>2, <1>3, <1>4 DEF Stop

LEMMA CopyInvRescue ==
  ASSUME CopyInv, Rescue \/ RescueEnds \/ SetPassphrase \/ \E strong \in BOOLEAN : Rekey(strong)
  PROVE  CopyInv'
<1>1. RescueUnchanged
  BY DEF Rescue, RescueEnds, SetPassphrase, Rekey
<1>2. UNCHANGED <<held, reading, pending, copies, capturing, startup, stopping, finished>>
  BY <1>1 DEF RescueUnchanged, queues
<1>3. StagesInv'
  BY <1>2 DEF CopyInv, StagesInv
<1>4. Items(log) \subseteq Items(log') \cup gone' /\ gone \subseteq gone'
  <2>1. CASE Rescue \/ RescueEnds
    BY <2>1 DEF Rescue, RescueEnds, disk
  <2>2. CASE SetPassphrase
    <3>1. log' = log
      BY <2>2, Written DEF SetPassphrase, unlockWithPassphrase, disk
    <3>2. gone' = gone
      BY <2>2 DEF SetPassphrase
    <3> QED BY <3>1, <3>2
  <2>3. CASE \E strong \in BOOLEAN : Rekey(strong)
    BY <2>3 DEF Rekey
  <2> QED BY <2>1, <2>2, <2>3
<1> QED BY <1>2, <1>3, <1>4, CopyInvIdle

LEMMA CopyInvNext ==
  ASSUME KeyInv, CopyInv, [Next]_vars
  PROVE  CopyInv'
<1>1. CASE Quit \/ (\E n \in Limits, ok \in BOOLEAN : setHistoryLimit(n, ok)) \/ UNCHANGED vars
  <2>1. UNCHANGED <<log, gone, held, reading, pending, copies, capturing, startup, stopping, finished>>
    BY <1>1 DEF Quit, setHistoryLimit, vars, disk, process, queues, ghosts
  <2>2. StagesInv'
    BY <2>1 DEF CopyInv, StagesInv
  <2> QED BY <2>1, <2>2, CopyInvIdle
<1>2. CASE \E of \in {"ingest", "limit"} : Sweep(of)
  <2>1. /\ enforceRetention
        /\ UNCHANGED <<held, reading, pending, copies, capturing, startup, stopping, finished>>
    BY <1>2 DEF Sweep, process
  <2>2. StagesInv'
    BY <2>1 DEF CopyInv, StagesInv
  <2> QED BY <2>1, <2>2, Swept, CopyInvIdle
<1>3. CASE Work
  BY <1>2, <1>3, CopyInvFlush, CopyInvCandidate, CopyInvIngest DEF Work
<1> QED BY <1>1, <1>3, CopyInvMain, CopyInvStart, CopyInvStop, CopyInvKill, CopyInvCopy,
           CopyInvRescue DEF Next

(* When the application has quit in its own time, every copy that reached  *)
(* capture is in the log, unless it was replaced in the debounce window or *)
(* still in it when capture stopped, was skipped by the rules, could not   *)
(* be written, was swept, or was lost to a crash or a rescue.  (stop and   *)
(* pendingIngest, wiring.ts; createCapture, capture.ts; registerShutdown,  *)
(* shutdown.ts.)                                                           *)
THEOREM QuitsLoseNoCopy == Spec => []CopiesOutliveQuit
<1>1. CopyInv => CopiesOutliveQuit
  BY Empty DEF CopyInv, Accounted, Places, Held, StagesInv, CopiesOutliveQuit
<1> QED BY KeyringAssumption, KeyInvInit, KeyInvNext, CopyInvInit, CopyInvNext, <1>1, PTL DEF Spec

-----------------------------------------------------------------------------
(* What the user chose last is in config.json and in the history; what the *)
(* process holds as its configuration may be a choice that was not saved,  *)
(* but never before the first-run dialog has had its answer saved.         *)
Configs == [limit : Limits, asked : BOOLEAN]

ConfigTypes == config \in Configs /\ (file.state = "ok" => file.config \in Configs)

LimitInv == tray \/ limit # config.limit => startup = "ok"

Chosen ==
  ~cut => /\ LoadedConfig = chosen
          /\ main \notin {"down", "rescue"} => limit = chosen.limit

ChoiceInv == ConfigTypes /\ LimitInv /\ Chosen

(* A step that leaves the configuration.                                   *)
LEMMA ChoiceIdle ==
  ASSUME ChoiceInv, UNCHANGED <<file, config, limit, chosen, cut>>,
         main \in {"down", "rescue"} => main' \in {"down", "rescue"},
         tray' => tray \/ startup = "ok",
         startup' # startup => startup # "ok" /\ ~tray'
  PROVE  ChoiceInv'
BY DEF ChoiceInv, ConfigTypes, LimitInv, Chosen, LoadedConfig

LEMMA ChoiceSaved ==
  ASSUME config' \in Configs, saveConfig(config') \/ saveConfigFails(config'), ChoiceInv
  PROVE  /\ ConfigTypes'
         /\ saveConfig(config') /\ limit' = config'.limit => Chosen'
         /\ saveConfigFails(config') /\ UNCHANGED <<limit, main>> => Chosen'
<1>1. saveConfig(config') => ConfigTypes'
  BY DEF saveConfig, ConfigTypes
<1>2. ASSUME saveConfigFails(config')
      PROVE  ConfigTypes' /\ (UNCHANGED <<limit, main>> => Chosen')
  BY <1>2 DEF saveConfigFails, CutConfig, ChoiceInv, ConfigTypes, Chosen, LoadedConfig
<1>3. ASSUME saveConfig(config')
      PROVE  limit' = config'.limit => Chosen'
  BY <1>3 DEF saveConfig, Chosen, LoadedConfig
<1> QED BY <1>1, <1>2, <1>3

LEMMA DefaultConfig == AppAssumption => Default \in Configs /\ Default.limit = DefaultLimit
BY DEF AppAssumption, Default, Configs

LEMMA ChoiceInvInit == AppAssumption /\ Init => ChoiceInv
BY DefaultConfig DEF Init, ChoiceInv, ConfigTypes, LimitInv, Chosen, LoadedConfig

LEMMA ChoiceInvEnds ==
  ASSUME AppAssumption, ChoiceInv, Ends, UNCHANGED <<file, chosen, cut>> \/ CutConfig
  PROVE  ChoiceInv'
<1>1. /\ main' = "down" /\ config' = Default /\ limit' = Default.limit /\ ~tray'
  BY DefaultConfig DEF Ends
<1>2. ConfigTypes'
  BY <1>1, DefaultConfig DEF ChoiceInv, ConfigTypes, CutConfig
<1>3. Chosen'
  BY <1>1 DEF ChoiceInv, Chosen, LoadedConfig, CutConfig
<1> QED BY <1>1, <1>2, <1>3 DEF ChoiceInv, LimitInv

LEMMA ChoiceInvHotkey ==
  ASSUME ChoiceInv, NEW ok \in BOOLEAN, chooseHotkey(ok)
  PROVE  ChoiceInv'
<1>1. /\ config' = [config EXCEPT !.asked = TRUE] /\ startup = "ask"
      /\ UNCHANGED <<main, limit, tray>>
      /\ IF ok THEN saveConfig(config') ELSE saveConfigFails(config')
  BY DEF chooseHotkey
<1>2. config \in Configs /\ ~tray /\ limit = config.limit
  BY <1>1 DEF ChoiceInv, ConfigTypes, LimitInv
<1>3. config' \in Configs /\ config'.limit = limit'
  BY <1>1, <1>2 DEF Configs
<1> QED BY <1>1, <1>2, <1>3, ChoiceSaved DEF ChoiceInv, LimitInv

LEMMA ChoiceInvLimit ==
  ASSUME ChoiceInv, NEW n \in Limits, NEW ok \in BOOLEAN, setHistoryLimit(n, ok)
  PROVE  ChoiceInv'
<1>1. /\ config' = [config EXCEPT !.limit = n] /\ tray
      /\ UNCHANGED <<main, startup, tray>>
      /\ IF ok THEN saveConfig(config') /\ limit' = n
         ELSE saveConfigFails(config') /\ limit' = limit
  BY DEF setHistoryLimit
<1>2. config \in Configs /\ startup = "ok"
  BY <1>1 DEF ChoiceInv, ConfigTypes, LimitInv
<1>3. config' \in Configs /\ config'.limit = n
  BY <1>1, <1>2 DEF Configs
<1> QED BY <1>1, <1>2, <1>3, ChoiceSaved DEF ChoiceInv, LimitInv

LEMMA ChoiceInvNext ==
  ASSUME AppAssumption, KeyInv, ChoiceInv, [Next]_vars
  PROVE  ChoiceInv'
<1>1. CASE Launch
  <2>1. /\ config' = LoadedConfig /\ limit' = LoadedConfig.limit
        /\ UNCHANGED <<file, chosen, cut, tray, startup>>
    BY <1>1 DEF Launch, ghosts
  <2>2. ConfigTypes'
    BY <2>1, DefaultConfig DEF ChoiceInv, ConfigTypes, LoadedConfig
  <2>3. LimitInv' /\ Chosen'
    BY <2>1 DEF ChoiceInv, LimitInv, Chosen, LoadedConfig
  <2> QED BY <2>2, <2>3 DEF ChoiceInv
<1>2. CASE Main
  <2>1. UNCHANGED <<file, config, limit, chosen, cut>> /\ main \notin {"down", "rescue"}
    BY <1>2 DEF Main, MasterKey, OpenStore, Compose, StartFailed, ErrorBoxClosed, Running, ghosts
  <2>2. CASE Compose
    <3>1. startup = "no" /\ tray' = tray
      BY <2>2 DEF Compose, KeyInv, PhaseInv
    <3> QED BY <2>1, <3>1, ChoiceIdle DEF ChoiceInv, LimitInv
  <2>3. CASE \E icon \in BOOLEAN : Running(icon)
    <3>1. startup' = startup /\ startup = "ok"
      BY <2>3 DEF Running
    <3> QED BY <2>1, <3>1, ChoiceIdle
  <2>4. CASE ~Compose /\ ~\E icon \in BOOLEAN : Running(icon)
    <3>1. startup' = startup /\ tray' = tray
      BY <1>2, <2>4 DEF Main, MasterKey, OpenStore, StartFailed, ErrorBoxClosed
    <3> QED BY <2>1, <3>1, ChoiceIdle
  <2> QED BY <2>2, <2>3, <2>4
<1>3. CASE Start
  <2>1. CASE \E ok \in BOOLEAN : chooseHotkey(ok)
    BY <2>1, ChoiceInvHotkey
  <2>2. CASE ~\E ok \in BOOLEAN : chooseHotkey(ok)
    <3>1. UNCHANGED <<file, config, limit, chosen, cut, main, tray>> /\ startup # "ok"
      BY <1>3, <2>2 DEF Start, AgentStart, CaptureStart, Bind, ghosts
    <3> QED BY <3>1, ChoiceIdle DEF ChoiceInv, LimitInv
  <2> QED BY <2>1, <2>2
<1>4. CASE Work \/ Copy
  <2>1. UNCHANGED <<file, config, limit, chosen, cut, main, tray, startup>>
    BY <1>4 DEF Work, Copy, Flush, Candidate, Ingest, Sweep, process, ghosts
  <2> QED BY <2>1, ChoiceIdle
<1>5. CASE BeforeQuit
  <2>1. UNCHANGED <<file, chosen, cut>>
    BY <1>5 DEF BeforeQuit, ghosts
  <2>2. CASE Ends
    BY <2>1, <2>2, ChoiceInvEnds
  <2>3. CASE ~Ends
    <3>1. UNCHANGED <<config, limit, main, startup>> /\ ~tray'
      BY <1>5, <2>3 DEF BeforeQuit
    <3> QED BY <2>1, <3>1, ChoiceIdle
  <2> QED BY <2>2, <2>3
<1>6. CASE Stop /\ ~BeforeQuit
  <2>1. UNCHANGED <<file, config, limit, chosen, cut, main, tray, startup>>
    BY <1>6 DEF Stop, AwaitStartup, WhenIdle, Drained, Disposed, CaptureStop, Finish, Unbind, StopStep
  <2> QED BY <2>1, ChoiceIdle
<1>7. CASE Kill
  <2>1. Ends /\ (UNCHANGED <<file, chosen, cut>> \/ (CutConfig /\ UNCHANGED chosen))
    BY <1>7 DEF Kill
  <2> QED BY <2>1, ChoiceInvEnds
<1>8. CASE \E n \in Limits, ok \in BOOLEAN : setHistoryLimit(n, ok)
  BY <1>8, ChoiceInvLimit
<1>9. CASE Quit \/ UNCHANGED vars
  <2>1. UNCHANGED <<file, config, limit, chosen, cut, main, tray, startup>>
    BY <1>9 DEF Quit, vars, process, ghosts
  <2> QED BY <2>1, ChoiceIdle
<1>10. CASE Rescue \/ RescueEnds \/ SetPassphrase \/ \E strong \in BOOLEAN : Rekey(strong)
  <2>1. /\ UNCHANGED <<file, config, limit, chosen, cut, tray, startup>>
        /\ main \in {"down", "rescue"} /\ main' \in {"down", "rescue"}
    BY <1>10 DEF Rescue, RescueEnds, SetPassphrase, Rekey, RescueUnchanged
  <2> QED BY <2>1, ChoiceIdle
<1> QED BY <1>1, <1>2, <1>3, <1>4, <1>5, <1>6, <1>7, <1>8, <1>9, <1>10 DEF Next

(* Only a sweep, which keeps to the limit of the process, and a rescue     *)
(* take copies from the log.                                               *)
LEMMA OnlySweeps ==
  ASSUME KeyInv, [Next]_vars
  PROVE  \/ Items(log) \subseteq Items(log')
         \/ main = "rescue"
         \/ main \notin {"down", "rescue"} /\ enforceRetention
<1>1. CASE Launch \/ Start \/ Copy \/ Quit \/ Stop \/ Rescue \/ RescueEnds \/ UNCHANGED vars
           \/ \E n \in Limits, ok \in BOOLEAN : setHistoryLimit(n, ok)
  <2>1. CASE Launch \/ Start \/ Copy \/ Quit \/ Rescue \/ RescueEnds \/ UNCHANGED vars
             \/ \E n \in Limits, ok \in BOOLEAN : setHistoryLimit(n, ok)
    BY <2>1 DEF Launch, Start, AgentStart, CaptureStart, chooseHotkey, Bind, Copy, Quit, Rescue,
                RescueEnds, vars, setHistoryLimit, disk
  <2>2. CASE Stop
    BY <2>2 DEF Stop, BeforeQuit, AwaitStartup, WhenIdle, Drained, Disposed, CaptureStop, Finish,
                Unbind, StopStep, disk
  <2> QED BY <1>1, <2>1, <2>2
<1>2. CASE Main
  <2>1. CASE \E strong, unwraps \in BOOLEAN : MasterKey(strong, unwraps)
    <3>1. log' = log
      BY <2>1, Written DEF MasterKey, getOrCreateMasterKey, disk
    <3> QED BY <3>1
  <2>2. CASE OpenStore
    <3>1. log \subseteq log'
      BY <2>2 DEF OpenStore
    <3> QED BY <3>1 DEF Items
  <2>3. CASE Compose
    BY <2>3 DEF Compose
  <2>4. CASE StartFailed \/ ErrorBoxClosed \/ \E icon \in BOOLEAN : Running(icon)
    BY <2>4 DEF StartFailed, ErrorBoxClosed, Running, disk
  <2> QED BY <1>2, <2>1, <2>2, <2>3, <2>4 DEF Main
<1>3. CASE Work
  <2>1. CASE Flush \/ \E skipped \in BOOLEAN : Candidate(skipped)
    BY <2>1 DEF Flush, Candidate, disk
  <2>2. CASE \E ok \in BOOLEAN : Ingest(ok)
    <3>1. log \subseteq log'
      BY <2>2 DEF Ingest
    <3> QED BY <3>1 DEF Items
  <2>3. CASE \E of \in {"ingest", "limit"} : Sweep(of)
    <3>1. enforceRetention
      BY <2>3 DEF Sweep
    <3>2. CASE store
      BY <3>1, <3>2 DEF KeyInv, PhaseInv
    <3>3. CASE ~store
      BY <3>1, <3>3 DEF enforceRetention
    <3> QED BY <3>2, <3>3
  <2> QED BY <1>3, <2>1, <2>2, <2>3 DEF Work
<1>4. CASE Kill
  <2>1. CASE UNCHANGED disk
    BY <2>1 DEF disk
  <2>2. CASE \E k \in Fresh : DiesWithin(WriteStages(KeyFileIs("os-keyring", k, NoPhrase), log))
    <3>1. log' = log
      BY <2>2, Written
    <3> QED BY <3>1
  <2>3. CASE main = "rescue"
    BY <2>3
  <2> QED BY <1>4, <2>1, <2>2, <2>3 DEF Kill
<1>5. CASE SetPassphrase \/ \E strong \in BOOLEAN : Rekey(strong)
  BY <1>5 DEF SetPassphrase, Rekey
<1> QED BY <1>1, <1>2, <1>3, <1>4, <1>5 DEF Next

(* A copy leaves the log only when as many newer ones are kept as the user *)
(* asked for last, in this launch or an earlier one, unless the last write *)
(* of config.json was cut short or failed, or the log was given up in a    *)
(* rescue.  (saveConfig and loadConfig, config.ts; enforceRetention,       *)
(* setHistoryLimit, wiring.ts.)                                            *)
THEOREM SweepsFollowTheChoice == Spec => SweepsAsChosen
<1> DEFINE Follows == \A i \in Items(log) \ Items(log') :
                        \/ main = "rescue" \/ cut
                        \/ Cardinality({j \in Items(log) : j > i}) >= chosen.limit
<1>1. ASSUME KeyInv, ChoiceInv, [Next]_vars
      PROVE  [Follows]_vars
  <2>1. CASE main \notin {"down", "rescue"} /\ enforceRetention
    <3>1. ASSUME NEW i \in Items(log) \ Items(log'), ~cut
          PROVE  Cardinality({j \in Items(log) : j > i}) >= chosen.limit
      <4>1. limit = chosen.limit
        BY <1>1, <2>1, <3>1 DEF ChoiceInv, Chosen
      <4>2. i \in Beyond(log, limit)
        BY <2>1, <3>1 DEF enforceRetention, Items
      <4> QED BY <4>1, <4>2 DEF Beyond
    <3> QED BY <3>1
  <2>2. CASE Items(log) \subseteq Items(log') \/ main = "rescue"
    BY <2>2
  <2> QED BY <1>1, <2>1, <2>2, OnlySweeps
<1>2. KeyInv /\ ChoiceInv /\ [Next]_vars => [Follows]_vars
  BY <1>1
<1> QED BY KeyringAssumption, AppAssumption, KeyInvInit, KeyInvNext, ChoiceInvInit, ChoiceInvNext,
           <1>2, PTL DEF Spec, SweepsAsChosen

-----------------------------------------------------------------------------
(* Opening: the window shows its own rows, and an eviction reaches the     *)
(* renderer, whatever is on its way.                                       *)

-----------------------------------------------------------------------------
(* Types.                                                                  *)
Calls ==
  [kind : {"list"}, live : BOOLEAN, first : BOOLEAN, stamp : Nat]
    \cup [kind : {"ready"}, stamp : Nat \ {0}] \cup [kind : {"close", "copy"}]

Messages ==
  [kind : {"list"}, live : BOOLEAN, first : BOOLEAN, stamp : Nat, rows : {"blank", "full"}]
    \cup [kind : {"shown"}, stamp : Nat \ {0}] \cup [kind : {"hidden", "changed"}]

OpeningTypes ==
  /\ opening \in Nat /\ stamp \in Nat
  /\ win \in [shown : BOOLEAN, presented : BOOLEAN, awaiting : Nat]
  /\ evicted \in BOOLEAN /\ load \in {"idle", "running", "overtaken"}
  /\ waiting \subseteq [opening : Nat, stamp : Nat]
  /\ asked \in Seq(Calls) /\ inbox \in Seq(Messages)
  /\ page \in [mounted : BOOLEAN, active : BOOLEAN, current : Nat,
               rows : {"none", "blank", "full"}, of : Nat]

-----------------------------------------------------------------------------
(* The inductive invariant.                                                *)
Announced == win.awaiting # 0 \/ win.presented

(* The latest opening on its way to the renderer, and what comes of it.    *)
Announces(k) == inbox[k].kind = "shown" /\ inbox[k].stamp = stamp
OpensOrHides(k) == inbox[k].kind \in {"shown", "hidden"}
Live(m) == m.kind = "list" /\ m.live
Acknowledged == \E k \in DOMAIN asked : asked[k].kind = "ready" /\ asked[k].stamp = stamp
NotYetHeard == page.current # stamp /\ ~Acknowledged
Quiet ==
  /\ page.current = 0 /\ ~page.active /\ page.rows = "none"
  /\ \A k \in DOMAIN asked : ~Live(asked[k])
  /\ \A k \in DOMAIN inbox : ~Live(inbox[k])

WindowInv ==
  /\ win.awaiting # 0 => win.awaiting = stamp /\ win.shown /\ ~win.presented
  /\ win.presented => win.shown /\ stamp # 0

StampInv ==
  /\ page.current <= stamp
  /\ \A k \in DOMAIN inbox : inbox[k].kind = "shown" => inbox[k].stamp <= stamp
  /\ \A k \in DOMAIN asked : asked[k].kind = "ready" => asked[k].stamp <= stamp

RowsInv ==
  /\ page.rows # "none" => page.of = page.current
  /\ \A k \in DOMAIN asked : Live(asked[k]) => asked[k].stamp = page.current
  /\ \A k \in DOMAIN inbox : Live(inbox[k]) => inbox[k].stamp = page.current

WaitingInv ==
  \A w \in waiting :
    /\ w.opening <= opening
    /\ w.opening = opening =>
         /\ w.stamp = stamp /\ stamp # 0 /\ ~Announced /\ NotYetHeard
         /\ \A k \in DOMAIN inbox : ~Announces(k)

OnceInv ==
  \A k \in DOMAIN inbox : Announces(k) =>
    /\ NotYetHeard
    /\ \A j \in DOMAIN inbox : Announces(j) => j = k

AwaitingInv ==
  win.awaiting # 0 =>
    /\ \A k \in DOMAIN inbox : OpensOrHides(k) => \E j \in DOMAIN inbox : j >= k /\ Announces(j)
    /\ Acknowledged => page.current = stamp

PresentedInv ==
  win.presented =>
    /\ \A k \in DOMAIN inbox : ~OpensOrHides(k)
    /\ page.current = stamp \/ Quiet

ExcusedInv ==
  Announced =>
    /\ evicted => stamp \in excused
    /\ \A k \in DOMAIN inbox :
         Live(inbox[k]) /\ inbox[k].stamp = stamp /\ inbox[k].rows = "blank" => stamp \in excused
    /\ page.current = stamp /\ page.rows = "blank" => stamp \in excused

MountInv ==
  ~page.mounted =>
    /\ page.current = 0 /\ page.active /\ page.rows = "none" /\ asked = <<>>
    /\ \A k \in DOMAIN inbox : inbox[k].kind # "list"

EvictedInv ==
  evicted =>
    /\ page.rows = "full" => \E k \in DOMAIN inbox : inbox[k].kind = "hidden"
    /\ \A k \in DOMAIN inbox :
         Live(inbox[k]) /\ inbox[k].rows = "full" =>
           \E j \in DOMAIN inbox : j > k /\ inbox[j].kind = "hidden"

OpeningInv ==
  /\ OpeningTypes /\ WindowInv /\ StampInv /\ RowsInv /\ WaitingInv /\ OnceInv
  /\ AwaitingInv /\ PresentedInv /\ ExcusedInv /\ MountInv /\ EvictedInv
-----------------------------------------------------------------------------
(* Queues.                                                                 *)
Queue(q) == Len(q) \in Nat /\ DOMAIN q = 1 .. Len(q)

LEMMA AppendIs ==
  ASSUME NEW S, NEW s \in Seq(S), NEW x \in S
  PROVE  LET q == Append(s, x)
         IN  /\ q \in Seq(S) /\ Queue(s) /\ Queue(q) /\ Len(q) = Len(s) + 1
             /\ \A k \in 1 .. Len(s) : q[k] = s[k]
             /\ q[Len(s) + 1] = x
  BY DEF Queue

LEMMA TailIs ==
  ASSUME NEW S, NEW s \in Seq(S), s # <<>>
  PROVE  LET q == Tail(s)
         IN  /\ q \in Seq(S) /\ Queue(s) /\ Queue(q) /\ Len(s) = Len(q) + 1
             /\ Head(s) = s[1] /\ Head(s) \in S /\ 1 \in DOMAIN s
             /\ \A k \in 1 .. Len(q) : k + 1 \in DOMAIN s /\ q[k] = s[k + 1]
  BY DEF Queue

LEMMA MessageKinds ==
  ASSUME NEW m \in Messages
  PROVE  /\ m.kind \in {"list", "shown", "hidden", "changed"}
         /\ m.kind = "shown" => m.stamp \in Nat /\ m.stamp # 0
         /\ m.kind = "list" =>
              /\ m.live \in BOOLEAN /\ m.first \in BOOLEAN /\ m.stamp \in Nat
              /\ m.rows \in {"blank", "full"}
  BY DEF Messages

LEMMA CallKinds ==
  ASSUME NEW c \in Calls
  PROVE  /\ c.kind \in {"list", "ready", "close", "copy"}
         /\ c.kind = "ready" => c.stamp \in Nat /\ c.stamp # 0
         /\ c.kind = "list" => c.live \in BOOLEAN /\ c.first \in BOOLEAN /\ c.stamp \in Nat
  BY DEF Calls

(* What is on its way stays, but the lists lose their readers.             *)
LEMMA OutdatedIs ==
  ASSUME NEW s, s \in Seq(Messages) \/ s \in Seq(Calls)
  PROVE  /\ s \in Seq(Messages) => Outdated(s) \in Seq(Messages)
         /\ s \in Seq(Calls) => Outdated(s) \in Seq(Calls)
         /\ Queue(s) /\ Queue(Outdated(s)) /\ Len(Outdated(s)) = Len(s)
         /\ \A k \in 1 .. Len(s) :
              /\ ~Live(Outdated(s)[k]) /\ Outdated(s)[k].kind = s[k].kind
              /\ s[k].kind # "list" => Outdated(s)[k] = s[k]
<1>1. Queue(s)
  BY DEF Queue
<1>2. /\ DOMAIN Outdated(s) = 1 .. Len(s)
      /\ \A k \in 1 .. Len(s) :
           Outdated(s)[k] = IF s[k].kind = "list" THEN [s[k] EXCEPT !.live = FALSE] ELSE s[k]
  BY <1>1 DEF Outdated, Queue
<1>3. \A k \in 1 .. Len(s) : s[k] \in Messages \/ s[k] \in Calls
  BY <1>1 DEF Queue
<1>4. ASSUME NEW k \in 1 .. Len(s)
      PROVE  /\ ~Live(Outdated(s)[k]) /\ Outdated(s)[k].kind = s[k].kind
             /\ s[k].kind # "list" => Outdated(s)[k] = s[k]
             /\ s[k] \in Messages => Outdated(s)[k] \in Messages
             /\ s[k] \in Calls => Outdated(s)[k] \in Calls
  <2> DEFINE m == s[k]
             o == Outdated(s)[k]
  <2>1. o = IF m.kind = "list" THEN [m EXCEPT !.live = FALSE] ELSE m
    BY <1>2
  <2>2. m \in Messages \/ m \in Calls
    BY <1>3
  <2> HIDE DEF m, o
  <2>3. ASSUME m.kind = "list", m \in Messages
        PROVE  o \in Messages /\ ~Live(o) /\ o.kind = "list"
    <3>1. m \in [kind : {"list"}, live : BOOLEAN, first : BOOLEAN, stamp : Nat, rows : {"blank", "full"}]
      BY <2>3 DEF Messages
    <3>2. o = [m EXCEPT !.live = FALSE]
      BY <2>1, <2>3
    <3>3. /\ o \in [kind : {"list"}, live : BOOLEAN, first : BOOLEAN, stamp : Nat, rows : {"blank", "full"}]
          /\ o.live = FALSE /\ o.kind = "list"
      BY <3>1, <3>2
    <3> QED BY <3>3 DEF Live, Messages
  <2>4. ASSUME m.kind = "list", m \in Calls
        PROVE  o \in Calls /\ ~Live(o) /\ o.kind = "list"
    <3>1. m \in [kind : {"list"}, live : BOOLEAN, first : BOOLEAN, stamp : Nat]
      BY <2>4 DEF Calls
    <3>2. o = [m EXCEPT !.live = FALSE]
      BY <2>1, <2>4
    <3>3. /\ o \in [kind : {"list"}, live : BOOLEAN, first : BOOLEAN, stamp : Nat]
          /\ o.live = FALSE /\ o.kind = "list"
      BY <3>1, <3>2
    <3> QED BY <3>3 DEF Live, Calls
  <2>5. CASE m.kind # "list"
    BY <2>1, <2>5 DEF Live, m, o
  <2>6. CASE m.kind = "list"
    BY <2>2, <2>3, <2>4, <2>6 DEF m, o
  <2> QED BY <2>5, <2>6
<1> HIDE DEF Outdated
<1>5. Queue(Outdated(s)) /\ Len(Outdated(s)) = Len(s)
  BY <1>1, <1>2 DEF Queue
<1>6. s \in Seq(Messages) => Outdated(s) \in Seq(Messages)
  <2> SUFFICES ASSUME s \in Seq(Messages)
               PROVE  Outdated(s) \in Seq(Messages)
    OBVIOUS
  <2>1. \A k \in 1 .. Len(s) : s[k] \in Messages
    OBVIOUS
  <2> QED BY <1>2, <1>4, <1>5, <2>1 DEF Queue, Outdated
<1>7. s \in Seq(Calls) => Outdated(s) \in Seq(Calls)
  <2> SUFFICES ASSUME s \in Seq(Calls)
               PROVE  Outdated(s) \in Seq(Calls)
    OBVIOUS
  <2>1. \A k \in 1 .. Len(s) : s[k] \in Calls
    OBVIOUS
  <2> QED BY <1>2, <1>4, <1>5, <2>1 DEF Queue, Outdated
<1> QED BY <1>1, <1>4, <1>5, <1>6, <1>7

-----------------------------------------------------------------------------
(* Steps of main.                                                          *)

(* One queue is the other and then messages of M.                          *)
Extends(q, s, M) ==
  /\ q \in Seq(Messages) /\ Queue(q) /\ Queue(s) /\ Len(s) <= Len(q)
  /\ \A k \in 1 .. Len(s) : q[k] = s[k]
  /\ \A k \in (Len(s) + 1) .. Len(q) : q[k] \in M

(* One queue of calls lost its head at most.                               *)
Answered == asked' = asked \/ (asked # <<>> /\ asked' = Tail(asked))

LEMMA AnsweredIs ==
  ASSUME OpeningTypes, Answered
  PROVE  /\ asked' \in Seq(Calls) /\ (asked = <<>> => asked' = <<>>)
         /\ \A k \in DOMAIN asked' : \E j \in DOMAIN asked : asked'[k] = asked[j]
<1>1. CASE asked' = asked
  BY <1>1 DEF OpeningTypes
<1>2. CASE asked # <<>> /\ asked' = Tail(asked)
  <2>1. asked \in Seq(Calls)
    BY DEF OpeningTypes
  <2>2. /\ asked' \in Seq(Calls) /\ DOMAIN asked' = 1 .. Len(asked')
        /\ \A k \in 1 .. Len(asked') : k + 1 \in DOMAIN asked /\ asked'[k] = asked[k + 1]
    BY <1>2, <2>1, TailIs DEF Queue
  <2> QED BY <1>2, <2>2
<1> QED BY <1>1, <1>2 DEF Answered

(* Nothing that the window, the queues or the page hold has changed.       *)
LEMMA CalmStep ==
  ASSUME OpeningInv, UNCHANGED <<opening, stamp, win, inbox, page, excused>>, Answered,
         load' \in {"idle", "running", "overtaken"}, evicted' \in BOOLEAN,
         evicted' => evicted, waiting' \subseteq waiting
  PROVE  OpeningInv'
<1>1. /\ asked' \in Seq(Calls) /\ (asked = <<>> => asked' = <<>>)
      /\ \A k \in DOMAIN asked' : \E j \in DOMAIN asked : asked'[k] = asked[j]
  BY AnsweredIs DEF OpeningInv
<1>2. OpeningTypes'
  BY <1>1 DEF OpeningInv, OpeningTypes
<1>3. WindowInv' /\ StampInv' /\ RowsInv'
  BY <1>1 DEF OpeningInv, WindowInv, StampInv, RowsInv
<1>4. NotYetHeard => NotYetHeard'
  BY <1>1 DEF NotYetHeard, Acknowledged
<1>5. WaitingInv' /\ OnceInv'
  BY <1>4 DEF OpeningInv, WaitingInv, OnceInv, Announces, Announced
<1>6. AwaitingInv'
  BY <1>1 DEF OpeningInv, AwaitingInv, OpensOrHides, Announces, Acknowledged
<1>7. PresentedInv'
  <2>1. Quiet => Quiet'
    BY <1>1 DEF Quiet
  <2> QED BY <2>1 DEF OpeningInv, PresentedInv, OpensOrHides
<1>8. ExcusedInv' /\ MountInv' /\ EvictedInv'
  BY <1>1 DEF OpeningInv, ExcusedInv, MountInv, EvictedInv, Announced
<1> QED BY <1>2, <1>3, <1>5, <1>6, <1>7, <1>8 DEF OpeningInv

(* The window closes, or is prepared for an opening not yet announced.     *)
LEMMA WithdrawStep ==
  ASSUME OpeningInv, UNCHANGED page, Answered, Extends(inbox', inbox, {Hidden}),
         win' \in [shown : BOOLEAN, presented : BOOLEAN, awaiting : Nat],
         ~win'.presented, win'.awaiting = 0,
         load' \in {"idle", "running", "overtaken"}, evicted' \in BOOLEAN,
         evicted' => evicted \/ Len(inbox') > Len(inbox),
         \/ UNCHANGED <<opening, stamp, waiting>>
         \/ opening' = opening + 1 /\ UNCHANGED <<stamp, waiting>>
         \/ /\ opening' = opening + 1 /\ stamp' = stamp + 1
            /\ waiting' = waiting \cup {[opening |-> opening + 1, stamp |-> stamp + 1]}
  PROVE  OpeningInv'
<1>1. /\ asked' \in Seq(Calls) /\ (asked = <<>> => asked' = <<>>)
      /\ \A k \in DOMAIN asked' : \E j \in DOMAIN asked : asked'[k] = asked[j]
  BY AnsweredIs DEF OpeningInv
<1>2. /\ inbox' \in Seq(Messages) /\ DOMAIN inbox = 1 .. Len(inbox) /\ DOMAIN inbox' = 1 .. Len(inbox')
      /\ Len(inbox) \in Nat /\ Len(inbox') \in Nat /\ Len(inbox) <= Len(inbox')
      /\ \A k \in DOMAIN inbox : inbox'[k] = inbox[k]
      /\ \A k \in DOMAIN inbox' : k \notin DOMAIN inbox => inbox'[k].kind = "hidden"
  BY DEF Extends, Queue, Hidden
<1>3. OpeningTypes'
  <2>1. /\ opening' \in Nat /\ stamp' \in Nat /\ waiting' \subseteq [opening : Nat, stamp : Nat]
    BY DEF OpeningInv, OpeningTypes
  <2> QED BY <1>1, <1>2, <2>1 DEF OpeningInv, OpeningTypes
<1>4. ~Announced' /\ win'.awaiting = 0 /\ ~win'.presented
  BY DEF Announced
<1>5. WindowInv' /\ AwaitingInv' /\ PresentedInv' /\ ExcusedInv'
  BY <1>4 DEF WindowInv, AwaitingInv, PresentedInv, ExcusedInv
<1>6. StampInv' /\ RowsInv' /\ MountInv'
  <2>1. stamp \in Nat /\ stamp <= stamp' /\ stamp' \in Nat /\ page.current \in Nat
    BY DEF OpeningInv, OpeningTypes
  <2>2. StampInv'
    <3>1. \A k \in DOMAIN inbox' : inbox'[k].kind = "shown" => inbox'[k].stamp <= stamp'
      <4>1. \A k \in DOMAIN inbox : inbox[k].kind = "shown" => inbox[k].stamp \in Nat /\ inbox[k].stamp <= stamp
        BY MessageKinds DEF OpeningInv, OpeningTypes, StampInv
      <4> QED BY <1>2, <2>1, <4>1
    <3>2. \A k \in DOMAIN asked' : asked'[k].kind = "ready" => asked'[k].stamp <= stamp'
      <4>1. \A k \in DOMAIN asked : asked[k].kind = "ready" => asked[k].stamp \in Nat /\ asked[k].stamp <= stamp
        BY CallKinds DEF OpeningInv, OpeningTypes, StampInv
      <4> QED BY <1>1, <2>1, <4>1
    <3> QED BY <2>1, <3>1, <3>2 DEF OpeningInv, StampInv
  <2>3. RowsInv'
    BY <1>1, <1>2 DEF OpeningInv, RowsInv, Live
  <2>4. MountInv'
    BY <1>1, <1>2 DEF OpeningInv, MountInv
  <2> QED BY <2>2, <2>3, <2>4
<1>7. stamp' = stamp => (NotYetHeard => NotYetHeard')
  BY <1>1 DEF NotYetHeard, Acknowledged
<1>8. stamp' = stamp + 1 => /\ NotYetHeard'
                            /\ \A k \in DOMAIN inbox' : ~(inbox'[k].kind = "shown" /\ inbox'[k].stamp = stamp')
  <2> SUFFICES ASSUME stamp' = stamp + 1
               PROVE  /\ NotYetHeard'
                      /\ \A k \in DOMAIN inbox' : ~(inbox'[k].kind = "shown" /\ inbox'[k].stamp = stamp')
    OBVIOUS
  <2>1. stamp \in Nat /\ page.current \in Nat /\ page.current <= stamp
    BY DEF OpeningInv, OpeningTypes, StampInv
  <2>2. \A k \in DOMAIN inbox : inbox[k].kind = "shown" => inbox[k].stamp \in Nat /\ inbox[k].stamp <= stamp
    BY MessageKinds DEF OpeningInv, OpeningTypes, StampInv
  <2>3. \A k \in DOMAIN asked : asked[k].kind = "ready" => asked[k].stamp \in Nat /\ asked[k].stamp <= stamp
    BY CallKinds DEF OpeningInv, OpeningTypes, StampInv
  <2>4. NotYetHeard'
    <3>1. page.current # stamp'
      BY <2>1
    <3>2. ASSUME NEW k \in DOMAIN asked', asked'[k].kind = "ready"
          PROVE  asked'[k].stamp # stamp'
      <4>1. PICK j \in DOMAIN asked : asked'[k] = asked[j]
        BY <1>1
      <4>2. asked[j].stamp \in Nat /\ asked[j].stamp <= stamp
        BY <2>3, <3>2, <4>1
      <4> QED BY <2>1, <4>1, <4>2
    <3> QED BY <3>1, <3>2 DEF NotYetHeard, Acknowledged
  <2>5. ASSUME NEW k \in DOMAIN inbox', inbox'[k].kind = "shown"
        PROVE  inbox'[k].stamp # stamp'
    <3>1. k \in DOMAIN inbox /\ inbox'[k] = inbox[k]
      BY <1>2, <2>5
    <3>2. inbox[k].stamp \in Nat /\ inbox[k].stamp <= stamp
      BY <2>2, <2>5, <3>1
    <3> QED BY <2>1, <3>1, <3>2
  <2> QED BY <2>4, <2>5
<1>9. OnceInv'
  BY <1>2, <1>7, <1>8 DEF OpeningInv, OnceInv, Announces
<1>10. WaitingInv'
  <2>1. CASE UNCHANGED <<opening, stamp, waiting>>
    BY <1>2, <1>4, <1>7, <2>1 DEF OpeningInv, WaitingInv, Announces
  <2>2. CASE opening' = opening + 1 /\ UNCHANGED <<stamp, waiting>>
    <3>1. \A w \in waiting : w.opening \in Nat /\ w.opening <= opening
      BY DEF OpeningInv, OpeningTypes, WaitingInv
    <3>2. \A w \in waiting' : w.opening <= opening' /\ w.opening # opening'
      BY <2>2, <3>1 DEF OpeningInv, OpeningTypes
    <3> QED BY <3>2 DEF WaitingInv
  <2>3. CASE /\ opening' = opening + 1 /\ stamp' = stamp + 1
             /\ waiting' = waiting \cup {[opening |-> opening + 1, stamp |-> stamp + 1]}
    <3>1. \A w \in waiting : w.opening \in Nat /\ w.opening <= opening
      BY DEF OpeningInv, OpeningTypes, WaitingInv
    <3>2. opening \in Nat /\ stamp \in Nat
      BY DEF OpeningInv, OpeningTypes
    <3>3. \A w \in waiting' : /\ w.opening <= opening'
                              /\ w.opening = opening' => w.stamp = stamp'
      BY <2>3, <3>1, <3>2
    <3>4. stamp' # 0
      BY <2>3, <3>2
    <3>5. (~Announced /\ NotYetHeard /\ \A k \in DOMAIN inbox : ~Announces(k))'
      BY <1>4, <1>8, <2>3 DEF Announces
    <3>6. ASSUME NEW w \in waiting'
          PROVE  /\ w.opening <= opening'
                 /\ w.opening = opening' => w.stamp = stamp' /\ stamp' # 0
      BY <3>3, <3>4
    <3> QED BY <3>5, <3>6 DEF WaitingInv
  <2> QED BY <2>1, <2>2, <2>3
<1>11. EvictedInv'
  <2> SUFFICES ASSUME evicted'
               PROVE  /\ page.rows = "full" => \E k \in DOMAIN inbox' : inbox'[k].kind = "hidden"
                      /\ \A k \in DOMAIN inbox' :
                           Live(inbox'[k]) /\ inbox'[k].rows = "full" =>
                             \E j \in DOMAIN inbox' : j > k /\ inbox'[j].kind = "hidden"
    BY DEF EvictedInv
  <2>1. CASE evicted
    BY <1>2, <2>1 DEF OpeningInv, EvictedInv, Live
  <2>2. CASE Len(inbox') > Len(inbox)
    BY <1>2, <2>2 DEF Live
  <2> QED BY <2>1, <2>2
<1> QED BY <1>3, <1>5, <1>6, <1>9, <1>10, <1>11 DEF OpeningInv

LEMMA HideEventsIs ==
  ASSUME OpeningTypes
  PROVE  /\ Extends(inbox \o HideEvents, inbox, {Hidden})
         /\ Extends(inbox \o HideEvents \o <<Hidden>>, inbox, {Hidden})
         /\ Len(inbox \o HideEvents \o <<Hidden>>) > Len(inbox)
         /\ inbox \o HideEvents \in Seq(Messages)
<1>1. Hidden \in Messages /\ inbox \in Seq(Messages)
  BY DEF OpeningTypes, Hidden, Messages
<1>2. /\ inbox \o HideEvents = IF win.shown THEN Append(inbox, Hidden) ELSE inbox
      /\ inbox \o HideEvents \o <<Hidden>> =
           IF win.shown THEN Append(Append(inbox, Hidden), Hidden) ELSE Append(inbox, Hidden)
  <2> HIDE DEF Hidden
  <2> QED BY <1>1 DEF HideEvents
<1> DEFINE one == Append(inbox, Hidden)
           two == Append(one, Hidden)
<1>3. /\ one \in Seq(Messages) /\ Queue(inbox) /\ Queue(one) /\ Len(one) = Len(inbox) + 1
      /\ \A k \in 1 .. Len(inbox) : one[k] = inbox[k]
      /\ one[Len(inbox) + 1] = Hidden
  BY <1>1, AppendIs
<1>4. /\ two \in Seq(Messages) /\ Queue(two) /\ Len(two) = Len(one) + 1
      /\ \A k \in 1 .. Len(one) : two[k] = one[k]
      /\ two[Len(one) + 1] = Hidden
  <2> HIDE DEF one
  <2> QED BY <1>1, <1>3, AppendIs
<1> HIDE DEF one, two
<1>5. Extends(inbox, inbox, {Hidden})
  BY <1>1, <1>3 DEF Extends, Queue
<1>6. Extends(one, inbox, {Hidden})
  BY <1>3 DEF Extends, Queue
<1>7. Extends(two, inbox, {Hidden})
  BY <1>3, <1>4 DEF Extends, Queue
<1>8. /\ inbox \o HideEvents = IF win.shown THEN one ELSE inbox
      /\ inbox \o HideEvents \o <<Hidden>> = IF win.shown THEN two ELSE one
  BY <1>2 DEF one, two
<1>9. Len(one) > Len(inbox) /\ Len(two) > Len(inbox)
  BY <1>3, <1>4 DEF Queue
<1> QED BY <1>1, <1>3, <1>5, <1>6, <1>7, <1>8, <1>9

LEMMA HideStep ==
  ASSUME OpeningInv, Hide, UNCHANGED <<opening, stamp, waiting, evicted, load, page>>, Answered
  PROVE  OpeningInv'
<1>1. Extends(inbox', inbox, {Hidden})
  BY HideEventsIs DEF OpeningInv, Hide
<1>2. win' \in [shown : BOOLEAN, presented : BOOLEAN, awaiting : Nat] /\ ~win'.presented /\ win'.awaiting = 0
  BY DEF Hide, Closed
<1> QED BY <1>1, <1>2, WithdrawStep DEF OpeningInv, OpeningTypes

LEMMA EvictStep ==
  ASSUME OpeningInv, EvictPreviewCache
  PROVE  OpeningInv'
<1>1. /\ win' = Closed /\ inbox' = inbox \o HideEvents \o <<Hidden>> /\ evicted' = TRUE
      /\ opening' = opening + 1 /\ UNCHANGED <<stamp, waiting, asked, page>>
      /\ load' \in {"idle", "running", "overtaken"}
  BY DEF EvictPreviewCache, OpeningInv, OpeningTypes
<1>2. Extends(inbox', inbox, {Hidden}) /\ Len(inbox') > Len(inbox)
  BY <1>1, HideEventsIs DEF OpeningInv
<1>3. win' \in [shown : BOOLEAN, presented : BOOLEAN, awaiting : Nat] /\ ~win'.presented /\ win'.awaiting = 0
  BY <1>1 DEF Closed
<1> QED BY <1>1, <1>2, <1>3, WithdrawStep DEF Answered

(* An opening is announced: its stamp is unknown to the renderer, and no    *)
(* other opening is under way.                                              *)
LEMMA AnnounceStep ==
  ASSUME OpeningInv, NEW q, Extends(q, inbox, {Hidden}), inbox' = Append(q, Shown(stamp')),
         stamp' \in Nat, stamp' # 0, stamp <= stamp', opening' \in Nat, opening <= opening',
         NotYetHeard', \A k \in DOMAIN inbox : ~(inbox[k].kind = "shown" /\ inbox[k].stamp = stamp'),
         win' \in [shown : {TRUE}, presented : {FALSE}, awaiting : {stamp'}],
         evicted' \in BOOLEAN, evicted' => evicted /\ stamp' \in excused',
         load' \in {"idle", "running", "overtaken"}, waiting' \subseteq waiting,
         \A w \in waiting' : w.opening # opening', UNCHANGED <<asked, page>>
  PROVE  OpeningInv'
<1> DEFINE m == Shown(stamp')
<1>1. m \in Messages /\ m.kind = "shown" /\ m.stamp = stamp'
  BY DEF Shown, Messages
<1> HIDE DEF m
<1>2. /\ inbox' \in Seq(Messages) /\ Queue(q) /\ Queue(inbox') /\ Len(inbox') = Len(q) + 1
      /\ \A k \in 1 .. Len(q) : inbox'[k] = q[k]
      /\ inbox'[Len(q) + 1] = m
  BY <1>1, AppendIs DEF Extends, m
<1>3. /\ DOMAIN inbox = 1 .. Len(inbox) /\ DOMAIN inbox' = 1 .. (Len(q) + 1)
      /\ Len(inbox) \in Nat /\ Len(q) \in Nat /\ Len(inbox) <= Len(q)
      /\ \A k \in DOMAIN inbox : k \in 1 .. Len(q) /\ inbox'[k] = inbox[k]
      /\ \A k \in 1 .. Len(q) : k \notin DOMAIN inbox => inbox'[k].kind = "hidden"
      /\ inbox'[Len(q) + 1] = m
  BY <1>2 DEF Extends, Queue, Hidden
<1>4. win'.awaiting = stamp' /\ win'.shown /\ ~win'.presented
      /\ win' \in [shown : BOOLEAN, presented : BOOLEAN, awaiting : Nat]
  OBVIOUS
<1>5. OpeningTypes'
  BY <1>2, <1>4 DEF OpeningInv, OpeningTypes
<1>6. WindowInv' /\ PresentedInv'
  BY <1>4 DEF WindowInv, PresentedInv
<1>7. StampInv'
  <2>1. \A k \in DOMAIN inbox : inbox[k].kind = "shown" => inbox[k].stamp \in Nat /\ inbox[k].stamp <= stamp
    BY MessageKinds DEF OpeningInv, OpeningTypes, StampInv
  <2>2. \A k \in DOMAIN asked : asked[k].kind = "ready" => asked[k].stamp \in Nat /\ asked[k].stamp <= stamp
    BY CallKinds DEF OpeningInv, OpeningTypes, StampInv
  <2>3. \A k \in DOMAIN inbox' : inbox'[k].kind = "shown" => inbox'[k].stamp <= stamp'
    <3> SUFFICES ASSUME NEW k \in DOMAIN inbox', inbox'[k].kind = "shown"
                 PROVE  inbox'[k].stamp <= stamp'
      OBVIOUS
    <3>1. CASE k \in DOMAIN inbox
      <4>1. inbox[k].stamp \in Nat /\ inbox[k].stamp <= stamp
        BY <1>3, <2>1, <3>1
      <4>2. stamp \in Nat
        BY DEF OpeningInv, OpeningTypes
      <4> QED BY <1>3, <3>1, <4>1, <4>2
    <3>2. CASE k \notin DOMAIN inbox
      <4>1. k = Len(q) + 1
        BY <1>3, <3>2
      <4> QED BY <1>1, <1>3, <4>1
    <3> QED BY <3>1, <3>2
  <2>4. page.current <= stamp' /\ \A k \in DOMAIN asked : asked[k].kind = "ready" => asked[k].stamp <= stamp'
    BY <2>2 DEF OpeningInv, OpeningTypes, StampInv
  <2> QED BY <2>3, <2>4 DEF StampInv
<1>8. \A k \in DOMAIN inbox' : inbox'[k].kind = "list" => k \in DOMAIN inbox /\ inbox'[k] = inbox[k]
  BY <1>1, <1>3
<1>9. RowsInv' /\ MountInv'
  BY <1>8 DEF OpeningInv, RowsInv, MountInv, Live
<1>10. \A k \in DOMAIN inbox' : inbox'[k].kind = "shown" /\ inbox'[k].stamp = stamp' <=> k = Len(q) + 1
  BY <1>1, <1>3
<1>11. WaitingInv'
  <2>1. \A w \in waiting' : w.opening <= opening'
    BY DEF OpeningInv, WaitingInv, OpeningTypes
  <2> QED BY <2>1 DEF WaitingInv
<1>12. OnceInv'
  BY <1>10 DEF OnceInv, Announces
<1>13. AwaitingInv'
  <2>1. ~Acknowledged'
    BY DEF NotYetHeard
  <2>2. \A k \in DOMAIN inbox' :
          /\ Len(q) + 1 >= k /\ Len(q) + 1 \in DOMAIN inbox'
          /\ inbox'[Len(q) + 1].kind = "shown" /\ inbox'[Len(q) + 1].stamp = stamp'
    BY <1>1, <1>3
  <2> QED BY <2>1, <2>2 DEF AwaitingInv, Announces
<1>14. ExcusedInv'
  <2>1. page.current # stamp'
    BY DEF NotYetHeard
  <2>2. \A k \in DOMAIN inbox' : Live(inbox'[k]) => inbox'[k].stamp # stamp'
    BY <1>8, <2>1 DEF Live, OpeningInv, RowsInv
  <2> QED BY <2>1, <2>2 DEF ExcusedInv
<1>15. EvictedInv'
  BY <1>3, <1>8 DEF OpeningInv, EvictedInv, Live
<1> QED BY <1>5, <1>6, <1>7, <1>9, <1>11, <1>12, <1>13, <1>14, <1>15 DEF OpeningInv

LEMMA ShowStep ==
  ASSUME OpeningInv, ShowPalette
  PROVE  OpeningInv'
<1>1. /\ opening \in Nat /\ stamp \in Nat /\ evicted \in BOOLEAN
      /\ opening' = opening + 1 /\ stamp' = stamp + 1 /\ evicted' = evicted
      /\ UNCHANGED <<asked, page>> /\ load \in {"idle", "running", "overtaken"}
  BY DEF ShowPalette, OpeningInv, OpeningTypes
<1> DEFINE q == inbox \o HideEvents
<1>2. Extends(q, inbox, {Hidden}) /\ q \in Seq(Messages)
  BY HideEventsIs DEF OpeningInv
<1>3. Answered
  BY <1>1 DEF Answered
<1>4. CASE NeedsLoad
  <2>1. /\ load' = JoinedLoad /\ inbox' = q /\ win' = [Closed EXCEPT !.shown = TRUE]
        /\ waiting' = waiting \cup {[opening |-> opening + 1, stamp |-> stamp + 1]}
    BY <1>4 DEF ShowPalette
  <2>2. load' \in {"idle", "running", "overtaken"}
    BY <1>1, <2>1 DEF JoinedLoad
  <2>3. /\ win' \in [shown : BOOLEAN, presented : BOOLEAN, awaiting : Nat]
        /\ ~win'.presented /\ win'.awaiting = 0
    BY <2>1 DEF Closed
  <2> HIDE DEF q
  <2>4. Extends(inbox', inbox, {Hidden})
    BY <1>2, <2>1
  <2> QED BY <1>1, <1>3, <2>1, <2>2, <2>3, <2>4, WithdrawStep
<1>5. CASE ~NeedsLoad
  <2>1. /\ win' = [shown |-> TRUE, presented |-> FALSE, awaiting |-> stamp + 1]
        /\ inbox' = q \o <<Shown(stamp + 1)>> /\ UNCHANGED <<load, waiting>>
        /\ excused' = IF relocked THEN excused \cup {stamp + 1} ELSE excused
    BY <1>5 DEF ShowPalette
  <2>2. inbox' = Append(q, Shown(stamp'))
    <3>1. Shown(stamp + 1) \in Messages
      BY <1>1 DEF Shown, Messages
    <3> HIDE DEF q
    <3> QED BY <1>1, <1>2, <2>1, <3>1
  <2>3. evicted' => evicted /\ stamp' \in excused'
    BY <1>1, <1>5, <2>1 DEF NeedsLoad
  <2>4. /\ NotYetHeard'
        /\ \A k \in DOMAIN inbox : ~(inbox[k].kind = "shown" /\ inbox[k].stamp = stamp')
    <3>1. page.current \in Nat /\ page.current <= stamp
      BY DEF OpeningInv, OpeningTypes, StampInv
    <3>2. \A k \in DOMAIN inbox : inbox[k].kind = "shown" => inbox[k].stamp \in Nat /\ inbox[k].stamp <= stamp
      BY MessageKinds DEF OpeningInv, OpeningTypes, StampInv
    <3>3. \A k \in DOMAIN asked : asked[k].kind = "ready" => asked[k].stamp \in Nat /\ asked[k].stamp <= stamp
      BY CallKinds DEF OpeningInv, OpeningTypes, StampInv
    <3> QED BY <1>1, <3>1, <3>2, <3>3 DEF NotYetHeard, Acknowledged
  <2>5. \A w \in waiting' : w.opening # opening'
    <3>1. \A w \in waiting : w.opening \in Nat /\ w.opening <= opening
      BY DEF OpeningInv, OpeningTypes, WaitingInv
    <3> QED BY <1>1, <2>1, <3>1
  <2>6. win' \in [shown : {TRUE}, presented : {FALSE}, awaiting : {stamp'}]
    BY <1>1, <2>1
  <2>7. stamp' \in Nat /\ stamp' # 0 /\ stamp <= stamp' /\ opening' \in Nat /\ opening <= opening'
    BY <1>1
  <2> HIDE DEF q
  <2> QED BY <1>1, <1>2, <2>1, <2>2, <2>3, <2>4, <2>5, <2>6, <2>7, AnnounceStep
<1> QED BY <1>4, <1>5

LEMMA LoadEndsStep ==
  ASSUME OpeningInv, NEW ok \in BOOLEAN, LoadEnds(ok)
  PROVE  OpeningInv'
<1> DEFINE due == {w \in waiting : w.opening = opening /\ win.shown}
           good == ok /\ load = "running"
<1>1. /\ load' = "idle" /\ waiting' = {} /\ evicted' = (evicted /\ ~good)
      /\ excused' = IF good THEN excused ELSE excused \cup {w.stamp : w \in due}
      /\ UNCHANGED <<opening, stamp, asked, page>>
      /\ IF due = {} THEN UNCHANGED <<win, inbox>>
         ELSE /\ win' = [win EXCEPT !.awaiting = stamp]
              /\ inbox' = Append(inbox, Shown(stamp))
  BY DEF LoadEnds
<1>2. /\ evicted' \in BOOLEAN /\ (evicted' => evicted /\ ~good) /\ waiting' \subseteq waiting
      /\ load' \in {"idle", "running", "overtaken"}
  <2> HIDE DEF due
  <2> QED BY <1>1 DEF OpeningInv, OpeningTypes
<1>3. CASE due = {}
  <2>1. {w.stamp : w \in due} = {}
    BY <1>3
  <2> HIDE DEF due, good
  <2>2. UNCHANGED <<win, inbox, excused>>
    BY <1>1, <1>3, <2>1
  <2> QED BY <1>1, <1>2, <2>2, CalmStep DEF Answered
<1>4. CASE due # {}
  <2>1. PICK w \in due : TRUE
    BY <1>4
  <2>2. /\ w.stamp = stamp /\ stamp # 0 /\ ~Announced /\ NotYetHeard
        /\ \A k \in DOMAIN inbox : ~Announces(k)
    BY DEF OpeningInv, WaitingInv
  <2>3. win.shown /\ ~win.presented /\ win \in [shown : BOOLEAN, presented : BOOLEAN, awaiting : Nat]
    BY <2>2 DEF Announced, OpeningInv, OpeningTypes
  <2>4. stamp \in {v.stamp : v \in due}
    BY <2>2
  <2> HIDE DEF due
  <2>5. win' = [win EXCEPT !.awaiting = stamp] /\ inbox' = Append(inbox, Shown(stamp'))
    BY <1>1, <1>4
  <2>6. win' \in [shown : {TRUE}, presented : {FALSE}, awaiting : {stamp'}]
    BY <1>1, <2>3, <2>5
  <2>7. evicted' => evicted /\ stamp' \in excused'
    BY <1>1, <1>2, <2>4
  <2> HIDE DEF good
  <2>8. NotYetHeard' /\ \A k \in DOMAIN inbox : ~(inbox[k].kind = "shown" /\ inbox[k].stamp = stamp')
    BY <1>1, <2>2 DEF NotYetHeard, Acknowledged, Announces
  <2>9. Extends(inbox, inbox, {Hidden})
    BY DEF Extends, Queue, OpeningInv, OpeningTypes
  <2>10. /\ stamp' \in Nat /\ stamp' # 0 /\ stamp <= stamp' /\ opening' \in Nat /\ opening <= opening'
         /\ \A v \in waiting' : v.opening # opening'
    BY <1>1, <2>2 DEF OpeningInv, OpeningTypes
  <2> QED BY <1>1, <1>2, <2>5, <2>6, <2>7, <2>8, <2>9, <2>10, AnnounceStep
<1> QED BY <1>3, <1>4

(* The list is answered, or a change is told: one more message that neither *)
(* opens nor hides.                                                        *)
LEMMA TellStep ==
  ASSUME OpeningInv, UNCHANGED <<opening, stamp, win, evicted, load, waiting, page, excused>>, Answered,
         NEW m \in Messages, inbox' = Append(inbox, m),
         \/ m.kind = "changed"
         \/ /\ m.kind = "list" /\ asked # <<>> /\ m.rows = IF evicted THEN "blank" ELSE "full"
            /\ Live(m) => \E k \in DOMAIN asked : Live(asked[k]) /\ asked[k].stamp = m.stamp
  PROVE  OpeningInv'
<1>1. /\ asked' \in Seq(Calls) /\ (asked = <<>> => asked' = <<>>)
      /\ \A k \in DOMAIN asked' : \E j \in DOMAIN asked : asked'[k] = asked[j]
  BY AnsweredIs DEF OpeningInv
<1> DEFINE n == Len(inbox) + 1
<1>2. /\ inbox' \in Seq(Messages) /\ Len(inbox) \in Nat
      /\ DOMAIN inbox = 1 .. Len(inbox) /\ DOMAIN inbox' = 1 .. n
      /\ \A k \in DOMAIN inbox : inbox'[k] = inbox[k]
      /\ inbox'[n] = m
  BY AppendIs DEF OpeningInv, OpeningTypes, Queue
<1>3. /\ DOMAIN inbox \subseteq DOMAIN inbox' /\ m.kind \notin {"shown", "hidden"}
      /\ \A k \in DOMAIN inbox' : \/ k \in DOMAIN inbox /\ inbox'[k] = inbox[k]
                                  \/ inbox'[k] = m
  BY <1>2
<1>4. /\ Live(m) => m.stamp = page.current /\ ~Quiet
      /\ Live(m) /\ m.rows = "full" => ~evicted
      /\ Live(m) /\ m.rows = "blank" => evicted
      /\ m.kind = "list" => page.mounted
  BY DEF OpeningInv, OpeningTypes, RowsInv, Quiet, MountInv, Live
<1> HIDE DEF n
<1>5. OpeningTypes' /\ WindowInv'
  BY <1>1, <1>2 DEF OpeningInv, OpeningTypes, WindowInv
<1>6. StampInv' /\ RowsInv' /\ MountInv'
  <2>1. StampInv'
    BY <1>1, <1>3 DEF OpeningInv, StampInv
  <2>2. RowsInv'
    BY <1>1, <1>3, <1>4 DEF OpeningInv, RowsInv
  <2>3. MountInv'
    BY <1>1, <1>3, <1>4 DEF OpeningInv, MountInv
  <2> QED BY <2>1, <2>2, <2>3
<1>7. NotYetHeard => NotYetHeard'
  BY <1>1 DEF NotYetHeard, Acknowledged
<1>8. \A k \in DOMAIN inbox' : Announces(k)' => k \in DOMAIN inbox /\ Announces(k)
  BY <1>3 DEF Announces
<1>9. WaitingInv' /\ OnceInv'
  BY <1>7, <1>8 DEF OpeningInv, WaitingInv, OnceInv, Announced
<1>10. AwaitingInv'
  <2>1. Acknowledged' => Acknowledged
    BY <1>1 DEF Acknowledged
  <2>2. \A k \in DOMAIN inbox : Announces(k) => k \in DOMAIN inbox' /\ Announces(k)'
    BY <1>3, <1>2 DEF Announces
  <2>3. \A k \in DOMAIN inbox' : OpensOrHides(k)' => k \in DOMAIN inbox /\ OpensOrHides(k)
    BY <1>3 DEF OpensOrHides
  <2> QED BY <2>1, <2>2, <2>3 DEF OpeningInv, AwaitingInv
<1>11. PresentedInv'
  <2>1. Quiet => Quiet'
    BY <1>1, <1>3, <1>4 DEF Quiet
  <2>2. \A k \in DOMAIN inbox' : OpensOrHides(k)' => k \in DOMAIN inbox /\ OpensOrHides(k)
    BY <1>3 DEF OpensOrHides
  <2> QED BY <2>1, <2>2 DEF OpeningInv, PresentedInv
<1>12. ExcusedInv'
  BY <1>3, <1>4 DEF OpeningInv, ExcusedInv, Announced
<1>13. EvictedInv'
  <2>1. \A k \in DOMAIN inbox : inbox[k].kind = "hidden" => k \in DOMAIN inbox' /\ inbox'[k].kind = "hidden"
    BY <1>2, <1>3
  <2> QED BY <1>3, <1>4, <2>1 DEF OpeningInv, EvictedInv
<1> QED BY <1>5, <1>6, <1>9, <1>10, <1>11, <1>12, <1>13 DEF OpeningInv

LEMMA AnswerStep ==
  ASSUME OpeningInv, Answer
  PROVE  OpeningInv'
<1> DEFINE c == Call
<1>1. ASSUME asked # <<>>
      PROVE  /\ c \in Calls /\ 1 \in DOMAIN asked /\ asked[1] = c
  BY <1>1, TailIs DEF Call, OpeningInv, OpeningTypes
<1>2. CASE AnswerList
  <2> DEFINE m == [kind |-> "list", live |-> c.live, first |-> c.first, stamp |-> c.stamp,
                   rows |-> IF evicted THEN "blank" ELSE "full"]
  <2>1. /\ asked # <<>> /\ c.kind = "list" /\ inbox' = Append(inbox, m) /\ Answered
        /\ UNCHANGED <<opening, stamp, win, evicted, load, waiting, page, excused>>
    BY <1>2 DEF AnswerList, Answered, mainVars
  <2>2. c.live \in BOOLEAN /\ c.first \in BOOLEAN /\ c.stamp \in Nat
    BY <1>1, <2>1, CallKinds
  <2>3. /\ m \in Messages /\ m.kind = "list" /\ m.rows = IF evicted THEN "blank" ELSE "full"
        /\ m.live = c.live /\ m.stamp = c.stamp
    BY <2>2 DEF Messages
  <2>4. Live(m) => \E k \in DOMAIN asked : Live(asked[k]) /\ asked[k].stamp = m.stamp
    BY <1>1, <2>1, <2>3 DEF Live
  <2> HIDE DEF m, c
  <2> QED BY <2>1, <2>3, <2>4, TellStep
<1>3. CASE AnswerReady
  <2>1. /\ asked # <<>> /\ c.kind = "ready" /\ Answered /\ win' = Ready(c.stamp)
        /\ UNCHANGED <<opening, stamp, evicted, load, waiting, inbox, page, excused>>
    BY <1>3 DEF AnswerReady, Answered
  <2>2. c.stamp \in Nat /\ c.stamp # 0
    BY <1>1, <2>1, CallKinds
  <2>3. CASE ~(win.shown /\ win.awaiting = c.stamp)
    <3>1. win' = win
      BY <2>1, <2>3 DEF Ready
    <3> QED BY <2>1, <3>1, CalmStep DEF OpeningInv, OpeningTypes
  <2>4. CASE win.shown /\ win.awaiting = c.stamp
    <3>1. /\ win' = [win EXCEPT !.awaiting = 0, !.presented = TRUE]
          /\ win.awaiting = stamp /\ win.awaiting # 0 /\ stamp # 0 /\ c.stamp = stamp
      BY <2>1, <2>2, <2>4 DEF Ready, OpeningInv, WindowInv
    <3>2. /\ win' \in [shown : BOOLEAN, presented : BOOLEAN, awaiting : Nat]
          /\ win'.shown /\ win'.presented /\ win'.awaiting = 0
      BY <2>4, <3>1 DEF OpeningInv, OpeningTypes
    <3>3. Acknowledged
      BY <1>1, <2>1, <3>1 DEF Acknowledged
    <3>4. page.current = stamp /\ \A k \in DOMAIN inbox : ~OpensOrHides(k)
      BY <3>1, <3>3 DEF OpeningInv, AwaitingInv, OnceInv, NotYetHeard
    <3>5. /\ asked' \in Seq(Calls) /\ (asked = <<>> => asked' = <<>>)
          /\ \A k \in DOMAIN asked' : \E j \in DOMAIN asked : asked'[k] = asked[j]
      BY <2>1, AnsweredIs DEF OpeningInv
    <3>6. OpeningTypes'
      BY <2>1, <3>2, <3>5 DEF OpeningInv, OpeningTypes
    <3>7. WindowInv' /\ AwaitingInv'
      BY <2>1, <3>1, <3>2 DEF WindowInv, AwaitingInv
    <3>8. StampInv' /\ RowsInv' /\ MountInv' /\ EvictedInv'
      BY <2>1, <3>5 DEF OpeningInv, StampInv, RowsInv, MountInv, EvictedInv
    <3>9. WaitingInv'
      BY <2>1, <3>1 DEF OpeningInv, WaitingInv, Announced
    <3>10. OnceInv' /\ PresentedInv'
      BY <2>1, <3>4 DEF OnceInv, PresentedInv, Announces, OpensOrHides
    <3>11. ExcusedInv'
      BY <2>1, <3>1 DEF OpeningInv, ExcusedInv, Announced
    <3> QED BY <3>6, <3>7, <3>8, <3>9, <3>10, <3>11 DEF OpeningInv
  <2> QED BY <2>3, <2>4
<1>4. CASE AnswerClose
  BY <1>4, HideStep DEF AnswerClose, Answered
<1>5. CASE RecallCopy
  BY <1>5, CalmStep DEF RecallCopy, Answered, OpeningInv, OpeningTypes
<1> QED BY <1>2, <1>3, <1>4, <1>5 DEF Answer

-----------------------------------------------------------------------------
(* Steps of the renderer.                                                  *)

(* The first message is heard; the lists may have lost their readers.      *)
Heard ==
  /\ inbox' \in Seq(Messages) /\ 1 \in DOMAIN inbox
  /\ \A k \in DOMAIN inbox' :
       /\ k \in Nat /\ k + 1 \in DOMAIN inbox /\ inbox'[k].kind = inbox[k + 1].kind
       /\ inbox'[k].kind # "list" \/ Live(inbox'[k]) => inbox'[k] = inbox[k + 1]
  /\ \A k \in DOMAIN inbox : k \in Nat /\ (k # 1 => k - 1 \in DOMAIN inbox' /\ (k - 1) + 1 = k)

LEMMA HeardIs ==
  ASSUME OpeningTypes, inbox # <<>>
  PROVE  /\ Head(inbox) = inbox[1] /\ Head(inbox) \in Messages
         /\ inbox' = Tail(inbox) => Heard
         /\ inbox' = Outdated(Tail(inbox)) => Heard /\ \A k \in DOMAIN inbox' : ~Live(inbox'[k])
<1> DEFINE q == Tail(inbox)
<1>1. /\ q \in Seq(Messages) /\ Queue(inbox) /\ Queue(q) /\ Len(inbox) = Len(q) + 1
      /\ Head(inbox) = inbox[1] /\ Head(inbox) \in Messages /\ 1 \in DOMAIN inbox
      /\ \A k \in 1 .. Len(q) : k + 1 \in DOMAIN inbox /\ q[k] = inbox[k + 1]
  BY TailIs DEF OpeningTypes
<1>2. /\ Outdated(q) \in Seq(Messages) /\ Queue(Outdated(q)) /\ Len(Outdated(q)) = Len(q)
      /\ \A k \in 1 .. Len(q) :
           /\ ~Live(Outdated(q)[k]) /\ Outdated(q)[k].kind = q[k].kind
           /\ q[k].kind # "list" => Outdated(q)[k] = q[k]
  BY <1>1, OutdatedIs
<1> HIDE DEF q
<1>3. inbox' = q => Heard
  BY <1>1 DEF Heard, Queue
<1>4. inbox' = Outdated(q) => Heard /\ \A k \in DOMAIN inbox' : ~Live(inbox'[k])
  BY <1>1, <1>2 DEF Heard, Queue
<1> QED BY <1>1, <1>3, <1>4 DEF q

LEMMA HearStep ==
  ASSUME OpeningInv, Heard, OpeningTypes', RowsInv', MountInv', EvictedInv',
         UNCHANGED <<opening, stamp, win, evicted, load, waiting, excused>>,
         \A k \in DOMAIN asked' :
           asked'[k].kind = "ready" => \E j \in DOMAIN asked : asked'[k] = asked[j],
         \/ page'.current = page.current
         \/ inbox[1].kind = "shown" /\ page'.current = inbox[1].stamp
         \/ inbox[1].kind = "hidden" /\ page'.current = 0,
         win.presented => page'.current = stamp \/ Quiet',
         Announced /\ page'.current = stamp /\ page'.rows = "blank" => stamp \in excused
  PROVE  OpeningInv'
<1>1. /\ \A k \in DOMAIN inbox' :
           /\ k + 1 \in DOMAIN inbox /\ k + 1 # 1
           /\ inbox'[k].kind = inbox[k + 1].kind
           /\ inbox'[k].kind # "list" \/ Live(inbox'[k]) => inbox'[k] = inbox[k + 1]
      /\ 1 \in DOMAIN inbox
  BY DEF Heard
<1>2. WindowInv'
  BY DEF OpeningInv, WindowInv
<1>3. /\ \A k \in DOMAIN inbox' : Announces(k)' => k + 1 \in DOMAIN inbox /\ k + 1 # 1 /\ Announces(k + 1)
      /\ \A k \in DOMAIN inbox' : OpensOrHides(k)' => k + 1 \in DOMAIN inbox /\ OpensOrHides(k + 1)
  BY <1>1 DEF Announces, OpensOrHides
<1>4. Acknowledged' => Acknowledged
  BY DEF Acknowledged
<1>5. StampInv'
  <2>1. page'.current <= stamp
    BY <1>1 DEF OpeningInv, OpeningTypes, StampInv
  <2>2. \A k \in DOMAIN inbox' : inbox'[k].kind = "shown" => inbox'[k].stamp <= stamp
    BY <1>1 DEF OpeningInv, StampInv
  <2>3. \A k \in DOMAIN asked' : asked'[k].kind = "ready" => asked'[k].stamp <= stamp
    BY DEF OpeningInv, StampInv
  <2> QED BY <2>1, <2>2, <2>3 DEF StampInv
<1>6. ~Announces(1) /\ stamp # 0 /\ NotYetHeard => NotYetHeard'
  BY <1>4 DEF NotYetHeard, Announces
<1>7. WaitingInv'
  BY <1>1, <1>3, <1>6 DEF OpeningInv, WaitingInv, Announced
<1>8. OnceInv'
  <2>1. ASSUME NEW k \in DOMAIN inbox', Announces(k)'
        PROVE  /\ NotYetHeard'
               /\ \A j \in DOMAIN inbox' : Announces(j)' => j = k
    <3>1. /\ k + 1 \in DOMAIN inbox /\ k + 1 # 1 /\ Announces(k + 1) /\ k \in Nat
          /\ inbox[k + 1] \in Messages
      BY <1>3, <2>1 DEF Heard, OpeningInv, OpeningTypes
    <3>2. NotYetHeard /\ ~Announces(1)
      BY <1>1, <3>1 DEF OpeningInv, OnceInv
    <3>3. stamp # 0
      BY <3>1, MessageKinds DEF Announces
    <3>4. \A j \in DOMAIN inbox' : Announces(j)' => j + 1 = k + 1 /\ j \in Nat
      BY <1>3, <3>1 DEF Heard, OpeningInv, OnceInv
    <3> QED BY <1>6, <3>1, <3>2, <3>3, <3>4
  <2> QED BY <2>1 DEF OnceInv
<1>9. AwaitingInv'
  <2> SUFFICES ASSUME win.awaiting # 0
               PROVE  /\ \A k \in DOMAIN inbox' :
                           OpensOrHides(k)' => \E j \in DOMAIN inbox' : j >= k /\ Announces(j)'
                      /\ Acknowledged' => page'.current = stamp
    BY DEF AwaitingInv
  <2>1. ASSUME NEW k \in DOMAIN inbox', OpensOrHides(k)'
        PROVE  \E j \in DOMAIN inbox' : j >= k /\ Announces(j)'
    <3>1. PICK i \in DOMAIN inbox : i >= k + 1 /\ Announces(i)
      BY <1>3, <2>1 DEF OpeningInv, AwaitingInv
    <3>2. k \in Nat /\ k # 0 /\ i \in Nat
      BY <1>1, <3>1 DEF Heard, OpeningTypes
    <3>3. i - 1 \in DOMAIN inbox' /\ (i - 1) + 1 = i /\ i - 1 >= k
      BY <3>1, <3>2 DEF Heard
    <3>4. Announces(i - 1)'
      BY <1>1, <3>1, <3>3 DEF Announces
    <3> QED BY <3>3, <3>4
  <2>2. ASSUME Acknowledged'
        PROVE  page'.current = stamp
    <3>1. Acknowledged /\ page.current = stamp
      BY <1>4, <2>2 DEF OpeningInv, AwaitingInv
    <3>2. ~OpensOrHides(1)
      BY <1>1, <3>1 DEF OpeningInv, AwaitingInv, OnceInv, NotYetHeard
    <3> QED BY <3>1, <3>2 DEF OpensOrHides
  <2> QED BY <2>1, <2>2
<1>10. PresentedInv'
  BY <1>3 DEF OpeningInv, PresentedInv
<1>11. ExcusedInv'
  <2>1. \A k \in DOMAIN inbox' : Live(inbox'[k]) => k + 1 \in DOMAIN inbox /\ inbox'[k] = inbox[k + 1]
    BY <1>1
  <2> QED BY <2>1 DEF OpeningInv, ExcusedInv, Announced
<1> QED BY <1>2, <1>5, <1>7, <1>8, <1>9, <1>10, <1>11 DEF OpeningInv

(* Nothing is in front of the user before the renderer listens.            *)
LEMMA MountedFirst ==
  ASSUME OpeningInv, win.presented
  PROVE  page.mounted
BY DEF OpeningInv, WindowInv, PresentedInv, MountInv, Quiet

LEMMA HearsStep ==
  ASSUME OpeningInv, Hear
  PROVE  OpeningInv'
<1> DEFINE m == Head(inbox)
<1>1. /\ inbox # <<>> /\ UNCHANGED <<opening, stamp, win, evicted, load, waiting, excused>>
      /\ page \in [mounted : BOOLEAN, active : BOOLEAN, current : Nat,
                   rows : {"none", "blank", "full"}, of : Nat]
      /\ OpeningTypes
  BY DEF Hear, Unheard, OnShown, OnHidden, OnChanged, OnList, Hears, mainVars, OpeningInv, OpeningTypes
<1>2. /\ inbox[1] = m /\ m \in Messages
      /\ inbox' = Tail(inbox) => Heard
      /\ inbox' = Outdated(Tail(inbox)) => Heard /\ \A k \in DOMAIN inbox' : ~Live(inbox'[k])
  BY <1>1, HeardIs
<1>3. ASSUME NEW c \in Calls, c.kind = "list", asked' = Append(Outdated(asked), c)
      PROVE  /\ asked' \in Seq(Calls)
             /\ \A k \in DOMAIN asked' :
                  asked'[k].kind = "ready" => \E j \in DOMAIN asked : asked'[k] = asked[j]
             /\ \A k \in DOMAIN asked' : Live(asked'[k]) => asked'[k] = c
  <2> DEFINE s == Outdated(asked)
  <2>1. /\ s \in Seq(Calls) /\ Queue(asked) /\ Queue(s) /\ Len(s) = Len(asked)
        /\ \A k \in 1 .. Len(asked) :
             /\ ~Live(s[k]) /\ s[k].kind = asked[k].kind
             /\ asked[k].kind # "list" => s[k] = asked[k]
    BY <1>1, OutdatedIs DEF OpeningTypes
  <2>2. asked' = Append(s, c)
    BY <1>3
  <2> HIDE DEF s
  <2>3. /\ asked' \in Seq(Calls) /\ Queue(asked') /\ Len(asked') = Len(s) + 1
        /\ \A k \in 1 .. Len(s) : asked'[k] = s[k]
        /\ asked'[Len(s) + 1] = c
    BY <2>1, <2>2, AppendIs
  <2>4. \A k \in DOMAIN asked' : \/ k \in DOMAIN asked /\ k \in 1 .. Len(asked) /\ asked'[k] = s[k]
                                 \/ asked'[k] = c
    BY <2>1, <2>3 DEF Queue
  <2> QED BY <1>3, <2>1, <2>3, <2>4
<1> HIDE DEF m
<1>4. CASE Unheard
  <2>1. Heard /\ ~page.mounted /\ UNCHANGED <<asked, page>>
    BY <1>2, <1>4 DEF Unheard, mainVars
  <2>2. OpeningTypes'
    BY <1>1, <2>1 DEF OpeningTypes, Heard
  <2>3. \A k \in DOMAIN inbox' : inbox'[k].kind # "list" /\ ~Live(inbox'[k])
    BY <2>1 DEF Heard, OpeningInv, MountInv, Live
  <2>4. RowsInv' /\ MountInv'
    BY <2>1, <2>3 DEF OpeningInv, RowsInv, MountInv
  <2>5. EvictedInv'
    BY <2>1, <2>3 DEF OpeningInv, EvictedInv, MountInv
  <2>6. ~win.presented
    BY <2>1, MountedFirst
  <2>7. ~(page'.rows = "blank")
    BY <2>1 DEF OpeningInv, MountInv
  <2> QED BY <1>1, <2>1, <2>2, <2>4, <2>5, <2>6, <2>7, HearStep
<1>5. CASE OnShown
  <2> DEFINE c == Reload(m.stamp)
  <2>1. /\ page.mounted /\ m.kind = "shown" /\ inbox' = Outdated(Tail(inbox))
        /\ page' = [page EXCEPT !.active = TRUE, !.current = m.stamp, !.rows = "none", !.of = m.stamp]
        /\ asked' = Append(Outdated(asked), c)
    BY <1>2, <1>5 DEF OnShown, Hears, m
  <2>2. m.stamp \in Nat /\ m.stamp # 0
    BY <1>2, <2>1, MessageKinds
  <2>3. c \in Calls /\ c.kind = "list" /\ c.stamp = m.stamp
    BY <2>2 DEF Reload, Calls
  <2> HIDE DEF c
  <2>4. /\ asked' \in Seq(Calls)
        /\ \A k \in DOMAIN asked' :
             asked'[k].kind = "ready" => \E j \in DOMAIN asked : asked'[k] = asked[j]
        /\ \A k \in DOMAIN asked' : Live(asked'[k]) => asked'[k] = c
    BY <1>3, <2>1, <2>3
  <2>5. Heard /\ \A k \in DOMAIN inbox' : ~Live(inbox'[k])
    BY <1>2, <2>1
  <2>6. /\ page' \in [mounted : BOOLEAN, active : BOOLEAN, current : Nat,
                      rows : {"none", "blank", "full"}, of : Nat]
        /\ page'.mounted /\ page'.current = m.stamp /\ page'.rows = "none"
    BY <1>1, <2>1, <2>2
  <2>7. OpeningTypes'
    BY <1>1, <2>4, <2>5, <2>6 DEF OpeningTypes, Heard
  <2>8. RowsInv' /\ MountInv' /\ EvictedInv'
    BY <2>3, <2>4, <2>5, <2>6 DEF RowsInv, MountInv, EvictedInv
  <2>9. ~win.presented
    BY <1>2, <2>1, <2>5 DEF Heard, OpeningInv, PresentedInv, OpensOrHides
  <2> QED BY <1>1, <1>2, <2>1, <2>4, <2>5, <2>6, <2>7, <2>8, <2>9, HearStep
<1>6. CASE OnHidden
  <2>1. /\ page.mounted /\ m.kind = "hidden" /\ inbox' = Outdated(Tail(inbox))
        /\ page' = [page EXCEPT !.active = FALSE, !.current = 0, !.rows = "none", !.of = 0]
        /\ asked' = Outdated(asked)
    BY <1>2, <1>6 DEF OnHidden, Hears, Scrubbed, m
  <2>2. /\ asked' \in Seq(Calls) /\ Queue(asked) /\ Queue(asked') /\ Len(asked') = Len(asked)
        /\ \A k \in 1 .. Len(asked) :
             /\ ~Live(asked'[k]) /\ asked'[k].kind = asked[k].kind
             /\ asked[k].kind # "list" => asked'[k] = asked[k]
    BY <1>1, <2>1, OutdatedIs DEF OpeningTypes
  <2>3. /\ \A k \in DOMAIN asked' :
             asked'[k].kind = "ready" => \E j \in DOMAIN asked : asked'[k] = asked[j]
        /\ \A k \in DOMAIN asked' : ~Live(asked'[k])
    BY <2>2 DEF Queue
  <2>4. Heard /\ \A k \in DOMAIN inbox' : ~Live(inbox'[k])
    BY <1>2, <2>1
  <2>5. /\ page' \in [mounted : BOOLEAN, active : BOOLEAN, current : Nat,
                      rows : {"none", "blank", "full"}, of : Nat]
        /\ page'.mounted /\ page'.current = 0 /\ page'.rows = "none"
    BY <1>1, <2>1
  <2>6. OpeningTypes'
    BY <1>1, <2>2, <2>4, <2>5 DEF OpeningTypes, Heard
  <2>7. RowsInv' /\ MountInv' /\ EvictedInv'
    BY <2>3, <2>4, <2>5 DEF RowsInv, MountInv, EvictedInv
  <2>8. ~win.presented
    BY <1>2, <2>1, <2>4 DEF Heard, OpeningInv, PresentedInv, OpensOrHides
  <2> QED BY <1>1, <1>2, <2>1, <2>3, <2>4, <2>5, <2>6, <2>7, <2>8, HearStep
<1>7. CASE OnChanged
  <2>1. page.mounted /\ m.kind = "changed"
    BY <1>2, <1>7 DEF OnChanged, Hears, m
  <2>2. CASE page.active
    <3> DEFINE c == [Reload(page.current) EXCEPT !.first = FALSE]
    <3>1. /\ inbox' = Outdated(Tail(inbox)) /\ page' = [page EXCEPT !.rows = "none"]
          /\ asked' = Append(Outdated(asked), c)
      BY <1>7, <2>2 DEF OnChanged
    <3>2. Reload(page.current) \in [kind : {"list"}, live : BOOLEAN, first : BOOLEAN, stamp : {page.current}]
      BY DEF Reload
    <3>3. c \in Calls /\ c.kind = "list" /\ c.stamp = page.current
      <4>1. c \in [kind : {"list"}, live : BOOLEAN, first : BOOLEAN, stamp : {page.current}]
        BY <3>2
      <4> HIDE DEF c
      <4> QED BY <1>1, <4>1 DEF Calls
    <3> HIDE DEF c
    <3>4. /\ asked' \in Seq(Calls)
          /\ \A k \in DOMAIN asked' :
               asked'[k].kind = "ready" => \E j \in DOMAIN asked : asked'[k] = asked[j]
          /\ \A k \in DOMAIN asked' : Live(asked'[k]) => asked'[k] = c
      BY <1>3, <3>1, <3>3
    <3>5. Heard /\ \A k \in DOMAIN inbox' : ~Live(inbox'[k])
      BY <1>2, <3>1
    <3>6. /\ page' \in [mounted : BOOLEAN, active : BOOLEAN, current : Nat,
                        rows : {"none", "blank", "full"}, of : Nat]
          /\ page'.mounted /\ page'.current = page.current /\ page'.rows = "none"
      BY <1>1, <2>1, <3>1
    <3>7. OpeningTypes'
      BY <1>1, <3>4, <3>5, <3>6 DEF OpeningTypes, Heard
    <3>8. RowsInv' /\ MountInv' /\ EvictedInv'
      BY <3>3, <3>4, <3>5, <3>6 DEF RowsInv, MountInv, EvictedInv
    <3>9. win.presented => page'.current = stamp
      BY <2>2, <3>6 DEF OpeningInv, PresentedInv, Quiet
    <3> QED BY <1>1, <3>4, <3>5, <3>6, <3>7, <3>8, <3>9, HearStep
  <2>3. CASE ~page.active
    <3>1. Heard /\ UNCHANGED <<page, asked>>
      BY <1>2, <1>7, <2>3 DEF OnChanged
    <3>2. OpeningTypes'
      BY <1>1, <3>1 DEF OpeningTypes, Heard
    <3>3. \A k \in DOMAIN inbox' : Live(inbox'[k]) => k + 1 \in DOMAIN inbox /\ inbox'[k] = inbox[k + 1]
      BY <3>1 DEF Heard
    <3>4. RowsInv' /\ MountInv'
      BY <2>1, <3>1, <3>3 DEF OpeningInv, RowsInv, MountInv
    <3>5. EvictedInv'
      <4>1. \A j \in DOMAIN inbox : inbox[j].kind = "hidden" =>
              j \in Nat /\ j - 1 \in DOMAIN inbox' /\ inbox'[j - 1].kind = "hidden"
        BY <1>2, <2>1, <3>1 DEF Heard
      <4>2. \A j \in DOMAIN inbox, k \in DOMAIN inbox' : j > k + 1 => j - 1 > k
        BY <3>1 DEF Heard
      <4> QED BY <1>1, <3>1, <3>3, <4>1, <4>2 DEF OpeningInv, EvictedInv
    <3>6. win.presented => page'.current = stamp \/ Quiet'
      BY <3>1, <3>3 DEF OpeningInv, PresentedInv, Quiet
    <3>7. Announced /\ page'.current = stamp /\ page'.rows = "blank" => stamp \in excused
      BY <3>1 DEF OpeningInv, ExcusedInv
    <3> QED BY <1>1, <3>1, <3>2, <3>4, <3>5, <3>6, <3>7, HearStep
  <2> QED BY <2>2, <2>3
<1>8. CASE OnList
  <2>1. /\ page.mounted /\ m.kind = "list" /\ Heard /\ UNCHANGED asked
        /\ page' = IF m.live THEN [page EXCEPT !.rows = m.rows, !.of = m.stamp] ELSE page
    BY <1>2, <1>8 DEF OnList, Hears, m
  <2>2. m.live \in BOOLEAN /\ m.stamp \in Nat /\ m.rows \in {"blank", "full"}
    BY <1>2, <2>1, MessageKinds
  <2>3. /\ page' \in [mounted : BOOLEAN, active : BOOLEAN, current : Nat,
                      rows : {"none", "blank", "full"}, of : Nat]
        /\ page'.mounted /\ page'.current = page.current /\ page'.active = page.active
        /\ m.live => page'.rows = m.rows /\ page'.of = m.stamp
        /\ ~m.live => page' = page
    BY <1>1, <2>1, <2>2
  <2>4. 1 \in DOMAIN inbox /\ (m.live <=> Live(inbox[1]))
    BY <1>2, <2>1 DEF Heard, Live
  <2>5. OpeningTypes'
    BY <1>1, <2>1, <2>3 DEF OpeningTypes, Heard
  <2>6. \A k \in DOMAIN inbox' : Live(inbox'[k]) => k + 1 \in DOMAIN inbox /\ inbox'[k] = inbox[k + 1]
    BY <2>1 DEF Heard
  <2>7. RowsInv' /\ MountInv'
    <3>1. page'.rows # "none" => page'.of = page'.current
      BY <1>2, <2>3, <2>4 DEF OpeningInv, RowsInv
    <3> QED BY <2>1, <2>3, <2>6, <3>1 DEF OpeningInv, RowsInv, MountInv
  <2>8. EvictedInv'
    <3>1. \A j \in DOMAIN inbox : inbox[j].kind = "hidden" =>
            j \in Nat /\ j - 1 \in DOMAIN inbox' /\ inbox'[j - 1].kind = "hidden"
      BY <1>2, <2>1 DEF Heard
    <3>2. \A j \in DOMAIN inbox, k \in DOMAIN inbox' : j > k + 1 => j - 1 > k
      BY <2>1 DEF Heard
    <3>3. evicted /\ page'.rows = "full" => \E j \in DOMAIN inbox : inbox[j].kind = "hidden"
      BY <1>2, <2>3, <2>4 DEF OpeningInv, EvictedInv
    <3> QED BY <1>1, <2>6, <3>1, <3>2, <3>3 DEF OpeningInv, EvictedInv
  <2>9. win.presented => page'.current = stamp \/ Quiet'
    <3>1. Quiet => Quiet'
      BY <2>1, <2>3, <2>4, <2>6 DEF Quiet
    <3> QED BY <2>3, <3>1 DEF OpeningInv, PresentedInv
  <2>10. Announced /\ page'.current = stamp /\ page'.rows = "blank" => stamp \in excused
    BY <1>2, <2>3, <2>4 DEF OpeningInv, ExcusedInv, RowsInv
  <2> QED BY <1>1, <2>1, <2>3, <2>5, <2>7, <2>8, <2>9, <2>10, HearStep
<1> QED BY <1>4, <1>5, <1>6, <1>7, <1>8 DEF Hear

(* The page asks main for something; only Mount changes the page.          *)
LEMMA CallStep ==
  ASSUME OpeningInv, UNCHANGED <<opening, stamp, win, evicted, load, waiting, inbox, excused>>,
         NEW c \in Calls, asked' = Append(asked, c),
         page' = [page EXCEPT !.mounted = TRUE],
         \/ c.kind = "ready" /\ c.stamp = page.current /\ page.mounted
         \/ c.kind = "copy" /\ page.mounted
         \/ c.kind = "list" /\ c.stamp = page.current /\ ~page.mounted
  PROVE  OpeningInv'
<1>1. /\ page' \in [mounted : BOOLEAN, active : BOOLEAN, current : Nat,
                    rows : {"none", "blank", "full"}, of : Nat]
      /\ page'.mounted /\ page'.active = page.active /\ page'.current = page.current
      /\ page'.rows = page.rows /\ page'.of = page.of
  BY DEF OpeningInv, OpeningTypes
<1>2. /\ asked' \in Seq(Calls)
      /\ \A k \in DOMAIN asked' : asked'[k] = c \/ (k \in DOMAIN asked /\ asked'[k] = asked[k])
  BY AppendIs DEF OpeningInv, OpeningTypes, Queue
<1>3. Live(c) => c.stamp = page.current /\ page.active
  BY DEF OpeningInv, MountInv, Live
<1>4. OpeningTypes' /\ WindowInv' /\ MountInv'
  BY <1>1, <1>2 DEF OpeningInv, OpeningTypes, WindowInv, MountInv
<1>5. StampInv' /\ RowsInv'
  BY <1>1, <1>2, <1>3 DEF OpeningInv, StampInv, RowsInv
<1>6. NotYetHeard => NotYetHeard'
  BY <1>1, <1>2 DEF NotYetHeard, Acknowledged
<1>7. WaitingInv' /\ OnceInv'
  BY <1>6 DEF OpeningInv, WaitingInv, OnceInv, Announces, Announced
<1>8. AwaitingInv'
  <2>1. Acknowledged' => Acknowledged \/ page.current = stamp
    BY <1>2 DEF Acknowledged
  <2> QED BY <1>1, <2>1 DEF OpeningInv, AwaitingInv, OpensOrHides, Announces
<1>9. PresentedInv'
  <2>1. Quiet => Quiet'
    BY <1>1, <1>2, <1>3 DEF Quiet
  <2> QED BY <1>1, <2>1 DEF OpeningInv, PresentedInv, OpensOrHides
<1>10. ExcusedInv' /\ EvictedInv'
  BY <1>1 DEF OpeningInv, ExcusedInv, EvictedInv, Announced
<1> QED BY <1>4, <1>5, <1>7, <1>8, <1>9, <1>10 DEF OpeningInv

LEMMA EscapeStep ==
  ASSUME OpeningInv, Escape
  PROVE  OpeningInv'
<1> DEFINE c == [kind |-> "close"]
           s == Outdated(asked)
<1>1. /\ win.presented /\ inbox' = Outdated(inbox) /\ asked' = Append(s, c)
      /\ page' = [page EXCEPT !.active = FALSE, !.current = 0, !.rows = "none", !.of = 0]
      /\ UNCHANGED <<opening, stamp, win, evicted, load, waiting, excused>>
  BY DEF Escape, Scrubbed, mainVars
<1>2. /\ page' \in [mounted : BOOLEAN, active : BOOLEAN, current : Nat,
                    rows : {"none", "blank", "full"}, of : Nat]
      /\ page'.mounted = page.mounted /\ ~page'.active /\ page'.current = 0 /\ page'.rows = "none"
  BY <1>1 DEF OpeningInv, OpeningTypes
<1>3. page.mounted
  BY <1>1, MountedFirst
<1>4. /\ inbox' \in Seq(Messages) /\ DOMAIN inbox' = DOMAIN inbox
      /\ \A k \in DOMAIN inbox' : /\ ~Live(inbox'[k]) /\ inbox'[k].kind = inbox[k].kind
                                  /\ inbox'[k].kind # "list" => inbox'[k] = inbox[k]
  <2>1. inbox \in Seq(Messages)
    BY DEF OpeningInv, OpeningTypes
  <2>2. /\ inbox' \in Seq(Messages) /\ Queue(inbox) /\ Queue(inbox') /\ Len(inbox') = Len(inbox)
        /\ \A k \in 1 .. Len(inbox) :
             /\ ~Live(inbox'[k]) /\ inbox'[k].kind = inbox[k].kind
             /\ inbox[k].kind # "list" => inbox'[k] = inbox[k]
    BY <1>1, <2>1, OutdatedIs
  <2> QED BY <2>2 DEF Queue
<1>5. /\ s \in Seq(Calls) /\ DOMAIN s = DOMAIN asked /\ DOMAIN s = 1 .. Len(s)
      /\ \A k \in DOMAIN s : /\ ~Live(s[k]) /\ s[k].kind = asked[k].kind
                             /\ s[k].kind # "list" => s[k] = asked[k]
  BY OutdatedIs DEF OpeningInv, OpeningTypes, Queue
<1>6. c \in Calls /\ c.kind = "close" /\ ~Live(c)
  BY DEF Calls, Live
<1> HIDE DEF s, c
<1>7. /\ asked' \in Seq(Calls)
      /\ \A k \in DOMAIN asked' : asked'[k] = c \/ (k \in DOMAIN asked /\ asked'[k] = s[k])
  BY <1>1, <1>5, <1>6, AppendIs DEF Queue
<1>8. /\ \A k \in DOMAIN asked' : ~Live(asked'[k])
      /\ \A k \in DOMAIN asked' :
           asked'[k].kind = "ready" => k \in DOMAIN asked /\ asked'[k] = asked[k]
  BY <1>5, <1>6, <1>7
<1>9. win.awaiting = 0 /\ stamp # 0 /\ \A k \in DOMAIN inbox' : ~OpensOrHides(k)'
  BY <1>1, <1>4 DEF OpeningInv, WindowInv, PresentedInv, OpensOrHides
<1>10. OpeningTypes' /\ WindowInv' /\ MountInv'
  BY <1>1, <1>2, <1>3, <1>4, <1>7 DEF OpeningInv, OpeningTypes, WindowInv, MountInv
<1>11. StampInv' /\ RowsInv'
  <2>1. page'.current <= stamp'
    BY <1>1, <1>2 DEF OpeningInv, OpeningTypes
  <2>2. \A k \in DOMAIN inbox' : inbox'[k].kind = "shown" => inbox'[k].stamp <= stamp'
    BY <1>1, <1>4 DEF OpeningInv, StampInv
  <2>3. \A k \in DOMAIN asked' : asked'[k].kind = "ready" => asked'[k].stamp <= stamp'
    BY <1>1, <1>8 DEF OpeningInv, StampInv
  <2>4. RowsInv'
    BY <1>2, <1>4, <1>8 DEF RowsInv
  <2> QED BY <2>1, <2>2, <2>3, <2>4 DEF StampInv
<1>12. WaitingInv' /\ OnceInv' /\ AwaitingInv'
  BY <1>1, <1>9 DEF OpeningInv, WaitingInv, OnceInv, AwaitingInv, Announced, Announces, OpensOrHides
<1>13. PresentedInv'
  BY <1>2, <1>4, <1>8, <1>9 DEF PresentedInv, Quiet
<1>14. ExcusedInv' /\ EvictedInv'
  BY <1>1, <1>2, <1>4 DEF OpeningInv, ExcusedInv, EvictedInv, Announced
<1> QED BY <1>10, <1>11, <1>12, <1>13, <1>14 DEF OpeningInv

-----------------------------------------------------------------------------
(* The invariant is inductive.                                             *)
LEMMA OpeningStarts == OpeningInit => OpeningInv
<1> SUFFICES ASSUME OpeningInit
             PROVE  OpeningInv
  OBVIOUS
<1>1. /\ opening = 0 /\ stamp = 0 /\ evicted = FALSE /\ load = "idle" /\ waiting = {}
      /\ win = [shown |-> FALSE, presented |-> FALSE, awaiting |-> 0]
      /\ asked = <<>> /\ inbox = <<>>
      /\ page = [mounted |-> FALSE, active |-> TRUE, current |-> 0, rows |-> "none", of |-> 0]
  BY DEF OpeningInit, Closed
<1>2. DOMAIN asked = {} /\ DOMAIN inbox = {} /\ asked \in Seq(Calls) /\ inbox \in Seq(Messages)
  BY <1>1
<1>3. OpeningTypes
  BY <1>1, <1>2 DEF OpeningTypes
<1>4. ~Announced /\ ~win.presented /\ win.awaiting = 0
  BY <1>1 DEF Announced
<1>5. WindowInv /\ AwaitingInv /\ PresentedInv /\ ExcusedInv
  BY <1>4 DEF WindowInv, AwaitingInv, PresentedInv, ExcusedInv
<1>6. StampInv /\ RowsInv /\ WaitingInv /\ OnceInv /\ MountInv /\ EvictedInv
  BY <1>1, <1>2 DEF StampInv, RowsInv, WaitingInv, OnceInv, MountInv, EvictedInv
<1> QED BY <1>3, <1>5, <1>6 DEF OpeningInv

LEMMA OpeningStep == OpeningInv /\ [OpeningNext]_openingVars => OpeningInv'
<1> SUFFICES ASSUME OpeningInv, [OpeningNext]_openingVars
             PROVE  OpeningInv'
  OBVIOUS
<1>1. /\ load \in {"idle", "running", "overtaken"} /\ evicted \in BOOLEAN
      /\ page \in [mounted : BOOLEAN, active : BOOLEAN, current : Nat,
                   rows : {"none", "blank", "full"}, of : Nat]
  BY DEF OpeningInv, OpeningTypes
<1>2. CASE ShowPalette
  BY <1>2, ShowStep
<1>3. CASE ToggleHides
  BY <1>3, HideStep DEF ToggleHides, Answered
<1>4. CASE Blur
  BY <1>4, HideStep DEF Blur, Answered
<1>5. CASE Escape
  BY <1>5, EscapeStep
<1>6. CASE Enter
  <2>1. /\ asked' = Append(asked, [kind |-> "copy"]) /\ win.presented
        /\ UNCHANGED <<opening, stamp, win, evicted, load, waiting, inbox, page, excused>>
    BY <1>6 DEF Enter, mainVars
  <2>2. page.mounted /\ page' = [page EXCEPT !.mounted = TRUE]
    BY <1>1, <2>1, MountedFirst
  <2>3. [kind |-> "copy"] \in Calls /\ [kind |-> "copy"].kind = "copy"
    BY DEF Calls
  <2> QED BY <2>1, <2>2, <2>3, CallStep
<1>7. CASE LockScreen
  BY <1>7, EvictStep DEF LockScreen
<1>8. CASE Suspend
  BY <1>8, EvictStep DEF Suspend
<1>9. CASE HistoryChanges
  <2> DEFINE m == [kind |-> "changed"]
  <2>1. inbox' = Append(inbox, m) /\ m \in Messages /\ m.kind = "changed"
    BY <1>9 DEF HistoryChanges, Messages
  <2>2. UNCHANGED <<opening, stamp, win, evicted, load, waiting, page, excused>> /\ Answered
    BY <1>9 DEF HistoryChanges, mainVars, Answered
  <2> HIDE DEF m
  <2> QED BY <2>1, <2>2, TellStep
<1>10. ASSUME NEW b \in BOOLEAN, IdleTick(b)
       PROVE  OpeningInv'
  <2>1. CASE b /\ ~evictedWhileIdle
    BY <1>10, <2>1, EvictStep DEF IdleTick
  <2>2. CASE ~(b /\ ~evictedWhileIdle)
    BY <1>1, <1>10, <2>2, CalmStep DEF IdleTick, Answered
  <2> QED BY <2>1, <2>2
<1>11. ASSUME NEW b \in BOOLEAN, Returns(b)
       PROVE  OpeningInv'
  BY <1>1, <1>11, CalmStep DEF Returns, JoinedLoad, Answered
<1>12. ASSUME NEW b \in BOOLEAN, LoadEnds(b)
       PROVE  OpeningInv'
  BY <1>12, LoadEndsStep
<1>13. CASE Answer
  BY <1>13, AnswerStep
<1>14. CASE Hear
  BY <1>14, HearsStep
<1>15. CASE Mount
  <2> DEFINE c == Reload(0)
  <2>1. /\ asked' = Append(asked, c) /\ ~page.mounted /\ page' = [page EXCEPT !.mounted = TRUE]
        /\ UNCHANGED <<opening, stamp, win, evicted, load, waiting, inbox, excused>>
    BY <1>15 DEF Mount, mainVars
  <2>2. c \in Calls /\ c.kind = "list" /\ c.stamp = page.current
    BY <2>1 DEF Reload, Calls, OpeningInv, MountInv
  <2> HIDE DEF c
  <2> QED BY <2>1, <2>2, CallStep
<1>16. ASSUME NEW n \in 0 .. MaxMoves, NEW b \in BOOLEAN, CopyEnds(n, b)
       PROVE  OpeningInv'
  <2>1. CASE b /\ n = opening
    BY <1>16, <2>1, HideStep DEF CopyEnds, Answered
  <2>2. CASE ~(b /\ n = opening)
    BY <1>1, <1>16, <2>2, CalmStep DEF CopyEnds, Answered
  <2> QED BY <2>1, <2>2
<1>17. ASSUME NEW n \in 1 .. MaxMoves, Acknowledge(n)
       PROVE  OpeningInv'
  <2> DEFINE c == [kind |-> "ready", stamp |-> n]
  <2>1. /\ UNCHANGED <<opening, stamp, win, evicted, load, waiting, inbox, page, excused>>
        /\ asked' = IF page.current = n THEN Append(asked, c) ELSE asked
    BY <1>17 DEF Acknowledge, mainVars
  <2>2. c \in Calls /\ c.kind = "ready" /\ c.stamp = n /\ n # 0
    BY OpeningAssumption DEF Calls
  <2> HIDE DEF c
  <2>3. CASE page.current = n
    <3>1. page.mounted /\ page' = [page EXCEPT !.mounted = TRUE]
      BY <1>1, <2>1, <2>2, <2>3 DEF OpeningInv, MountInv
    <3> QED BY <2>1, <2>2, <2>3, <3>1, CallStep
  <2>4. CASE page.current # n
    BY <1>1, <2>1, <2>4, CalmStep DEF Answered
  <2> QED BY <2>3, <2>4
<1>18. CASE UNCHANGED openingVars
  BY <1>1, <1>18, CalmStep DEF openingVars, mainVars, Answered
<1> QED BY <1>2, <1>3, <1>4, <1>5, <1>6, <1>7, <1>8, <1>9, <1>10, <1>11, <1>12, <1>13,
           <1>14, <1>15, <1>16, <1>17, <1>18 DEF OpeningNext

LEMMA OpeningHolds == OpeningSpec => []OpeningInv
BY OpeningStarts, OpeningStep, PTL DEF OpeningSpec

(* The window in front of the user never shows the rows of another opening, *)
(* nor blank ones without a reason, however openings, evictions, answers    *)
(* and acknowledgements interleave.  (showPalette, evictPreviewCache and    *)
(* ready in wiring.ts; start() in palette-state.svelte.ts.)                 *)
THEOREM OpeningShowsItsOwnRows == OpeningSpec => []PresentsItsOwn
<1>1. OpeningInv => PresentsItsOwn
  BY DEF OpeningInv, PresentsItsOwn, PresentedInv, RowsInv, ExcusedInv, Announced, Quiet
<1> QED BY <1>1, OpeningHolds, PTL

(* An eviction reaches the renderer, whatever was on its way to it when it  *)
(* happened.  (evictPreviewCache, wiring.ts:223-228.)                       *)
THEOREM EvictionReachesTheRenderer == OpeningSpec => []NothingKeptAfterEviction
<1>1. OpeningInv => NothingKeptAfterEviction
  <2> SUFFICES ASSUME OpeningInv, evicted, inbox = <<>>, page.rows = "full"
               PROVE  FALSE
    BY DEF NothingKeptAfterEviction
  <2>1. DOMAIN inbox = {}
    OBVIOUS
  <2> QED BY <2>1 DEF OpeningInv, EvictedInv
<1> QED BY <1>1, OpeningHolds, PTL
=============================================================================
