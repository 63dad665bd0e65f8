------------------------------- MODULE Keyring -------------------------------
(***************************************************************************)
(* The keyring (packages/keyring): one live master key, and key.bin, where *)
(* it is kept wrapped by the operating system or derived from a passphrase.*)
(* A call is one synchronous step of the process that makes it; the files  *)
(* it writes change one after the other, so that a crash in the middle of  *)
(* a call leaves the disk at one of the stages the call goes through.      *)
(***************************************************************************)
EXTENDS Integers, Sequences, FiniteSets

CONSTANTS
  Keys,        (* master keys that can be drawn or derived                 *)
  Phrases,     (* passphrases long enough to be accepted                   *)
  NoKey, NoPhrase

ASSUME KeyringAssumption == NoKey \notin Keys /\ NoPhrase \notin Phrases

VARIABLES
  keyFile,     (* key.bin                                                  *)
  log,         (* log.bin: a record is what it says and the key it is      *)
               (* sealed with                                              *)
  masterKey,   (* the live key of the process, or NoKey                    *)
  mode,        (* "locked", "os-keyring", "passphrase"                     *)
  drawn        (* the keys drawn so far: no key is drawn twice             *)

disk == <<keyFile, log>>
live == <<masterKey, mode>>

KeyFileIs(m, k, p) == [state |-> "ok", mode |-> m, key |-> k, phrase |-> p]
Absent == [state |-> "absent", mode |-> "locked", key |-> NoKey, phrase |-> NoPhrase]
Malformed == [Absent EXCEPT !.state = "malformed"]

Fresh == Keys \ drawn

(* The disk after each file operation of a call, the last one its outcome. *)
Disk(file, records) == [keyFile |-> file, log |-> records]

(* writeFile0600: the file is truncated, then written and flushed.         *)
WriteStages(file, records) == <<Disk(Malformed, records), Disk(file, records)>>

(* rekeyAfterCorruption() forgets the records before the key that opens    *)
(* them, then makes a new key if the system can wrap one.                  *)
(* Mutant: the key goes first.                                             *)
RekeyStages_KeyFirst(strong, k) ==
  <<Disk(Absent, log), Disk(Absent, {})>>
    \o IF strong THEN WriteStages(KeyFileIs("os-keyring", k, NoPhrase), {}) ELSE <<>>

RekeyStages(strong, k) ==
  <<Disk(keyFile, {}), Disk(Absent, {})>>
    \o IF strong THEN WriteStages(KeyFileIs("os-keyring", k, NoPhrase), {}) ELSE <<>>

(* The call runs to its end, or the process dies at one of the stages.     *)
Reaches(stage) == keyFile' = stage.keyFile /\ log' = stage.log
Completes(stages) == Reaches(stages[Len(stages)])
DiesWithin(stages) == \E i \in 1 .. Len(stages) - 1 : Reaches(stages[i])

Holds(k, m) == masterKey' = k /\ mode' = m

lock == Holds(NoKey, "locked")

(* getOrCreateMasterKey(): what it answers for the key file it finds.      *)
(* strong: the system offers a wrapping that is not a hard-coded password; *)
(* unwraps: it can still unwrap what it wrapped.                           *)
Refused(strong, unwraps) ==
  /\ masterKey = NoKey
  /\ \/ ~strong
     \/ keyFile.state = "malformed"
     \/ keyFile.state = "ok" /\ (keyFile.mode = "passphrase" \/ ~unwraps)

FirstLaunch(strong) == masterKey = NoKey /\ strong /\ keyFile.state = "absent"

getOrCreateMasterKey(strong, unwraps, k) ==
  /\ ~Refused(strong, unwraps)
  /\ IF FirstLaunch(strong)
     THEN /\ k \in Fresh /\ drawn' = drawn \cup {k}
          /\ Completes(WriteStages(KeyFileIs("os-keyring", k, NoPhrase), log))
          /\ Holds(k, "os-keyring")
     ELSE /\ UNCHANGED <<disk, drawn>>
          /\ IF masterKey = NoKey THEN k = keyFile.key /\ Holds(k, "os-keyring")
             ELSE k = masterKey /\ UNCHANGED live

(* unlockWithPassphrase(): the file's passphrase, or the first one.        *)
unlockWithPassphrase(p, k) ==
  /\ masterKey = NoKey /\ p \in Phrases
  /\ \/ /\ keyFile.state = "ok" /\ keyFile.mode = "passphrase"
        /\ p = keyFile.phrase /\ k = keyFile.key
        /\ UNCHANGED <<disk, drawn>>
     \/ /\ keyFile.state = "absent"
        /\ k \in Fresh /\ drawn' = drawn \cup {k}
        /\ Completes(WriteStages(KeyFileIs("passphrase", k, p), log))
  /\ Holds(k, "passphrase")

(* rekeyAfterCorruption()                                                  *)
rekeyAfterCorruption(strong, k) ==
  /\ k \in Fresh /\ drawn' = drawn \cup {k}
  /\ Completes(RekeyStages(strong, k))
  /\ IF strong THEN Holds(k, "os-keyring") ELSE lock

-----------------------------------------------------------------------------

KeyringInit ==
  /\ keyFile = Absent /\ log = {} /\ drawn = {}
  /\ masterKey = NoKey /\ mode = "locked"
=============================================================================
