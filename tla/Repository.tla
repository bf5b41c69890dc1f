----------------------------- MODULE Repository -----------------------------
(***************************************************************************)
(* The configuration and the key file of a repository: initialisation with *)
(* a password, with a plaintext key file, or without a key (simple/init.go,*)
(* simple/keys.go), migration of a plaintext key file to one that a        *)
(* password opens, unlocking, and the chunking polynomial that is read     *)
(* from, or added to, the configuration (simple/chunk_cdc.go).             *)
(*                                                                         *)
(* Every write is fsutil.WriteFileAtomic: the file changes at once when it *)
(* is renamed, and its name survives a power loss once the directory is    *)
(* synced.  Argon2 and AES-GCM are ideal: a key file opens with the        *)
(* password it was made with.                                              *)
(***************************************************************************)
EXTENDS Naturals

CONSTANTS Procs,       \* processes that share the repository
          Passwords,
          NoFile,      \* what reading a file that is not there gives
          MaxCalls,    \* how many calls begin
          MaxFaults    \* how often a process is killed, power lost, the
                       \* configuration damaged

(* What repo.key and config.json may hold.  A key file is wrapped by a     *)
(* password (GEK1), or in the clear (JSON); a polynomial of 0 is one that  *)
(* was never drawn.                                                        *)
KeyFiles == [mode : {"gek1"}, key : Nat, password : Passwords]
              \cup [mode : {"legacy"}, key : Nat]
Configs == [polynomial : Nat, encrypted : BOOLEAN]

ASSUME RepositoryAssumption ==
    /\ MaxCalls \in Nat /\ MaxFaults \in Nat
    /\ NoFile \notin Nat /\ NoFile \notin Passwords
    /\ NoFile \notin KeyFiles /\ NoFile \notin Configs

VARIABLES disk,       \* the two files as every process sees them
          durable,    \* and as they are after a power loss
          manifests,  \* some manifest is stored
          proc,       \* what each process is doing
          calls,      \* calls begun, which also numbers what they draw at random
          faults,
          damaged,    \* the configuration was damaged
          missed,     \* what an initialisation failed to see, of Signs
          data,       \* keys that manifests were sealed under
          granted     \* passwords that a call has returned success for, when
                      \* no other migration was about to write

vars == <<disk, durable, manifests, proc, calls, faults, damaged, missed, data, granted>>

GEK1(key, password) == [mode |-> "gek1", key |-> key, password |-> password]
Legacy(key) == [mode |-> "legacy", key |-> key]
Config(polynomial, encrypted) == [polynomial |-> polynomial, encrypted |-> encrypted]

(* A process: the step of its call, how the call initialises, the password *)
(* it was given, what it drew at random, the configuration and the key it  *)
(* has read, and whether no other migration was about to write when it     *)
(* synced the key file.                                                    *)
Idle == [pc |-> "idle", how |-> NoFile, password |-> NoFile, draw |-> 0,
         config |-> NoFile, key |-> NoFile, alone |-> FALSE]

Init ==
    /\ disk \in {[config |-> NoFile, key |-> NoFile],
                 \* repositories of older versions
                 [config |-> Config(0, TRUE), key |-> Legacy(0)],
                 [config |-> Config(0, FALSE), key |-> NoFile]}
    /\ durable = disk
    /\ manifests = FALSE
    /\ proc = [p \in Procs |-> Idle]
    /\ calls = 0 /\ faults = 0 /\ damaged = FALSE /\ missed = {}
    /\ data = {} /\ granted = {}

-----------------------------------------------------------------------------
Initialising(p) == proc[p].pc \in {"config", "configSync", "key", "keySync", "load",
                                   "flag", "flagSync"}

(* A call begins, goes on, returns an error, or a result.  The application *)
(* initialises a repository alone: no call guards against another          *)
(* initialisation that is under way.                                       *)
Begin(p, state) ==
    /\ proc[p] = Idle
    /\ \A q \in Procs : ~Initialising(q)
    /\ calls < MaxCalls
    /\ calls' = calls + 1
    /\ proc' = [proc EXCEPT ![p] = state]
    /\ UNCHANGED <<disk, durable, manifests, faults, damaged, data, granted>>

Goto(p, pc) == proc' = [proc EXCEPT ![p].pc = pc]
Return(p) == proc' = [proc EXCEPT ![p] = Idle]

(* The rename of WriteFileAtomic, and the sync of the directory, which     *)
(* makes every name in it durable.                                         *)
Rename(file, content) ==
    /\ disk' = [disk EXCEPT ![file] = content]
    /\ UNCHANGED <<durable, manifests, calls, faults, damaged, missed, data, granted>>

SyncDir ==
    /\ durable' = disk
    /\ UNCHANGED <<disk, manifests, calls, faults, damaged, missed, data>>

(* Any other call of a process on the files fails, and it returns the      *)
(* error; the two reads of IsGBRepo return none when they fail.            *)
CallFails(p) ==
    /\ proc[p].pc # "idle"
    /\ Return(p)
    /\ UNCHANGED <<disk, durable, manifests, calls, faults, damaged, missed, data, granted>>

-----------------------------------------------------------------------------
(* What there is of a repository: a configuration that is whole, manifests.*)
Signs == {s \in {"config", "manifests"} :
             IF s = "config" THEN disk.config # NoFile ELSE manifests}

(* Mutant: only the configuration is looked at.                            *)
IsGBRepoByConfig(failed) == "config" \in Signs \ failed

(* IsGBRepo: a configuration that LoadConfig reads, or any manifest that   *)
(* ReadDir lists.  A read that fails counts as finding nothing.            *)
IsGBRepo(failed) == Signs \ failed # {}

(* InitRepo, the first part of all three: how is what the caller asks for, *)
(* draw stands for what is drawn at random, failed for the reads that fail.*)
InitRepo(p, how, password) ==
    /\ \A q \in Procs : proc[q] = Idle
    /\ \E failed \in SUBSET {"config", "manifests"} :
         /\ ~IsGBRepo(failed)
         /\ missed' = missed \cup (Signs \cap failed)
    /\ Begin(p, [Idle EXCEPT !.pc = "config", !.how = how, !.password = password,
                             !.draw = calls + 1])

InitSaveConfig(p) ==
    /\ proc[p].pc = "config"
    /\ Rename("config", Config(proc[p].draw, FALSE))
    /\ Goto(p, "configSync")

InitSyncConfig(p) ==
    /\ proc[p].pc = "configSync"
    /\ SyncDir
    /\ IF proc[p].how = "plain" THEN Return(p) ELSE Goto(p, "key")
    /\ UNCHANGED granted

(* Mutant: the configuration is marked first, the key written after it.    *)
InitSaveKeyLast(p) ==
    /\ proc[p].pc = "key"
    /\ Rename("config", [disk.config EXCEPT !.encrypted = TRUE])
    /\ Goto(p, "keySync")

(* InitRepoWithPassword and InitRepoWithKeyFile write the master key ...   *)
InitSaveKey(p) ==
    /\ proc[p].pc = "key"
    /\ Rename("key", IF proc[p].how = "password"
                     THEN GEK1(proc[p].draw, proc[p].password)
                     ELSE Legacy(proc[p].draw))
    /\ Goto(p, "keySync")

InitSyncKey(p) ==
    /\ proc[p].pc = "keySync"
    /\ SyncDir
    /\ Goto(p, "load")
    /\ UNCHANGED granted

(* ... then read the configuration back, mark it and save it.              *)
InitLoadConfig(p) ==
    /\ proc[p].pc = "load"
    /\ disk.config # NoFile
    /\ proc' = [proc EXCEPT ![p].pc = "flag", ![p].config = disk.config]
    /\ UNCHANGED <<disk, durable, manifests, calls, faults, damaged, missed, data, granted>>

InitMarkConfig(p) ==
    /\ proc[p].pc = "flag"
    /\ Rename("config", [proc[p].config EXCEPT !.encrypted = TRUE])
    /\ Goto(p, "flagSync")

InitReturn(p) ==
    /\ proc[p].pc = "flagSync"
    /\ SyncDir
    /\ Return(p)
    /\ granted' = IF proc[p].how = "password"
                  THEN granted \cup {[password |-> proc[p].password, key |-> proc[p].draw]}
                  ELSE granted

-----------------------------------------------------------------------------
(* UnlockRepoWithPassword.                                                 *)
Unlocks(password, key) == disk.key = GEK1(key, password)

Wrapping(p) == proc[p].pc \in {"wrap", "wrapSync", "verify"}

(* MigrateKeyFileToGEK1: the mode of the key file is looked up first ...   *)
Migrate(p, password) ==
    /\ disk.key # NoFile
    /\ disk.key.mode = "legacy"
    /\ Begin(p, [Idle EXCEPT !.pc = "loadKey", !.password = password])
    /\ UNCHANGED missed

(* Mutant: the key is taken from any key file.                             *)
MigrateLoadAnyKey(p) ==
    /\ proc[p].pc = "loadKey"
    /\ disk.key # NoFile
    /\ proc' = [proc EXCEPT ![p].pc = "wrap", ![p].key = disk.key.key]
    /\ UNCHANGED <<disk, durable, manifests, calls, faults, damaged, missed, data, granted>>

(* ... and LoadKeyFile refuses what a password protects.                   *)
MigrateLoadKey(p) ==
    /\ proc[p].pc = "loadKey"
    /\ disk.key # NoFile
    /\ disk.key.mode = "legacy"
    /\ proc' = [proc EXCEPT ![p].pc = "wrap", ![p].key = disk.key.key]
    /\ UNCHANGED <<disk, durable, manifests, calls, faults, damaged, missed, data, granted>>

MigrateSave(p) ==
    /\ proc[p].pc = "wrap"
    /\ Rename("key", GEK1(proc[p].key, proc[p].password))
    /\ Goto(p, "wrapSync")

MigrateSync(p) ==
    /\ proc[p].pc = "wrapSync"
    /\ SyncDir
    /\ proc' = [proc EXCEPT ![p].pc = "verify",
                            ![p].alone = \A q \in Procs \ {p} : ~Wrapping(q)]
    /\ UNCHANGED granted

(* The file just written is unlocked, and the keys compared.               *)
MigrateVerify(p) ==
    /\ proc[p].pc = "verify"
    /\ Unlocks(proc[p].password, proc[p].key)
    /\ Return(p)
    /\ granted' = IF proc[p].alone
                  THEN granted \cup {[password |-> proc[p].password, key |-> proc[p].key]}
                  ELSE granted
    /\ UNCHANGED <<disk, durable, manifests, calls, faults, damaged, missed, data>>

-----------------------------------------------------------------------------
(* Mutant: the polynomial of the configuration is not looked at.           *)
LoadPolynomialAnew(p) ==
    /\ disk.config # NoFile
    /\ Begin(p, [Idle EXCEPT !.pc = "draw", !.config = disk.config, !.draw = calls + 1])
    /\ UNCHANGED missed

(* A backup: the polynomial and the key are read, then a manifest is saved.*)
(* LoadCDCPolynomial draws a polynomial for a repository that has none, and*)
(* saves the configuration it has read with it.                            *)
LoadPolynomial(p) ==
    /\ disk.config # NoFile
    /\ Begin(p, [Idle EXCEPT !.pc = IF disk.config.polynomial = 0 THEN "draw" ELSE "unlock",
                             !.config = disk.config, !.draw = calls + 1])
    /\ UNCHANGED missed

SavePolynomial(p) ==
    /\ proc[p].pc = "draw"
    /\ Rename("config", [proc[p].config EXCEPT !.polynomial = proc[p].draw])
    /\ Goto(p, "drawSync")

SyncPolynomial(p) ==
    /\ proc[p].pc = "drawSync"
    /\ SyncDir
    /\ Goto(p, "unlock")
    /\ UNCHANGED granted

(* UnlockRepoWithPassword, or LoadKeyFile and DecodeKey; where there is no  *)
(* key the backup is not encrypted.                                        *)
UnlockRepo(p) ==
    /\ proc[p].pc = "unlock"
    /\ proc' = [proc EXCEPT ![p] = [Idle EXCEPT !.pc = "backup",
                      !.key = IF disk.key = NoFile THEN NoFile ELSE disk.key.key]]
    /\ UNCHANGED <<disk, durable, manifests, calls, faults, damaged, missed, data, granted>>

(* The history remembers a key whose file had reached the disk.            *)
SaveManifest(p) ==
    /\ proc[p].pc = "backup"
    /\ manifests' = TRUE
    /\ data' = IF durable.key # NoFile /\ durable.key.key = proc[p].key
               THEN data \cup {proc[p].key} ELSE data
    /\ Return(p)
    /\ UNCHANGED <<disk, durable, calls, faults, damaged, missed, granted>>

-----------------------------------------------------------------------------
(* Faults                                                                  *)
Fault == faults < MaxFaults /\ faults' = faults + 1

Kill(p) ==
    /\ Fault
    /\ proc[p].pc # "idle"
    /\ Return(p)
    /\ UNCHANGED <<disk, durable, manifests, calls, damaged, missed, data, granted>>

(* Of the names that were not synced any may have reached the disk.        *)
PowerLoss ==
    /\ Fault
    /\ \E kept \in SUBSET {"config", "key"} :
         disk' = [f \in DOMAIN disk |-> IF f \in kept THEN disk[f] ELSE durable[f]]
    /\ durable' = disk'
    /\ proc' = [p \in Procs |-> Idle]
    /\ UNCHANGED <<manifests, calls, damaged, missed, data, granted>>

(* The configuration can no longer be read.                                *)
DamageConfig ==
    /\ Fault
    /\ disk.config # NoFile
    /\ disk' = [disk EXCEPT !.config = NoFile]
    /\ durable' = [durable EXCEPT !.config = NoFile]
    /\ damaged' = TRUE
    /\ UNCHANGED <<manifests, proc, calls, missed, data, granted>>

Next ==
    \/ \E p \in Procs :
         \/ \E password \in Passwords : InitRepo(p, "password", password)
         \/ \E how \in {"plain", "keyfile"} : InitRepo(p, how, NoFile)
         \/ InitSaveConfig(p) \/ InitSyncConfig(p) \/ InitSaveKey(p) \/ InitSyncKey(p)
         \/ InitLoadConfig(p) \/ InitMarkConfig(p) \/ InitReturn(p)
         \/ \E password \in Passwords : Migrate(p, password)
         \/ MigrateLoadKey(p) \/ MigrateSave(p) \/ MigrateSync(p) \/ MigrateVerify(p)
         \/ LoadPolynomial(p) \/ SavePolynomial(p) \/ SyncPolynomial(p)
         \/ UnlockRepo(p) \/ SaveManifest(p)
         \/ CallFails(p) \/ Kill(p)
    \/ PowerLoss
    \/ DamageConfig

Spec == Init /\ [][Next]_vars

-----------------------------------------------------------------------------
(* Properties                                                              *)

(* A manifest stays readable: the key it was sealed under, once on disk,   *)
(* remains the repository's, whether initialisation, migrations (several   *)
(* at once) and backups are killed, lose power, cannot read the            *)
(* configuration or meet a damaged one at any step (simple/init.go:16-19,  *)
(* simple/config.go:103, simple/keys.go:253-277).  What it rests on is the *)
(* listing of the manifests: an initialisation that cannot read the        *)
(* configuration nor list the manifests takes the repository for none, and *)
(* replaces its key.                                                       *)
KeyKept == "manifests" \in missed \/ \A k \in data : disk.key # NoFile /\ disk.key.key = k

(* A configuration that says the repository is encrypted never stands      *)
(* without a key file, also after a power loss in the middle of an         *)
(* initialisation or of a backup that saves the configuration it read      *)
(* earlier (simple/keys.go:103-111, simple/chunk_cdc.go:48-58).            *)
EncryptedHasKey ==
    disk.config # NoFile /\ disk.config.encrypted => disk.key # NoFile

(* A password that InitRepoWithPassword or MigrateKeyFileToGEK1 accepted   *)
(* opens the repository, and with the key it had, from then on; a          *)
(* configuration that is damaged, or that an initialisation cannot read,   *)
(* lets a repository without manifests be initialised anew                 *)
(* (simple/keys.go:95-112, 253-288).                                       *)
GrantedUnlocks ==
    \/ damaged \/ "config" \in missed
    \/ \A g \in granted : Unlocks(g.password, g.key)

(* Once no backup is in the middle of drawing a polynomial, the one in the *)
(* configuration is the repository's for good, as LoadCDCPolynomial says:  *)
(* "persisted back to the config so subsequent runs stay consistent"       *)
(* (simple/chunk_cdc.go:40-63), unless the configuration is damaged or an  *)
(* initialisation cannot read it.                                          *)
Polynomial == IF disk.config = NoFile THEN 0 ELSE disk.config.polynomial

Settled(n) ==
    /\ Polynomial = n
    /\ durable = disk
    /\ \A p \in Procs : proc[p] = Idle

PolynomialSettles ==
    \A n \in 1 .. MaxCalls :
        [](Settled(n) => [](damaged \/ "config" \in missed \/ Polynomial = n))
=============================================================================
