-------------------------- MODULE RepositoryProofs --------------------------
(***************************************************************************)
(* The key file and the configuration of a repository, for any number of   *)
(* processes, passwords, calls and faults: the key of stored manifests is  *)
(* never replaced, an encrypted repository has its key, and an accepted    *)
(* password keeps opening it.                                              *)
(***************************************************************************)
EXTENDS Repository, TLAPS

MayBe(S) == S \cup {NoFile}

InitSteps == {"config", "configSync", "key", "keySync", "load", "flag", "flagSync"}
WrapSteps == {"wrap", "wrapSync", "verify"}
Steps == InitSteps \cup WrapSteps
           \cup {"idle", "loadKey", "draw", "drawSync", "unlock", "backup"}

States == [pc : Steps, how : MayBe({"password", "keyfile", "plain"}),
           password : MayBe(Passwords), draw : Nat, config : MayBe(Configs),
           key : MayBe(Nat), alone : BOOLEAN]

Files == [config : MayBe(Configs), key : MayBe(KeyFiles)]

TypeOK ==
    /\ disk \in Files /\ durable \in Files
    /\ manifests \in BOOLEAN /\ damaged \in BOOLEAN
    /\ missed \subseteq {"config", "manifests"}
    /\ proc \in [Procs -> States]
    /\ calls \in Nat /\ faults \in Nat
    /\ data \subseteq Nat /\ granted \subseteq [password : Passwords, key : Nat]

Holds(file, k) == file # NoFile /\ file.key = k
Encrypted(config) == config # NoFile /\ config.encrypted = TRUE

NewKey(p) == IF proc[p].how = "password" THEN GEK1(proc[p].draw, proc[p].password)
             ELSE Legacy(proc[p].draw)

(* What holds of the files whatever the processes are doing.               *)
FilesInv ==
    /\ durable.key # NoFile => disk.key # NoFile
    /\ Encrypted(disk.config) \/ Encrypted(durable.config) => durable.key # NoFile
    /\ disk.key # NoFile =>
          damaged = TRUE \/ (disk.config # NoFile /\ durable.config # NoFile)

(* Keys that manifests need, and passwords that were accepted, unless an   *)
(* initialisation was started over them.                                   *)
DataInv ==
    /\ data # {} => manifests = TRUE
    /\ \/ "manifests" \in missed
       \/ \A k \in data : Holds(disk.key, k) /\ Holds(durable.key, k)

Anew == damaged = TRUE \/ "config" \in missed

GrantedInv ==
    \A g \in granted :
        \/ Anew
        \/ /\ disk.key = GEK1(g.key, g.password) /\ durable.key = disk.key
           /\ \A q \in Procs : proc[q].pc # "wrap"

(* What an initialisation relies on.                                       *)
InitialisingInv(p) ==
    /\ proc[p].pc \in InitSteps =>
          /\ data # {} => "manifests" \in missed
          /\ granted # {} => Anew
          /\ \A q \in Procs \ {p} : proc[q] = Idle
          /\ proc[p].how = "password" => proc[p].password \in Passwords
    /\ proc[p].pc = "configSync" => damaged = TRUE \/ disk.config # NoFile
    /\ proc[p].pc = "key" =>
          damaged = TRUE \/ (disk.config # NoFile /\ durable.config # NoFile)
    /\ proc[p].pc \in {"keySync", "load", "flag", "flagSync"} => disk.key = NewKey(p)
    /\ proc[p].pc \in {"load", "flag", "flagSync"} => durable.key = NewKey(p)
    /\ proc[p].pc = "flag" => proc[p].config # NoFile

(* What a migration relies on.                                             *)
MigratingInv(p) ==
    /\ proc[p].pc \in WrapSteps \cup {"loadKey"} => proc[p].password \in Passwords
    /\ proc[p].pc \in WrapSteps => proc[p].key \in Nat /\ Holds(disk.key, proc[p].key)
    /\ proc[p].pc \in {"wrapSync", "verify"} => disk.key.mode = "gek1"
    /\ proc[p].pc = "verify" /\ proc[p].alone = TRUE =>
          /\ durable.key = disk.key
          /\ \A q \in Procs : proc[q].pc # "wrap"

(* What a backup relies on.                                                *)
BackupInv(p) ==
    /\ proc[p].pc = "draw" => /\ proc[p].config # NoFile
                              /\ Encrypted(proc[p].config) => durable.key # NoFile
    /\ proc[p].pc = "backup" /\ proc[p].key # NoFile => Holds(disk.key, proc[p].key)

RepositoryInv ==
    /\ TypeOK
    /\ FilesInv /\ DataInv /\ GrantedInv
    /\ \A p \in Procs : InitialisingInv(p) /\ MigratingInv(p) /\ BackupInv(p)

(* Most leaves are first-order: Zenon unless a leaf names another prover.  *)
USE Zenon

(* A key file and a configuration are told from a file that is not there.  *)
LEMMA FileForms ==
  /\ \A k \in Nat, w \in Passwords : GEK1(k, w) \in KeyFiles /\ GEK1(k, w) # NoFile
  /\ \A k \in Nat : Legacy(k) \in KeyFiles /\ Legacy(k) # NoFile
  /\ \A n \in Nat, b \in BOOLEAN : Config(n, b) \in Configs /\ Config(n, b) # NoFile
  /\ NoFile \notin Nat /\ NoFile \notin Passwords
  /\ NoFile \notin KeyFiles /\ NoFile \notin Configs
  BY SMT, RepositoryAssumption DEF GEK1, Legacy, Config, KeyFiles, Configs

(* A process that is not in a call.                                        *)
LEMMA IdleState == Idle \in States /\ Idle.pc = "idle"
  BY DEF Idle, States, Steps, MayBe

(* Only one process is busy while one initialises.                         *)
LEMMA BusyAlone ==
  ASSUME RepositoryInv, NEW p \in Procs, proc[p].pc # "idle"
  PROVE  \A q \in Procs \ {p} : proc[q].pc \notin InitSteps
  BY IdleState DEF RepositoryInv, InitialisingInv

(* A step of one process that leaves the files and the histories alone     *)
(* keeps the invariant when the process knows what its new step relies on, *)
(* and starts to wrap a key only while the key file is a plaintext one.    *)
LEMMA BeginStep ==
  ASSUME RepositoryInv, NEW p \in Procs, NEW s \in States,
         proc' = [proc EXCEPT ![p] = s], calls' \in Nat, faults' \in Nat,
         UNCHANGED <<disk, durable, manifests, damaged, data, granted>>,
         missed \subseteq missed', missed' \subseteq {"config", "manifests"},
         \A q \in Procs \ {p} : proc[q].pc \notin InitSteps,
         s.pc = "wrap" => disk.key.mode = "legacy",
         InitialisingInv(p)', MigratingInv(p)', BackupInv(p)'
  PROVE  RepositoryInv'
<1> USE DEF RepositoryInv
<1>1. TypeOK'
  BY DEF TypeOK
<1>2. /\ proc'[p] = s
      /\ \A q \in Procs \ {p} : proc'[q] = proc[q]
  BY DEF TypeOK
<1>3. FilesInv' /\ DataInv'
  BY DEF FilesInv, DataInv, Encrypted, Holds
<1>4. GrantedInv'
  <2> SUFFICES ASSUME NEW g \in granted, ~Anew'
               PROVE  /\ disk.key = GEK1(g.key, g.password) /\ durable.key = disk.key
                      /\ \A q \in Procs : proc'[q].pc # "wrap"
    BY DEF GrantedInv, Anew
  <2>1. /\ disk.key = GEK1(g.key, g.password) /\ durable.key = disk.key
        /\ \A q \in Procs : proc[q].pc # "wrap"
    BY DEF GrantedInv, Anew
  <2>2. s.pc # "wrap"
    BY SMT, <2>1 DEF GEK1
  <2> QED
    BY <1>2, <2>1, <2>2
<1>5. ASSUME NEW q \in Procs \ {p}
      PROVE  InitialisingInv(q)' /\ MigratingInv(q)' /\ BackupInv(q)'
  <2>1. InitialisingInv(q)'
    BY <1>2 DEF InitialisingInv, InitSteps
  <2>2. MigratingInv(q)'
    BY <1>2 DEF MigratingInv, Holds, WrapSteps
  <2>3. BackupInv(q)'
    BY <1>2 DEF BackupInv, Holds, Encrypted
  <2> QED
    BY <2>1, <2>2, <2>3
<1> QED
  BY <1>1, <1>3, <1>4, <1>5

LEMMA ProcStep ==
  ASSUME RepositoryInv, NEW p \in Procs, NEW s \in States,
         proc' = [proc EXCEPT ![p] = s], calls' \in Nat, faults' \in Nat,
         UNCHANGED <<disk, durable, manifests, damaged, missed, data, granted>>,
         \A q \in Procs \ {p} : proc[q].pc \notin InitSteps,
         s.pc = "wrap" => disk.key.mode = "legacy",
         InitialisingInv(p)', MigratingInv(p)', BackupInv(p)'
  PROVE  RepositoryInv'
<1>1. missed \subseteq missed' /\ missed' \subseteq {"config", "manifests"}
  BY DEF RepositoryInv, TypeOK
<1> QED
  BY <1>1, BeginStep

(* A call that returns an error, a process that is killed.                 *)
LEMMA ReturnStep ==
  ASSUME RepositoryInv, NEW p \in Procs, proc[p].pc # "idle",
         Return(p), calls' \in Nat, faults' \in Nat,
         UNCHANGED <<disk, durable, manifests, damaged, missed, data, granted>>
  PROVE  RepositoryInv'
<1>1. proc' = [proc EXCEPT ![p] = Idle] /\ proc'[p] = Idle
  BY DEF Return, RepositoryInv, TypeOK
<1>2. InitialisingInv(p)' /\ MigratingInv(p)' /\ BackupInv(p)'
  BY <1>1, IdleState DEF InitialisingInv, MigratingInv, BackupInv, InitSteps, WrapSteps
<1> QED
  BY <1>1, <1>2, IdleState, BusyAlone, ProcStep

(* A sync of the directory by a busy process that moves to a step other    *)
(* than the wrapping of a key.                                             *)
LEMMA SyncStep ==
  ASSUME RepositoryInv, NEW p \in Procs, NEW s \in States, proc[p].pc # "idle",
         SyncDir, proc' = [proc EXCEPT ![p] = s], UNCHANGED granted, s.pc # "wrap",
         InitialisingInv(p)', MigratingInv(p)', BackupInv(p)'
  PROVE  RepositoryInv'
<1> USE DEF RepositoryInv
<1>1. /\ durable' = disk
      /\ UNCHANGED <<disk, manifests, calls, faults, damaged, missed, data, granted>>
  BY DEF SyncDir
<1>2. TypeOK'
  BY <1>1 DEF TypeOK
<1>3. /\ proc'[p] = s
      /\ \A q \in Procs \ {p} : proc'[q] = proc[q] /\ proc[q].pc \notin InitSteps
  BY BusyAlone DEF TypeOK
<1>4. FilesInv'
  BY <1>1 DEF FilesInv, Encrypted
<1>5. DataInv'
  BY <1>1 DEF DataInv, Holds
<1>6. GrantedInv'
  BY <1>1, <1>3 DEF GrantedInv, Anew
<1>7. ASSUME NEW q \in Procs \ {p}
      PROVE  InitialisingInv(q)' /\ MigratingInv(q)' /\ BackupInv(q)'
  <2>1. InitialisingInv(q)'
    BY <1>3 DEF InitialisingInv, InitSteps
  <2>2. MigratingInv(q)'
    BY <1>1, <1>3 DEF MigratingInv, Holds, WrapSteps
  <2>3. BackupInv(q)'
    BY <1>1, <1>3 DEF BackupInv, FilesInv, Holds, Encrypted
  <2> QED
    BY <2>1, <2>2, <2>3
<1> QED
  BY <1>2, <1>4, <1>5, <1>6, <1>7

(* A configuration is saved by a busy process that moves to a step other   *)
(* than the wrapping of a key; it is marked only when the key is durable.  *)
LEMMA ConfigStep ==
  ASSUME RepositoryInv, NEW p \in Procs, NEW s \in States, proc[p].pc # "idle",
         NEW c \in Configs, Rename("config", c), proc' = [proc EXCEPT ![p] = s],
         s.pc # "wrap", Encrypted(c) => durable.key # NoFile,
         InitialisingInv(p)', MigratingInv(p)', BackupInv(p)'
  PROVE  RepositoryInv'
<1> USE DEF RepositoryInv
<1>1. /\ disk' = [disk EXCEPT !.config = c]
      /\ UNCHANGED <<durable, manifests, calls, faults, damaged, missed, data, granted>>
  BY DEF Rename
<1>2. TypeOK'
  BY <1>1 DEF TypeOK, Files, MayBe
<1>3. disk'.config = c /\ c # NoFile /\ disk'.key = disk.key
  BY <1>1, FileForms DEF TypeOK, Files
<1>4. /\ proc'[p] = s
      /\ \A q \in Procs \ {p} : proc'[q] = proc[q] /\ proc[q].pc \notin InitSteps
  BY BusyAlone DEF TypeOK
<1>5. FilesInv'
  BY <1>1, <1>3 DEF FilesInv, Encrypted
<1>6. DataInv'
  BY <1>1, <1>3 DEF DataInv, Holds
<1>7. GrantedInv'
  BY <1>1, <1>3, <1>4 DEF GrantedInv, Anew
<1>8. ASSUME NEW q \in Procs \ {p}
      PROVE  InitialisingInv(q)' /\ MigratingInv(q)' /\ BackupInv(q)'
  <2>1. InitialisingInv(q)'
    BY <1>4 DEF InitialisingInv, InitSteps
  <2>2. MigratingInv(q)'
    BY SMT, <1>1, <1>3, <1>4 DEF MigratingInv, Holds, WrapSteps
  <2>3. BackupInv(q)'
    BY <1>1, <1>3, <1>4 DEF BackupInv, Holds, Encrypted
  <2> QED
    BY <2>1, <2>2, <2>3
<1> QED
  BY <1>2, <1>5, <1>6, <1>7, <1>8

(* A migration writes the key it has read, under another protection.       *)
LEMMA MigrateSaveKeeps ==
  ASSUME RepositoryInv, NEW p \in Procs, MigrateSave(p) PROVE RepositoryInv'
<1> DEFINE K == GEK1(proc[p].key, proc[p].password)
<1> USE DEF RepositoryInv
<1>1. /\ proc[p].pc = "wrap" /\ proc[p] \in States /\ disk \in Files
      /\ proc' = [proc EXCEPT ![p].pc = "wrapSync"] /\ disk' = [disk EXCEPT !.key = K]
      /\ UNCHANGED <<durable, manifests, calls, faults, damaged, missed, data, granted>>
  BY DEF MigrateSave, Rename, Goto, TypeOK
<1>2. /\ proc[p].key \in Nat /\ proc[p].password \in Passwords /\ Holds(disk.key, proc[p].key)
  BY <1>1 DEF MigratingInv, WrapSteps
<1>3. K \in KeyFiles /\ K # NoFile /\ K.key = proc[p].key /\ K.mode = "gek1"
  BY <1>2, FileForms DEF GEK1
<1> HIDE DEF K
<1>4. TypeOK'
  BY SMT, <1>1, <1>3 DEF TypeOK, States, Steps, WrapSteps, Files, MayBe
<1>5. /\ disk'.config = disk.config /\ disk'.key = K
  BY <1>1 DEF Files
<1>6. FilesInv'
  BY <1>1, <1>2, <1>3, <1>5 DEF FilesInv, Encrypted, Holds
<1>7. DataInv'
  BY <1>1, <1>2, <1>3, <1>5 DEF DataInv, Holds
<1>8. GrantedInv'
  BY <1>1 DEF GrantedInv, Anew
<1>9. \A q \in Procs : InitialisingInv(q)'
  BY SMT, <1>1, <1>5 DEF InitialisingInv, InitSteps, Idle, TypeOK
<1>10. \A q \in Procs : MigratingInv(q)'
  BY <1>1, <1>2, <1>3, <1>5 DEF MigratingInv, Holds, WrapSteps, TypeOK, States
<1>11. \A q \in Procs : BackupInv(q)'
  BY <1>1, <1>2, <1>3, <1>5 DEF BackupInv, Holds, TypeOK, States
<1> QED
  BY <1>4, <1>6, <1>7, <1>8, <1>9, <1>10, <1>11

(* An initialisation starts where nothing is, or misses what there is.     *)
LEMMA InitRepoKeeps ==
  ASSUME RepositoryInv, NEW p \in Procs,
         NEW how \in {"password", "keyfile", "plain"}, NEW password \in MayBe(Passwords),
         how = "password" => password \in Passwords, InitRepo(p, how, password)
  PROVE  RepositoryInv'
<1> DEFINE s == [Idle EXCEPT !.pc = "config", !.how = how, !.password = password,
                             !.draw = calls + 1]
<1>1. /\ \A q \in Procs : proc[q] = Idle
      /\ calls' = calls + 1 /\ proc' = [proc EXCEPT ![p] = s]
      /\ UNCHANGED <<disk, durable, manifests, faults, damaged, data, granted>>
  BY DEF InitRepo, Begin
<1>2. calls \in Nat /\ faults \in Nat
  BY DEF RepositoryInv, TypeOK
<1>3. s \in States /\ s.pc = "config" /\ s.how = how /\ s.password = password
  <2> DEFINE n == calls + 1
             a == [Idle EXCEPT !.pc = "config", !.how = how]
             b == [a EXCEPT !.password = password, !.draw = n]
  <2>1. n \in Nat /\ "config" \in Steps /\ how \in MayBe({"password", "keyfile", "plain"})
    BY SMT, <1>2 DEF Steps, InitSteps, MayBe
  <2>2. s = b
    OBVIOUS
  <2> HIDE DEF n, s
  <2>3. a \in States /\ a.pc = "config" /\ a.how = how
    BY <2>1, IdleState DEF States
  <2> HIDE DEF a
  <2> QED
    BY <2>1, <2>2, <2>3 DEF States
<1> HIDE DEF s
<1>4. /\ proc'[p] = s
      /\ \A q \in Procs \ {p} : proc'[q] = Idle
  BY <1>1 DEF RepositoryInv, TypeOK
<1>5. /\ missed \subseteq missed' /\ missed' \subseteq {"config", "manifests"}
      /\ disk.config # NoFile => "config" \in missed'
      /\ manifests = TRUE => "manifests" \in missed'
  <2>1. PICK failed \in SUBSET {"config", "manifests"} :
           Signs \ failed = {} /\ missed' = missed \cup (Signs \cap failed)
    BY DEF InitRepo, IsGBRepo
  <2>2. /\ disk.config # NoFile => "config" \in Signs
        /\ manifests = TRUE => "manifests" \in Signs
    BY SMT DEF Signs
  <2> QED
    BY <2>1, <2>2 DEF RepositoryInv, TypeOK
<1>6. data # {} => "manifests" \in missed'
  BY <1>5 DEF RepositoryInv, DataInv
<1>7. granted # {} => Anew'
  <2> SUFFICES ASSUME ~Anew', NEW g \in granted PROVE FALSE
    OBVIOUS
  <2>1. damaged # TRUE /\ ~Anew
    BY <1>1, <1>5 DEF Anew
  <2>2. disk.key = GEK1(g.key, g.password) /\ g.key \in Nat /\ g.password \in Passwords
    BY <2>1 DEF RepositoryInv, GrantedInv, TypeOK
  <2>3. disk.key # NoFile
    BY <2>2, FileForms
  <2> QED
    BY <1>5, <2>1, <2>3 DEF RepositoryInv, FilesInv, Anew
<1>8. InitialisingInv(p)'
  BY <1>1, <1>3, <1>4, <1>6, <1>7 DEF InitialisingInv, InitSteps
<1>9. MigratingInv(p)' /\ BackupInv(p)'
  BY <1>3, <1>4 DEF MigratingInv, BackupInv, WrapSteps
<1>10. calls' \in Nat /\ faults' \in Nat /\ \A q \in Procs : proc[q].pc \notin InitSteps
  BY SMT, <1>1, <1>2, IdleState DEF InitSteps
<1> QED
  BY <1>1, <1>3, <1>5, <1>8, <1>9, <1>10, BeginStep

(* The steps of an initialisation.                                         *)
LEMMA InitStepKeeps ==
  ASSUME RepositoryInv, NEW p \in Procs,
         InitSaveConfig(p) \/ InitSyncConfig(p) \/ InitSyncKey(p)
           \/ InitLoadConfig(p) \/ InitMarkConfig(p)
  PROVE  RepositoryInv'
<1>1. /\ proc[p] \in States /\ proc[p].pc # "idle"
      /\ disk \in Files /\ durable \in Files /\ calls \in Nat /\ faults \in Nat
      /\ InitialisingInv(p) /\ FilesInv
  BY DEF RepositoryInv, TypeOK, InitSaveConfig, InitSyncConfig, InitSyncKey,
         InitLoadConfig, InitMarkConfig
<1> DEFINE To(pc) == [proc[p] EXCEPT !.pc = pc]
           At(pc) == /\ To(pc) \in States /\ proc' = [proc EXCEPT ![p] = To(pc)]
                     /\ To(pc).pc = pc /\ proc'[p] = To(pc)
                     /\ To(pc).how = proc[p].how /\ To(pc).password = proc[p].password
                     /\ \A q \in Procs \ {p} : proc'[q] = proc[q]
                     /\ NewKey(p)' = NewKey(p)
<1>2. \A pc \in Steps : /\ To(pc) \in States /\ To(pc).pc = pc
                        /\ To(pc).how = proc[p].how /\ To(pc).draw = proc[p].draw
                        /\ To(pc).password = proc[p].password
  BY <1>1 DEF States
<1>3. ASSUME NEW pc \in Steps, Goto(p, pc) PROVE At(pc)
  <2>1. proc' = [proc EXCEPT ![p] = To(pc)]
    BY <1>3 DEF Goto
  <2> HIDE DEF To
  <2>2. proc'[p] = To(pc) /\ \A q \in Procs \ {p} : proc'[q] = proc[q]
    BY <2>1 DEF RepositoryInv, TypeOK
  <2>3. NewKey(p)' = NewKey(p)
    BY SMT, <1>2, <2>2 DEF NewKey
  <2> QED
    BY <1>2, <2>1, <2>2, <2>3
<1>4. InitSteps \subseteq Steps
  BY DEF Steps
<1> HIDE DEF To
<1>5. CASE InitSaveConfig(p)
  <2> DEFINE c == Config(proc[p].draw, FALSE)
  <2>1. /\ proc[p].pc = "config" /\ Rename("config", c) /\ Goto(p, "configSync")
        /\ disk' = [disk EXCEPT !.config = c]
        /\ UNCHANGED <<durable, damaged, missed, data, granted>>
    BY <1>5 DEF InitSaveConfig, Rename
  <2>2. c \in Configs /\ c # NoFile /\ ~Encrypted(c)
    BY <1>1, FileForms DEF States, Encrypted, Config
  <2> HIDE DEF c
  <2>3. At("configSync")
    BY <1>3, <1>4, <2>1 DEF InitSteps
  <2>4. InitialisingInv(p)'
    BY <1>1, <2>1, <2>2, <2>3 DEF InitialisingInv, Anew, InitSteps, Files
  <2>5. MigratingInv(p)' /\ BackupInv(p)'
    BY <2>3 DEF MigratingInv, BackupInv, WrapSteps
  <2> QED
    BY <1>1, <2>1, <2>2, <2>3, <2>4, <2>5, ConfigStep
<1>6. CASE InitSyncConfig(p)
  <2>1. proc[p].pc = "configSync" /\ SyncDir /\ durable' = disk
        /\ UNCHANGED <<disk, damaged, missed, data, granted>>
    BY <1>6 DEF InitSyncConfig, SyncDir
  <2>2. CASE Return(p)
    <3>1. proc' = [proc EXCEPT ![p] = Idle] /\ proc'[p] = Idle
      BY <2>2 DEF Return, RepositoryInv, TypeOK
    <3>2. InitialisingInv(p)' /\ MigratingInv(p)' /\ BackupInv(p)'
      BY <3>1, IdleState DEF InitialisingInv, MigratingInv, BackupInv, InitSteps, WrapSteps
    <3> QED
      BY <1>1, <2>1, <3>1, <3>2, IdleState, SyncStep
  <2>3. CASE Goto(p, "key")
    <3>1. At("key")
      BY <1>3, <1>4, <2>3 DEF InitSteps
    <3>2. InitialisingInv(p)'
      BY <1>1, <2>1, <3>1 DEF InitialisingInv, Anew, InitSteps
    <3>3. MigratingInv(p)' /\ BackupInv(p)'
      BY <3>1 DEF MigratingInv, BackupInv, WrapSteps
    <3> QED
      BY <1>1, <2>1, <3>1, <3>2, <3>3, SyncStep
  <2> QED
    BY <1>6, <2>2, <2>3 DEF InitSyncConfig
<1>7. CASE InitSyncKey(p)
  <2>1. /\ proc[p].pc = "keySync" /\ SyncDir /\ durable' = disk /\ Goto(p, "load")
        /\ UNCHANGED <<disk, damaged, missed, data, granted>>
    BY <1>7 DEF InitSyncKey, SyncDir
  <2>2. At("load")
    BY <1>3, <1>4, <2>1 DEF InitSteps
  <2>3. InitialisingInv(p)'
    BY <1>1, <2>1, <2>2 DEF InitialisingInv, Anew, InitSteps
  <2>4. MigratingInv(p)' /\ BackupInv(p)'
    BY <2>2 DEF MigratingInv, BackupInv, WrapSteps
  <2> QED
    BY <1>1, <2>1, <2>2, <2>3, <2>4, SyncStep
<1>8. CASE InitLoadConfig(p)
  <2> DEFINE s == [proc[p] EXCEPT !.pc = "flag", !.config = disk.config]
  <2>1. /\ proc[p].pc = "load" /\ disk.config # NoFile
        /\ proc' = [proc EXCEPT ![p] = s]
        /\ UNCHANGED <<disk, durable, manifests, calls, faults, damaged, missed, data, granted>>
    BY <1>8 DEF InitLoadConfig, RepositoryInv, TypeOK
  <2>2. /\ s \in States /\ s.pc = "flag" /\ s.config = disk.config
        /\ s.how = proc[p].how /\ s.draw = proc[p].draw /\ s.password = proc[p].password
    BY <1>1 DEF States, Files, Steps, InitSteps
  <2> HIDE DEF s
  <2>3. proc'[p] = s /\ \A q \in Procs \ {p} : proc'[q] = proc[q]
    BY <2>1 DEF RepositoryInv, TypeOK
  <2>4. InitialisingInv(p)'
    <3>1. NewKey(p)' = NewKey(p)
      BY <2>2, <2>3 DEF NewKey
    <3> QED
      BY <1>1, <2>1, <2>2, <2>3, <3>1 DEF InitialisingInv, Anew, InitSteps
  <2>5. MigratingInv(p)' /\ BackupInv(p)'
    BY <2>2, <2>3 DEF MigratingInv, BackupInv, WrapSteps
  <2>6. calls' \in Nat /\ faults' \in Nat
    BY <1>1, <2>1
  <2> QED
    BY <1>1, <2>1, <2>2, <2>4, <2>5, <2>6, BusyAlone, ProcStep
<1>9. CASE InitMarkConfig(p)
  <2> DEFINE c == [proc[p].config EXCEPT !.encrypted = TRUE]
  <2>1. /\ proc[p].pc = "flag" /\ Rename("config", c) /\ Goto(p, "flagSync")
        /\ disk' = [disk EXCEPT !.config = c]
        /\ UNCHANGED <<durable, damaged, missed, data, granted>>
    BY <1>9 DEF InitMarkConfig, Rename
  <2>2. proc[p].config \in Configs
    BY <1>1, <2>1 DEF InitialisingInv, Anew, States, MayBe
  <2>3. c \in Configs
    BY <2>2 DEF Configs
  <2> HIDE DEF c
  <2>4. durable.key # NoFile
    BY <1>1, <2>1, FileForms DEF InitialisingInv, Anew, NewKey, States, InitSteps
  <2>5. At("flagSync")
    BY <1>3, <1>4, <2>1 DEF InitSteps
  <2>6. InitialisingInv(p)'
    BY <1>1, <2>1, <2>5 DEF InitialisingInv, Anew, InitSteps, Files
  <2>7. MigratingInv(p)' /\ BackupInv(p)'
    BY <2>5 DEF MigratingInv, BackupInv, WrapSteps
  <2> QED
    BY <1>1, <2>1, <2>3, <2>4, <2>5, <2>6, <2>7, ConfigStep
<1> QED
  BY <1>5, <1>6, <1>7, <1>8, <1>9

(* The key of an initialisation replaces a key that a manifest needs, or   *)
(* that a password was accepted for, only if the initialisation missed it. *)
LEMMA InitSaveKeyKeeps ==
  ASSUME RepositoryInv, NEW p \in Procs, InitSaveKey(p) PROVE RepositoryInv'
<1> DEFINE K == NewKey(p)
<1> USE DEF RepositoryInv
<1>1. /\ proc[p].pc = "key" /\ proc[p] \in States /\ disk \in Files
      /\ proc' = [proc EXCEPT ![p].pc = "keySync"] /\ disk' = [disk EXCEPT !.key = K]
      /\ UNCHANGED <<durable, manifests, calls, faults, damaged, missed, data, granted>>
  BY DEF InitSaveKey, Rename, Goto, TypeOK, NewKey
<1>2. /\ data # {} => "manifests" \in missed
      /\ granted # {} => Anew
      /\ damaged = TRUE \/ (disk.config # NoFile /\ durable.config # NoFile)
      /\ \A q \in Procs \ {p} : proc[q] = Idle
      /\ proc[p].how = "password" => proc[p].password \in Passwords
  BY <1>1 DEF InitialisingInv, Anew, InitSteps, DataInv
<1>3. K \in KeyFiles /\ K # NoFile
  BY <1>1, <1>2, FileForms DEF NewKey, States
<1>4. NewKey(p)' = K
  BY <1>1 DEF NewKey, TypeOK, States
<1> HIDE DEF K
<1>5. TypeOK'
  BY SMT, <1>1, <1>3 DEF TypeOK, States, Steps, InitSteps, Files, MayBe
<1>6. disk'.config = disk.config /\ disk'.key = K
  BY <1>1 DEF Files
<1>7. /\ proc'[p].pc = "keySync" /\ proc'[p].how = proc[p].how
      /\ proc'[p].password = proc[p].password
      /\ \A q \in Procs \ {p} : proc'[q] = Idle
  BY <1>1, <1>2 DEF TypeOK, States
<1>8. FilesInv' /\ DataInv' /\ GrantedInv'
  BY <1>1, <1>2, <1>3, <1>6 DEF FilesInv, DataInv, GrantedInv, Anew, Encrypted
<1>9. InitialisingInv(p)' /\ MigratingInv(p)' /\ BackupInv(p)'
  BY <1>1, <1>2, <1>4, <1>6, <1>7
  DEF InitialisingInv, Anew, MigratingInv, BackupInv, InitSteps, WrapSteps
<1>10. \A q \in Procs \ {p} : InitialisingInv(q)' /\ MigratingInv(q)' /\ BackupInv(q)'
  BY <1>7, IdleState DEF InitialisingInv, MigratingInv, BackupInv, InitSteps, WrapSteps
<1> QED
  BY <1>5, <1>8, <1>9, <1>10

(* When an initialisation returns, its password opens what is on disk.     *)
LEMMA InitReturnKeeps ==
  ASSUME RepositoryInv, NEW p \in Procs, InitReturn(p) PROVE RepositoryInv'
<1> USE DEF RepositoryInv
<1>1. /\ proc[p].pc = "flagSync" /\ proc[p] \in States
      /\ proc' = [proc EXCEPT ![p] = Idle] /\ durable' = disk
      /\ UNCHANGED <<disk, manifests, calls, faults, damaged, missed, data>>
  BY DEF InitReturn, SyncDir, Return, TypeOK
<1>2. /\ granted # {} => Anew
      /\ \A q \in Procs \ {p} : proc[q] = Idle
      /\ proc[p].how = "password" => proc[p].password \in Passwords
      /\ disk.key = NewKey(p)
  BY <1>1 DEF InitialisingInv, Anew, InitSteps
<1>3. \A q \in Procs : proc'[q] = Idle
  BY <1>1, <1>2 DEF TypeOK
<1>4. TypeOK'
  <2> DEFINE new == [password |-> proc[p].password, key |-> proc[p].draw]
  <2>1. proc[p].how = "password" => new \in [password : Passwords, key : Nat]
    BY <1>1, <1>2 DEF States
  <2>2. granted' = IF proc[p].how = "password" THEN granted \cup {new} ELSE granted
    BY DEF InitReturn
  <2> HIDE DEF new
  <2>3. granted' \subseteq [password : Passwords, key : Nat]
    BY <2>1, <2>2 DEF TypeOK
  <2> QED
    BY <1>1, <2>3, IdleState DEF TypeOK
<1>5. FilesInv' /\ DataInv'
  BY <1>1 DEF FilesInv, DataInv, Encrypted, Holds
<1>6. GrantedInv'
  <2> SUFFICES ASSUME NEW g \in granted', ~Anew'
               PROVE  disk.key = GEK1(g.key, g.password)
    BY <1>1, <1>3, IdleState DEF GrantedInv, Anew
  <2>1. proc[p].how = "password" /\ g = [password |-> proc[p].password, key |-> proc[p].draw]
    BY <1>1, <1>2 DEF InitReturn, Anew
  <2> QED
    BY <1>2, <2>1 DEF NewKey
<1>7. \A q \in Procs : InitialisingInv(q)' /\ MigratingInv(q)' /\ BackupInv(q)'
  BY <1>3, IdleState DEF InitialisingInv, MigratingInv, BackupInv, InitSteps, WrapSteps
<1> QED
  BY <1>4, <1>5, <1>6, <1>7

(* The steps of a migration before it writes, and its sync.                *)
LEMMA MigrateStepKeeps ==
  ASSUME RepositoryInv, NEW p \in Procs,
         \/ \E password \in Passwords : Migrate(p, password)
         \/ MigrateLoadKey(p)
         \/ MigrateSync(p)
  PROVE  RepositoryInv'
<1>1. /\ proc[p] \in States /\ proc \in [Procs -> States] /\ disk \in Files
      /\ calls \in Nat /\ faults \in Nat /\ MigratingInv(p) /\ FilesInv
  BY DEF RepositoryInv, TypeOK
<1>2. ASSUME NEW password \in Passwords, Migrate(p, password) PROVE RepositoryInv'
  <2> DEFINE s == [Idle EXCEPT !.pc = "loadKey", !.password = password]
  <2>1. /\ \A q \in Procs : proc[q].pc \notin InitSteps
        /\ calls' = calls + 1 /\ proc' = [proc EXCEPT ![p] = s]
        /\ UNCHANGED <<disk, durable, manifests, faults, damaged, missed, data, granted>>
    BY <1>2 DEF Migrate, Begin, Initialising, InitSteps
  <2>2. s \in States /\ s.pc = "loadKey" /\ s.password = password
    BY IdleState DEF States, Steps, MayBe
  <2> HIDE DEF s
  <2>3. proc'[p] = s /\ calls' \in Nat /\ faults' \in Nat
    BY SMT, <1>1, <2>1
  <2>4. InitialisingInv(p)' /\ MigratingInv(p)' /\ BackupInv(p)'
    BY <2>2, <2>3 DEF InitialisingInv, MigratingInv, BackupInv, InitSteps, WrapSteps
  <2> QED
    BY <2>1, <2>2, <2>3, <2>4, ProcStep
<1>3. CASE MigrateLoadKey(p)
  <2> DEFINE s == [proc[p] EXCEPT !.pc = "wrap", !.key = disk.key.key]
  <2>1. /\ proc[p].pc = "loadKey" /\ disk.key # NoFile /\ disk.key.mode = "legacy"
        /\ proc' = [proc EXCEPT ![p] = s]
        /\ UNCHANGED <<disk, durable, manifests, calls, faults, damaged, missed, data, granted>>
    BY <1>1, <1>3 DEF MigrateLoadKey
  <2>2. disk.key.key \in Nat
    BY <1>1, <2>1 DEF Files, MayBe, KeyFiles
  <2>3. s \in States /\ s.pc = "wrap" /\ s.password = proc[p].password /\ s.key = disk.key.key
    BY <1>1, <2>2 DEF States, Steps, WrapSteps, MayBe
  <2> HIDE DEF s
  <2>4. proc'[p] = s /\ calls' \in Nat /\ faults' \in Nat
    BY <1>1, <2>1
  <2>5. InitialisingInv(p)' /\ MigratingInv(p)' /\ BackupInv(p)'
    BY <1>1, <2>1, <2>2, <2>3, <2>4
    DEF InitialisingInv, MigratingInv, BackupInv, InitSteps, WrapSteps, Holds
  <2> QED
    BY <2>1, <2>3, <2>4, <2>5, BusyAlone, ProcStep
<1>4. CASE MigrateSync(p)
  <2> DEFINE alone == \A q \in Procs \ {p} : ~Wrapping(q)
             s == [proc[p] EXCEPT !.pc = "verify", !.alone = alone]
  <2>1. /\ proc[p].pc = "wrapSync" /\ SyncDir /\ durable' = disk
        /\ proc' = [proc EXCEPT ![p] = s]
        /\ UNCHANGED <<disk, granted>>
    BY <1>1, <1>4 DEF MigrateSync, SyncDir
  <2>2. alone \in BOOLEAN
    OBVIOUS
  <2>3. alone => \A q \in Procs \ {p} : proc[q].pc # "wrap"
    BY DEF Wrapping
  <2> HIDE DEF alone
  <2>4. /\ s \in States /\ s.pc = "verify" /\ s.alone = alone
        /\ s.password = proc[p].password /\ s.key = proc[p].key
    BY <1>1, <2>2 DEF States, Steps, WrapSteps
  <2> HIDE DEF s
  <2>5. proc'[p] = s /\ \A q \in Procs \ {p} : proc'[q] = proc[q]
    BY <1>1, <2>1
  <2>6. MigratingInv(p)'
    BY <1>1, <2>1, <2>3, <2>4, <2>5 DEF MigratingInv, WrapSteps, Holds
  <2>7. InitialisingInv(p)' /\ BackupInv(p)'
    BY <2>4, <2>5 DEF InitialisingInv, Anew, BackupInv, InitSteps
  <2> QED
    BY <2>1, <2>4, <2>6, <2>7, SyncStep
<1> QED
  BY <1>2, <1>3, <1>4

(* A migration that verified its key file has it on disk, and no other     *)
(* will be written over it when it was alone.                              *)
LEMMA MigrateVerifyKeeps ==
  ASSUME RepositoryInv, NEW p \in Procs, MigrateVerify(p) PROVE RepositoryInv'
<1> USE DEF RepositoryInv
<1> DEFINE new == [password |-> proc[p].password, key |-> proc[p].key]
<1>1. /\ proc[p].pc = "verify" /\ proc[p] \in States
      /\ disk.key = GEK1(new.key, new.password)
      /\ proc' = [proc EXCEPT ![p] = Idle]
      /\ granted' = IF proc[p].alone THEN granted \cup {new} ELSE granted
      /\ UNCHANGED <<disk, durable, manifests, calls, faults, damaged, missed, data>>
  BY DEF MigrateVerify, Return, Unlocks, TypeOK
<1>2. new \in [password : Passwords, key : Nat]
  BY <1>1 DEF MigratingInv, WrapSteps
<1>3. proc'[p] = Idle /\ \A q \in Procs \ {p} : proc'[q] = proc[q]
  BY <1>1 DEF TypeOK
<1> HIDE DEF new
<1>4. TypeOK'
  BY <1>1, <1>2, IdleState DEF TypeOK
<1>5. FilesInv' /\ DataInv'
  BY <1>1 DEF FilesInv, DataInv, Encrypted, Holds
<1>6. GrantedInv'
  <2> SUFFICES ASSUME NEW g \in granted', ~Anew'
               PROVE  /\ disk.key = GEK1(g.key, g.password) /\ durable.key = disk.key
                      /\ \A q \in Procs : proc'[q].pc # "wrap"
    BY <1>1 DEF GrantedInv, Anew
  <2>1. CASE g \in granted
    BY <1>1, <1>3, <2>1, IdleState DEF GrantedInv, Anew
  <2>2. CASE g = new /\ proc[p].alone
    <3>1. proc[p].alone = TRUE
      BY <1>1, <2>2 DEF States
    <3> QED
      BY <1>1, <1>3, <2>2, <3>1, IdleState DEF MigratingInv
  <2> QED
    BY <1>1, <2>1, <2>2
<1>7. InitialisingInv(p)' /\ MigratingInv(p)' /\ BackupInv(p)'
  BY <1>3, IdleState DEF InitialisingInv, MigratingInv, BackupInv, InitSteps, WrapSteps
<1>8. ASSUME NEW q \in Procs \ {p}
      PROVE  InitialisingInv(q)' /\ MigratingInv(q)' /\ BackupInv(q)'
  <2>1. InitialisingInv(q)'
    BY <1>1, <1>3, BusyAlone DEF InitialisingInv, Anew, InitSteps
  <2>2. MigratingInv(q)'
    <3>1. \A r \in Procs : proc'[r].pc = "wrap" => proc[r].pc = "wrap"
      BY <1>3, IdleState
    <3>2. MigratingInv(q)
      OBVIOUS
    <3> HIDE DEF RepositoryInv
    <3> QED
      BY <1>1, <1>3, <3>1, <3>2 DEF MigratingInv, WrapSteps, Holds
  <2>3. BackupInv(q)'
    BY <1>1, <1>3 DEF BackupInv, Encrypted, Holds
  <2> QED
    BY <2>1, <2>2, <2>3
<1> QED
  BY <1>4, <1>5, <1>6, <1>7, <1>8

(* The steps of a backup.                                                  *)
LEMMA BackupStepKeeps ==
  ASSUME RepositoryInv, NEW p \in Procs,
         LoadPolynomial(p) \/ SavePolynomial(p) \/ SyncPolynomial(p) \/ UnlockRepo(p)
  PROVE  RepositoryInv'
<1>1. /\ proc[p] \in States /\ proc \in [Procs -> States] /\ disk \in Files
      /\ calls \in Nat /\ faults \in Nat /\ BackupInv(p) /\ FilesInv
  BY DEF RepositoryInv, TypeOK
<1>2. CASE LoadPolynomial(p)
  <2> DEFINE pc == IF disk.config.polynomial = 0 THEN "draw" ELSE "unlock"
             n == calls + 1
             a == [Idle EXCEPT !.pc = pc, !.config = disk.config]
             s == [a EXCEPT !.draw = n]
  <2>1. /\ disk.config # NoFile /\ \A q \in Procs : proc[q].pc \notin InitSteps
        /\ calls' = n /\ proc' = [proc EXCEPT ![p] = s]
        /\ UNCHANGED <<disk, durable, manifests, faults, damaged, missed, data, granted>>
    BY <1>2 DEF LoadPolynomial, Begin, Initialising, InitSteps
  <2>2. pc \in {"draw", "unlock"} /\ n \in Nat /\ pc \in Steps
    <3>1. n \in Nat
      BY SMT, <1>1
    <3>2. pc \in {"draw", "unlock"}
      OBVIOUS
    <3> QED
      BY <3>1, <3>2 DEF Steps
  <2> HIDE DEF pc, n
  <2>3. a \in States /\ a.pc = pc /\ a.config = disk.config
    BY <1>1, <2>2, IdleState DEF States, Files
  <2> HIDE DEF a
  <2>4. s \in States /\ s.pc = pc /\ s.config = disk.config
    BY <2>2, <2>3 DEF States
  <2> HIDE DEF s
  <2>5. proc'[p] = s /\ calls' \in Nat /\ faults' \in Nat
    BY <1>1, <2>1, <2>2
  <2>6. InitialisingInv(p)' /\ MigratingInv(p)' /\ BackupInv(p)'
    BY <1>1, <2>1, <2>2, <2>4, <2>5
    DEF InitialisingInv, MigratingInv, BackupInv, FilesInv, InitSteps, WrapSteps, Encrypted
  <2> QED
    BY <2>1, <2>2, <2>4, <2>5, <2>6, ProcStep
<1>3. CASE SavePolynomial(p)
  <2> DEFINE c == [proc[p].config EXCEPT !.polynomial = proc[p].draw]
             s == [proc[p] EXCEPT !.pc = "drawSync"]
  <2>1. /\ proc[p].pc = "draw" /\ Rename("config", c) /\ proc' = [proc EXCEPT ![p] = s]
    BY <1>1, <1>3 DEF SavePolynomial, Goto
  <2>2. proc[p].config \in Configs /\ proc[p].draw \in Nat
    BY <1>1, <2>1 DEF BackupInv, States, MayBe
  <2>3. c \in Configs /\ c.encrypted = proc[p].config.encrypted
    BY <2>2 DEF Configs
  <2>4. s \in States /\ s.pc = "drawSync"
    BY <1>1 DEF States, Steps
  <2> HIDE DEF c, s
  <2>5. Encrypted(c) => durable.key # NoFile
    BY <1>1, <2>1, <2>3 DEF BackupInv, Encrypted
  <2>6. proc'[p] = s
    BY <1>1, <2>1
  <2>7. InitialisingInv(p)' /\ MigratingInv(p)' /\ BackupInv(p)'
    BY <2>4, <2>6 DEF InitialisingInv, MigratingInv, BackupInv, InitSteps, WrapSteps
  <2> QED
    BY <2>1, <2>3, <2>4, <2>5, <2>7, ConfigStep
<1>4. CASE SyncPolynomial(p)
  <2> DEFINE s == [proc[p] EXCEPT !.pc = "unlock"]
  <2>1. /\ proc[p].pc = "drawSync" /\ SyncDir /\ proc' = [proc EXCEPT ![p] = s]
        /\ UNCHANGED granted
    BY <1>1, <1>4 DEF SyncPolynomial, Goto
  <2>2. s \in States /\ s.pc = "unlock"
    BY <1>1 DEF States, Steps
  <2> HIDE DEF s
  <2>3. proc'[p] = s
    BY <1>1, <2>1
  <2>4. InitialisingInv(p)' /\ MigratingInv(p)' /\ BackupInv(p)'
    BY <2>2, <2>3 DEF InitialisingInv, MigratingInv, BackupInv, InitSteps, WrapSteps
  <2> QED
    BY <2>1, <2>2, <2>4, SyncStep
<1>5. CASE UnlockRepo(p)
  <2> DEFINE k == IF disk.key = NoFile THEN NoFile ELSE disk.key.key
             s == [Idle EXCEPT !.pc = "backup", !.key = k]
  <2>1. /\ proc[p].pc = "unlock" /\ proc' = [proc EXCEPT ![p] = s]
        /\ UNCHANGED <<disk, durable, manifests, calls, faults, damaged, missed, data, granted>>
    BY <1>5 DEF UnlockRepo
  <2>2. k \in MayBe(Nat) /\ (k # NoFile => Holds(disk.key, k))
    BY <1>1 DEF Files, KeyFiles, MayBe, Holds
  <2> HIDE DEF k
  <2>3. s \in States /\ s.pc = "backup" /\ s.key = k
    BY <2>2, IdleState DEF States, Steps
  <2> HIDE DEF s
  <2>4. proc'[p] = s /\ calls' \in Nat /\ faults' \in Nat
    BY <1>1, <2>1
  <2>5. InitialisingInv(p)' /\ MigratingInv(p)' /\ BackupInv(p)'
    BY <2>1, <2>2, <2>3, <2>4
    DEF InitialisingInv, MigratingInv, BackupInv, InitSteps, WrapSteps, Holds
  <2> QED
    BY <2>1, <2>3, <2>4, <2>5, BusyAlone, ProcStep
<1> QED
  BY <1>2, <1>3, <1>4, <1>5

(* The key of a manifest is the one on disk.                               *)
LEMMA SaveManifestKeeps ==
  ASSUME RepositoryInv, NEW p \in Procs, SaveManifest(p) PROVE RepositoryInv'
<1> USE DEF RepositoryInv
<1>1. /\ proc[p].pc = "backup" /\ proc[p] \in States /\ manifests' = TRUE
      /\ proc' = [proc EXCEPT ![p] = Idle]
      /\ UNCHANGED <<disk, durable, calls, faults, damaged, missed, granted>>
  BY DEF SaveManifest, Return, TypeOK
<1>2. /\ proc'[p] = Idle
      /\ \A q \in Procs \ {p} : proc'[q] = proc[q] /\ proc[q].pc \notin InitSteps
  BY <1>1, BusyAlone DEF TypeOK
<1>3. ASSUME NEW k \in data', k \notin data
      PROVE  k \in Nat /\ Holds(disk.key, k) /\ Holds(durable.key, k)
  <2>1. k = proc[p].key /\ Holds(durable.key, k)
    BY <1>3 DEF SaveManifest, Holds
  <2>2. durable.key \in KeyFiles
    BY <2>1 DEF TypeOK, Files, MayBe, Holds
  <2>3. k \in Nat
    BY <2>1, <2>2 DEF KeyFiles, Holds
  <2> QED
    BY <1>1, <2>1, <2>3, FileForms DEF BackupInv
<1>4. TypeOK'
  BY <1>1, <1>3, IdleState DEF TypeOK
<1>5. FilesInv'
  BY <1>1 DEF FilesInv, Encrypted
<1>6. DataInv'
  BY <1>1, <1>3 DEF DataInv, Holds
<1>7. GrantedInv'
  BY <1>1, <1>2, IdleState DEF GrantedInv, Anew
<1>8. InitialisingInv(p)' /\ MigratingInv(p)' /\ BackupInv(p)'
  BY <1>2, IdleState DEF InitialisingInv, MigratingInv, BackupInv, InitSteps, WrapSteps
<1>9. ASSUME NEW q \in Procs \ {p}
      PROVE  InitialisingInv(q)' /\ MigratingInv(q)' /\ BackupInv(q)'
  <2>1. InitialisingInv(q)'
    BY <1>2 DEF InitialisingInv, Anew, InitSteps
  <2>2. MigratingInv(q)'
    <3>1. \A r \in Procs : proc'[r].pc = "wrap" => proc[r].pc = "wrap"
      BY <1>2, IdleState
    <3>2. MigratingInv(q)
      OBVIOUS
    <3> HIDE DEF RepositoryInv
    <3> QED
      BY <1>1, <1>2, <3>1, <3>2 DEF MigratingInv, WrapSteps, Holds
  <2>3. BackupInv(q)'
    BY <1>1, <1>2 DEF BackupInv, Encrypted, Holds
  <2> QED
    BY <2>1, <2>2, <2>3
<1> QED
  BY <1>4, <1>5, <1>6, <1>7, <1>8, <1>9

(* A power loss keeps one of two files that both will do, for each name.   *)
LEMMA PowerLossKeeps ==
  ASSUME RepositoryInv, PowerLoss PROVE RepositoryInv'
<1> USE DEF RepositoryInv
<1>1. PICK kept \in SUBSET {"config", "key"} :
         disk' = [f \in DOMAIN disk |-> IF f \in kept THEN disk[f] ELSE durable[f]]
  BY DEF PowerLoss
<1>2. /\ durable' = disk' /\ proc' = [q \in Procs |-> Idle] /\ faults' = faults + 1
      /\ UNCHANGED <<manifests, calls, damaged, missed, data, granted>>
  BY DEF PowerLoss, Fault
<1>3. /\ disk' = [config |-> disk'.config, key |-> disk'.key]
      /\ disk'.config \in {disk.config, durable.config}
      /\ disk'.key \in {disk.key, durable.key}
  BY <1>1 DEF TypeOK, Files
<1>4. TypeOK'
  <2>1. disk' \in Files
    BY <1>3 DEF TypeOK, Files
  <2>2. proc' \in [Procs -> States] /\ faults' \in Nat
    BY SMT, <1>2, IdleState DEF TypeOK
  <2> QED
    BY <1>2, <2>1, <2>2 DEF TypeOK
<1>5. FilesInv'
  BY <1>2, <1>3 DEF FilesInv, Encrypted
<1>6. DataInv'
  BY <1>2, <1>3 DEF DataInv, Holds
<1>7. GrantedInv'
  BY <1>2, <1>3, IdleState DEF GrantedInv, Anew
<1>8. \A q \in Procs : InitialisingInv(q)' /\ MigratingInv(q)' /\ BackupInv(q)'
  BY <1>2, IdleState DEF InitialisingInv, MigratingInv, BackupInv, InitSteps, WrapSteps
<1> QED
  BY <1>4, <1>5, <1>6, <1>7, <1>8

(* Damage to the configuration leaves the key file alone.                  *)
LEMMA DamageConfigKeeps ==
  ASSUME RepositoryInv, DamageConfig PROVE RepositoryInv'
<1> USE DEF RepositoryInv
<1>1. /\ disk' = [disk EXCEPT !.config = NoFile]
      /\ durable' = [durable EXCEPT !.config = NoFile]
      /\ damaged' = TRUE /\ faults' = faults + 1
      /\ UNCHANGED <<manifests, proc, calls, missed, data, granted>>
  BY DEF DamageConfig, Fault
<1>2. TypeOK'
  BY SMT, <1>1 DEF TypeOK, Files, MayBe
<1>3. /\ disk'.config = NoFile /\ durable'.config = NoFile
      /\ disk'.key = disk.key /\ durable'.key = durable.key
  BY <1>1 DEF TypeOK, Files
<1>4. FilesInv' /\ DataInv' /\ GrantedInv'
  BY <1>1, <1>3 DEF FilesInv, DataInv, GrantedInv, Anew, Encrypted, Holds
<1>5. ASSUME NEW q \in Procs
      PROVE  InitialisingInv(q)' /\ MigratingInv(q)' /\ BackupInv(q)'
  <2>1. InitialisingInv(q)'
    BY <1>1, <1>3 DEF InitialisingInv, Anew, NewKey
  <2>2. MigratingInv(q)' /\ BackupInv(q)'
    BY <1>1, <1>3 DEF MigratingInv, BackupInv, Encrypted, Holds
  <2> QED
    BY <2>1, <2>2
<1> QED
  BY <1>2, <1>4, <1>5

-----------------------------------------------------------------------------
(* A new repository, and one of an older version, satisfy the invariant.   *)
LEMMA RepositoryInitial == Init => RepositoryInv
<1> SUFFICES ASSUME Init PROVE RepositoryInv
  OBVIOUS
<1>1. /\ durable = disk /\ manifests = FALSE /\ damaged = FALSE /\ missed = {}
      /\ proc = [p \in Procs |-> Idle] /\ data = {} /\ granted = {}
      /\ calls = 0 /\ faults = 0
  BY DEF Init
<1>2. /\ disk \in Files
      /\ Encrypted(disk.config) => disk.key # NoFile
      /\ disk.key # NoFile => disk.config # NoFile
  <2>1. CASE disk = [config |-> NoFile, key |-> NoFile]
    BY <2>1 DEF Files, MayBe, Encrypted
  <2>2. CASE disk = [config |-> Config(0, TRUE), key |-> Legacy(0)]
    BY <2>2, FileForms DEF Files, MayBe
  <2>3. CASE disk = [config |-> Config(0, FALSE), key |-> NoFile]
    BY <2>3, FileForms DEF Files, MayBe, Encrypted, Config
  <2> QED
    BY <2>1, <2>2, <2>3 DEF Init
<1>3. TypeOK
  BY <1>1, <1>2, IdleState DEF TypeOK
<1>4. FilesInv /\ DataInv /\ GrantedInv
  BY <1>1, <1>2 DEF FilesInv, DataInv, GrantedInv, Anew
<1>5. \A p \in Procs : InitialisingInv(p) /\ MigratingInv(p) /\ BackupInv(p)
  BY <1>1, IdleState DEF InitialisingInv, MigratingInv, BackupInv, InitSteps, WrapSteps
<1> QED
  BY <1>3, <1>4, <1>5 DEF RepositoryInv

(* Every step of every process, and every fault, keeps it.                 *)
LEMMA RepositoryStep == RepositoryInv /\ [Next]_vars => RepositoryInv'
<1> SUFFICES ASSUME RepositoryInv, [Next]_vars PROVE RepositoryInv'
  OBVIOUS
<1>1. ASSUME NEW p \in Procs, NEW password \in Passwords, InitRepo(p, "password", password)
      PROVE  RepositoryInv'
  BY <1>1, InitRepoKeeps DEF MayBe
<1>2. ASSUME NEW p \in Procs, NEW how \in {"plain", "keyfile"}, InitRepo(p, how, NoFile)
      PROVE  RepositoryInv'
  BY <1>2, InitRepoKeeps DEF MayBe
<1>3. ASSUME NEW p \in Procs, CallFails(p) \/ Kill(p) PROVE RepositoryInv'
  <2>1. /\ proc[p].pc # "idle" /\ Return(p) /\ calls' \in Nat /\ faults' \in Nat
        /\ UNCHANGED <<disk, durable, manifests, damaged, missed, data, granted>>
    BY SMT, <1>3 DEF CallFails, Kill, Fault, RepositoryInv, TypeOK
  <2> QED
    BY <2>1, ReturnStep
<1>4. CASE UNCHANGED vars
  <2> USE <1>4 DEF vars
  <2>1. TypeOK' /\ FilesInv' /\ DataInv' /\ GrantedInv'
    BY DEF RepositoryInv, TypeOK, FilesInv, DataInv, GrantedInv, Anew, Encrypted, Holds
  <2>2. ASSUME NEW p \in Procs PROVE InitialisingInv(p)' /\ MigratingInv(p)' /\ BackupInv(p)'
    <3>1. InitialisingInv(p) /\ MigratingInv(p) /\ BackupInv(p)
      BY DEF RepositoryInv
    <3>2. InitialisingInv(p)'
      BY <3>1 DEF InitialisingInv, Anew, NewKey
    <3>3. MigratingInv(p)'
      BY <3>1 DEF MigratingInv, Holds
    <3>4. BackupInv(p)'
      BY <3>1 DEF BackupInv, Encrypted, Holds
    <3> QED
      BY <3>2, <3>3, <3>4
  <2> QED
    BY <2>1, <2>2 DEF RepositoryInv
<1> QED
  BY <1>1, <1>2, <1>3, <1>4, InitStepKeeps, InitSaveKeyKeeps, InitReturnKeeps,
     MigrateStepKeeps, MigrateSaveKeeps, MigrateVerifyKeeps, BackupStepKeeps,
     SaveManifestKeeps, PowerLossKeeps, DamageConfigKeeps
  DEF Next

(* The inductive invariant of the repository.                              *)
THEOREM RepositoryInvariant == Spec => []RepositoryInv
  BY RepositoryInitial, RepositoryStep, PTL DEF Spec

(* KeyKept for any number of processes, calls and faults: no               *)
(* initialisation, migration, crash or power loss replaces the key that    *)
(* stored manifests were sealed under (InitRepo's refusal of what IsGBRepo *)
(* recognises, MigrateKeyFileToGEK1 wrapping the key it has read), whether *)
(* or not the configuration can be read, as long as no initialisation      *)
(* fails to list the manifests there are.                                  *)
THEOREM KeyIsKept == Spec => []KeyKept
<1>1. RepositoryInv => KeyKept
  BY DEF RepositoryInv, DataInv, KeyKept, Holds
<1> QED
  BY <1>1, RepositoryInvariant, PTL

(* EncryptedHasKey likewise: the configuration is marked after the key is  *)
(* on disk, by InitRepoWithPassword and InitRepoWithKeyFile, and a backup  *)
(* that saves an older configuration marks nothing.                        *)
THEOREM MarkedHasKey == Spec => []EncryptedHasKey
<1>1. RepositoryInv => EncryptedHasKey
  <2> SUFFICES ASSUME RepositoryInv, disk.config # NoFile, disk.config.encrypted
               PROVE  disk.key # NoFile
    BY DEF EncryptedHasKey
  <2>1. disk.config \in Configs
    BY DEF RepositoryInv, TypeOK, Files, MayBe
  <2>2. disk.config.encrypted = TRUE
    BY <2>1 DEF Configs
  <2> QED
    BY <2>2 DEF RepositoryInv, FilesInv, Encrypted
<1> QED
  BY <1>1, RepositoryInvariant, PTL

(* GrantedUnlocks likewise: a password that was accepted, with no other    *)
(* migration about to write, opens the repository from then on, unless the *)
(* configuration is damaged or an initialisation cannot read it.           *)
THEOREM PasswordKeepsOpening == Spec => []GrantedUnlocks
<1>1. RepositoryInv => GrantedUnlocks
  BY DEF RepositoryInv, GrantedInv, Anew, GrantedUnlocks, Unlocks
<1> QED
  BY <1>1, RepositoryInvariant, PTL
=============================================================================
