-------------------------- MODULE FileBackupProofs --------------------------
(***************************************************************************)
(* Proofs about FileBackup, for every set of units, every chunk size,      *)
(* every pattern of writes and every combination of faults: what is stored *)
(* has the hash it is stored under, and the entry of a file is fresh, can  *)
(* be restored and does not make the save of the manifest fail.            *)
(***************************************************************************)
EXTENDS FileBackup, WellFoundedInduction, TLAPS

Contents == Seq(Units)
Statuses == {"none", "error", "new", "changed", "unchanged"}
EntryType == [status : Statuses, hash : Contents, size : Nat, mtime : Nat,
              chunks : Seq(Contents)]
WorkType == [size : Nat, mtime : Nat, missing : BOOLEAN, read : Seq(Contents),
             hash : Contents, retained : BOOLEAN, blob : Contents,
             present : SUBSET Contents, next : Nat \ {0}, pos : Nat, entry : EntryType]

(* The steps of a file of at least a chunk, and those of a smaller one.    *)
Streaming == {"hash", "same", "probe", "upload"}
Small == {"read", "reread", "check", "put"}
Places == {"idle", "fast", "done"} \cup Streaming \cup Small

TypeOK ==
    /\ setup \in Setup
    /\ file \in [content : Contents, mtime : Nat]
    /\ stored \subseteq Contents \X Contents
    /\ prev \in EntryType
    /\ runs \in Nat /\ writes \in Nat
    /\ pc \in Places
    /\ w \in WorkType
    /\ seen \subseteq Contents

(* Most leaves are first-order: Zenon unless a leaf names another prover.  *)
USE Zenon

-----------------------------------------------------------------------------
(* Naturals and sequences.                                                 *)
Below == {p \in Nat \X Nat : p[1] < p[2]}

(* A set of natural numbers that is not empty has a least element.         *)
LEMMA LeastNat ==
  ASSUME NEW T \in SUBSET Nat, T # {}
  PROVE  \E m \in T : \A k \in T : m <= k
<1>1. IsWellFoundedOn(Below, Nat)
  BY NatLessThanWellFounded DEF OpToRel, Below
<1>2. PICK m \in T : \A y \in T : ~(<<y, m>> \in Below)
  BY <1>1, WFMin
<1>3. ASSUME NEW k \in T, k < m PROVE FALSE
  <2>1. <<k, m>> \in Nat \X Nat
    OBVIOUS
  <2>2. <<k, m>> \in Below
    BY <2>1, <1>3 DEF Below
  <2> QED BY <2>2, <1>2
<1> QED BY SMT, <1>3

(* What a read returns: the units of the file from the offset on, as many  *)
(* as asked for unless the file ends.                                      *)
LEMMA ReadAtUnits ==
  ASSUME NEW c \in Contents, NEW pos \in Nat, NEW n \in Int
  PROVE  /\ ReadAt(c, pos, n) \in Contents
         /\ \A i \in 1 .. Len(ReadAt(c, pos, n)) :
               pos + i \in DOMAIN c /\ ReadAt(c, pos, n)[i] = c[pos + i]
         /\ n >= 0 => Len(ReadAt(c, pos, n)) <= n
         /\ n >= 0 /\ pos + n <= Len(c) => Len(ReadAt(c, pos, n)) = n
         /\ n > 0 /\ pos < Len(c) => Len(ReadAt(c, pos, n)) > 0
<1> DEFINE m == IF pos + n <= Len(c) THEN n
                ELSE IF pos <= Len(c) THEN Len(c) - pos ELSE 0
           len == IF m < 0 THEN 0 ELSE m
<1>0. Len(c) \in Nat /\ DOMAIN c = 1 .. Len(c) /\ \A i \in 1 .. Len(c) : c[i] \in Units
  BY SMT DEF Contents
<1>1. /\ len \in Nat /\ 1 .. m = 1 .. len
      /\ \A i \in 1 .. len : pos + i \in 1 .. Len(c)
      /\ n >= 0 => len <= n
      /\ n >= 0 /\ pos + n <= Len(c) => len = n
      /\ n > 0 /\ pos < Len(c) => len > 0
  <2> DEFINE L == Len(c)
  <2>1. L \in Nat
    BY <1>0
  <2> HIDE DEF L
  <2>2. m = IF pos + n <= L THEN n ELSE IF pos <= L THEN L - pos ELSE 0
    BY DEF L
  <2> HIDE DEF m
  <2>3. CASE pos + n <= L
    BY SMT, <2>1, <2>2, <2>3 DEF L
  <2>4. CASE ~(pos + n <= L) /\ pos <= L
    BY SMT, <2>1, <2>2, <2>4 DEF L
  <2>5. CASE ~(pos + n <= L) /\ ~(pos <= L)
    BY SMT, <2>1, <2>2, <2>5 DEF L
  <2> QED BY <2>3, <2>4, <2>5
<1>2. ReadAt(c, pos, n) = [i \in 1 .. len |-> c[pos + i]]
  BY <1>1 DEF ReadAt
<1> HIDE DEF len, m
<1>3. \A i \in 1 .. len : c[pos + i] \in Units
  BY <1>0, <1>1
<1>4. [i \in 1 .. len |-> c[pos + i]] \in Seq(Units)
  BY SMT, <1>1, <1>3
<1>5. Len([i \in 1 .. len |-> c[pos + i]]) = len
  BY SMT, <1>1, <1>3
<1> QED BY <1>0, <1>1, <1>2, <1>3, <1>4, <1>5 DEF Contents

(* A prefix of a sequence.                                                 *)
LEMMA Prefix ==
  ASSUME NEW s \in Contents, NEW k \in 1 .. Len(s)
  PROVE  /\ SubSeq(s, 1, k) \in Contents /\ Len(SubSeq(s, 1, k)) = k
         /\ \A i \in 1 .. k : i \in 1 .. Len(s) /\ SubSeq(s, 1, k)[i] = s[i]
  BY SMT DEF Contents

(* A chunk cut by content is read from the offset on, and it is empty only *)
(* at the end of the file.                                                 *)
LEMMA CDCChunkUnits ==
  ASSUME NEW c \in Contents, NEW pos \in Nat
  PROVE  /\ CDCChunk(c, pos) \in Contents
         /\ \A i \in 1 .. Len(CDCChunk(c, pos)) :
               pos + i \in DOMAIN c /\ CDCChunk(c, pos)[i] = c[pos + i]
         /\ CDCChunk(c, pos) = <<>> => Len(c) <= pos
<1> DEFINE rest == ReadAt(c, pos, 2 * ChunkUnits)
           cuts == {i \in DOMAIN rest : rest[i] \in CutUnits}
           cut == CHOOSE i \in cuts : \A j \in cuts : i <= j
<1>0. 2 * ChunkUnits \in Int /\ 2 * ChunkUnits > 0
  BY SMT, FileAssumption
<1>1. /\ rest \in Contents
      /\ \A i \in 1 .. Len(rest) : pos + i \in DOMAIN c /\ rest[i] = c[pos + i]
      /\ pos < Len(c) => Len(rest) > 0
  BY <1>0, ReadAtUnits
<1>2. CDCChunk(c, pos) = IF cuts = {} THEN rest ELSE SubSeq(rest, 1, cut)
  BY DEF CDCChunk
<1> HIDE DEF rest
<1>3. DOMAIN rest = 1 .. Len(rest) /\ Len(rest) \in Nat
  BY SMT, <1>1 DEF Contents
<1>4. CASE cuts = {}
  <2>1. CDCChunk(c, pos) = rest
    BY <1>2, <1>4
  <2>2. rest = <<>> => Len(rest) = 0
    BY SMT
  <2>3. rest = <<>> => Len(c) <= pos
    <3> HAVE rest = <<>>
    <3>1. ~(pos < Len(c))
      BY SMT, <1>1, <2>2
    <3>2. Len(c) \in Nat
      BY SMT DEF Contents
    <3> QED BY SMT, <3>1, <3>2
  <2> QED BY <2>1, <1>1, <2>3
<1>5. CASE cuts # {}
  <2>1. cuts \in SUBSET Nat
    BY SMT, <1>3
  <2>2. \E m \in cuts : \A k \in cuts : m <= k
    BY <2>1, <1>5, LeastNat
  <2>3. cut \in cuts
    BY <2>2
  <2> HIDE DEF cut
  <2>4. cut \in 1 .. Len(rest)
    BY <2>3, <1>3
  <2> HIDE DEF cuts
  <2>5. CDCChunk(c, pos) = SubSeq(rest, 1, cut)
    BY <1>2, <1>5
  <2>6. /\ SubSeq(rest, 1, cut) \in Contents /\ Len(SubSeq(rest, 1, cut)) = cut
        /\ \A i \in 1 .. cut : i \in 1 .. Len(rest) /\ SubSeq(rest, 1, cut)[i] = rest[i]
    BY <1>1, <2>4, Prefix
  <2>7. SubSeq(rest, 1, cut) # <<>>
    BY SMT, <2>6, <2>4, <1>3
  <2> QED BY <2>5, <2>6, <2>7, <1>1
<1> QED BY <1>4, <1>5

(* The next chunk of the hash pass: units of the file that follow what was *)
(* hashed; a fixed-size chunk stays within the scanned size; the pass ends *)
(* no earlier than at that size, unless the file does.                     *)
LEMMA NextChunkUnits ==
  ASSUME TypeOK
  PROVE  /\ NextChunk \in Contents
         /\ \A i \in 1 .. Len(NextChunk) :
               /\ Len(w.hash) + i \in DOMAIN file.content
               /\ NextChunk[i] = file.content[Len(w.hash) + i]
         /\ ~setup.cdc /\ Len(w.hash) <= w.size => Len(w.hash) + Len(NextChunk) <= w.size
         /\ NextChunk = <<>> /\ w.size <= Len(file.content) => w.size <= Len(w.hash)
<1> DEFINE c == file.content
           pos == Len(w.hash)
           size == w.size
<1>0. w.hash \in Contents
  BY DEF TypeOK, WorkType
<1>1. c \in Contents /\ pos \in Nat /\ size \in Nat
  BY SMT, <1>0 DEF TypeOK, WorkType, Contents
<1>2. Len(c) \in Nat
  BY SMT, <1>1 DEF Contents
<1>3. CASE setup.cdc
  <2>1. NextChunk = CDCChunk(c, pos)
    BY <1>3 DEF NextChunk
  <2> HIDE DEF c, pos, size
  <2>2. /\ NextChunk \in Contents
        /\ \A i \in 1 .. Len(NextChunk) : pos + i \in DOMAIN c /\ NextChunk[i] = c[pos + i]
        /\ NextChunk = <<>> => Len(c) <= pos
    BY <2>1, <1>1, CDCChunkUnits
  <2>3. NextChunk = <<>> /\ size <= Len(c) => size <= pos
    BY SMT, <2>2, <1>1, <1>2
  <2> QED BY <2>2, <2>3, <1>3 DEF c, pos, size
<1>4. CASE ~setup.cdc
  <2> DEFINE n == IF size - pos < ChunkUnits THEN size - pos ELSE ChunkUnits
  <2>1. NextChunk = ReadAt(c, pos, n)
    BY <1>4 DEF NextChunk, FixedChunk
  <2> HIDE DEF c, pos, size
  <2>2. ChunkUnits \in Nat /\ ChunkUnits > 0
    BY SMT, FileAssumption
  <2>3. /\ n \in Int /\ pos + n <= size
        /\ pos <= size => n >= 0
        /\ pos < size => n > 0
    BY SMT, <1>1, <2>2
  <2> HIDE DEF n
  <2>4. /\ NextChunk \in Contents
        /\ \A i \in 1 .. Len(NextChunk) : pos + i \in DOMAIN c /\ NextChunk[i] = c[pos + i]
        /\ n >= 0 => Len(NextChunk) <= n
        /\ n > 0 /\ pos < Len(c) => Len(NextChunk) > 0
    BY <2>1, <2>3, <1>1, ReadAtUnits
  <2>5. Len(NextChunk) \in Nat /\ (NextChunk = <<>> => Len(NextChunk) = 0)
    BY SMT, <2>4 DEF Contents
  <2>6. pos <= size => pos + Len(NextChunk) <= size
    BY SMT, <2>3, <2>4, <2>5, <1>1
  <2>7. NextChunk = <<>> /\ size <= Len(c) => size <= pos
    BY SMT, <2>3, <2>4, <2>5, <1>1, <1>2
  <2> QED BY <2>4, <2>6, <2>7 DEF c, pos, size
<1> QED BY <1>3, <1>4

-----------------------------------------------------------------------------
(* Types.                                                                  *)
LEMMA StatusType ==
  ASSUME NEW h
  PROVE  Status(h) \in {"new", "changed", "unchanged"}
  BY DEF Status

LEMMA PrevTypes ==
  ASSUME TypeOK
  PROVE  /\ prev.status \in Statuses /\ prev.hash \in Contents /\ prev.size \in Nat
         /\ prev.mtime \in Nat /\ prev.chunks \in Seq(Contents)
  BY SMT DEF TypeOK, EntryType

LEMMA WorkTypes ==
  ASSUME TypeOK
  PROVE  /\ w.size \in Nat /\ w.mtime \in Nat /\ w.missing \in BOOLEAN
         /\ w.read \in Seq(Contents) /\ w.hash \in Contents
         /\ w.retained \in BOOLEAN /\ w.blob \in Contents
         /\ w.present \in SUBSET Contents /\ w.next \in Nat \ {0} /\ w.pos \in Nat
         /\ w.entry \in EntryType
  BY SMT DEF TypeOK, WorkType

LEMMA FileTypes ==
  ASSUME TypeOK
  PROVE  file.content \in Contents /\ file.mtime \in Nat
  BY SMT DEF TypeOK

(* The local states of a worker on the file that was scanned.              *)
Scanned == {s \in WorkType : s.size = w.size /\ s.mtime = w.mtime}

(* What every step of a worker leaves alone; blobs are only added.         *)
Kept == /\ UNCHANGED <<setup, file, prev, seen>>
        /\ pc' # "idle"
        /\ w'.size = w.size /\ w'.mtime = w.mtime
        /\ stored \subseteq stored'

LEMMA WorkKeeps ==
  ASSUME TypeOK, NEW next \in Places \ {"idle"}, NEW state \in Scanned,
         Work(next, state),
         stored' \subseteq Contents \X Contents, stored \subseteq stored'
  PROVE  TypeOK' /\ Kept
  BY DEF TypeOK, Work, Scanned, Kept

LEMMA FinishKeeps ==
  ASSUME TypeOK, NEW h \in Contents, NEW s \in Statuses, NEW c \in Seq(Contents),
         Finish(h, s, c),
         stored' \subseteq Contents \X Contents, stored \subseteq stored'
  PROVE  TypeOK' /\ Kept
<1> DEFINE e == Entry(s, h, w.size, w.mtime, c)
<1>1. e \in EntryType
  BY SMT, WorkTypes DEF Entry, EntryType
<1>2. Work("done", [w EXCEPT !.entry = e])
  BY DEF Finish
<1> HIDE DEF e
<1>3. [w EXCEPT !.entry = e] \in Scanned
  BY <1>1 DEF TypeOK, WorkType, Scanned
<1>4. "done" \in Places \ {"idle"}
  BY DEF Places
<1> QED BY <1>2, <1>3, <1>4, WorkKeeps

LEMMA FailKeeps ==
  ASSUME TypeOK, Fail
  PROVE  TypeOK' /\ Kept
<1>1. Finish(<<>>, "error", <<>>) /\ stored' = stored
  BY DEF Fail, Finish
<1>2. <<>> \in Contents /\ <<>> \in Seq(Contents) /\ "error" \in Statuses
  BY SMT DEF Contents, Statuses
<1> QED BY <1>1, <1>2, FinishKeeps DEF TypeOK

LEMMA PutKeepsTypes ==
  ASSUME TypeOK, NEW k \in Contents, NEW c \in Contents, Put(k, c)
  PROVE  stored' \subseteq Contents \X Contents /\ stored \subseteq stored'
<1>1. <<k, c>> \in Contents \X Contents
  OBVIOUS
<1> QED BY <1>1 DEF Put, TypeOK

(* The local states the steps of the worker lead to.                       *)
LEMMA StartTypes ==
  ASSUME TypeOK, NEW s \in Scanned
  PROVE  StartStream(s) \in Scanned /\ [s EXCEPT !.missing = TRUE] \in Scanned
<1>1. (w.size <= RetainUnits) \in BOOLEAN
  BY SMT, FileAssumption, WorkTypes
<1>2. [s EXCEPT !.retained = w.size <= RetainUnits] \in Scanned
  BY <1>1 DEF WorkType, Scanned
<1> QED BY <1>2 DEF StartStream, WorkType, Scanned

LEMMA PastTypes ==
  ASSUME TypeOK, w.next <= Len(w.read)
  PROVE  Past \in Scanned
<1> DEFINE len == Len(w.read[w.next])
           n == w.next + 1
           p == w.pos + len
<1>1. w.next \in 1 .. Len(w.read)
  BY SMT, WorkTypes
<1>2. w.read[w.next] \in Contents
  BY SMT, <1>1, WorkTypes
<1>3. len \in Nat
  BY SMT, <1>2 DEF Contents
<1>4. n \in Nat \ {0} /\ p \in Nat
  <2>1. w.next \in Nat /\ w.pos \in Nat
    BY WorkTypes
  <2> HIDE DEF len
  <2> QED BY SMT, <1>3, <2>1
<1> HIDE DEF n, p
<1>5. Past = [w EXCEPT !.next = n, !.pos = p]
  BY DEF Past, n, p
<1> QED BY <1>4, <1>5 DEF TypeOK, WorkType, Scanned

LEMMA HashedTypes ==
  ASSUME TypeOK
  PROVE  Hashed(NextChunk) \in Scanned
<1> DEFINE k == w.retained /\ (setup.cdc => Len(w.hash \o NextChunk) <= RetainUnits)
           r == Append(w.read, NextChunk)
           h == w.hash \o NextChunk
<1>1. r \in Seq(Contents)
  BY SMT, NextChunkUnits, WorkTypes
<1>2. h \in Contents
  BY SMT, NextChunkUnits, WorkTypes DEF Contents
<1>3. k \in BOOLEAN
  OBVIOUS
<1> HIDE DEF k, r, h
<1>4. Hashed(NextChunk) = [w EXCEPT !.read = r, !.hash = h, !.retained = k]
  BY DEF Hashed, k, r, h
<1>5. w \in WorkType
  BY DEF TypeOK
<1> QED BY <1>1, <1>2, <1>3, <1>4, <1>5 DEF WorkType, Scanned

LEMMA SmallTypes ==
  ASSUME TypeOK
  PROVE  /\ [w EXCEPT !.hash = file.content, !.blob = file.content] \in Scanned
         /\ [w EXCEPT !.blob = file.content] \in Scanned
<1>1. w \in WorkType /\ file.content \in Contents
  BY FileTypes DEF TypeOK
<1> QED BY <1>1 DEF WorkType, Scanned

(* All blobs of the previous entry are there, or the worker goes on.       *)
LEMMA TryUnchangedKeeps ==
  ASSUME TypeOK, NEW h \in Contents, NEW next \in Places \ {"idle"},
         NEW state \in Scanned,
         TryUnchanged(h, Work(next, state))
  PROVE  TypeOK' /\ Kept
<1>1. CASE Fail
  BY <1>1, FailKeeps
<1>2. CASE Finish(h, "unchanged", prev.chunks) /\ UNCHANGED stored
  BY <1>2, FinishKeeps, PrevTypes DEF TypeOK, Statuses
<1>3. CASE Work(next, state) /\ UNCHANGED stored
  BY <1>3, WorkKeeps DEF TypeOK
<1> QED BY <1>1, <1>2, <1>3 DEF TryUnchanged

LEMMA NoWorkType == NoWork \in WorkType /\ NoEntry \in EntryType
<1>1. <<>> \in Contents /\ <<>> \in Seq(Contents)
  BY SMT DEF Contents
<1>2. NoEntry \in EntryType
  BY SMT, <1>1 DEF NoEntry, Entry, EntryType, Statuses
<1>3. NoWork \in WorkType
  BY SMT, <1>1, <1>2 DEF NoWork, WorkType
<1> QED BY <1>2, <1>3

LEMMA TypesInit == Init => TypeOK
<1> SUFFICES ASSUME Init PROVE TypeOK
  OBVIOUS
<1>1. file \in [content : Contents, mtime : Nat]
  BY SMT, FileAssumption DEF Init, Contents
<1> QED BY <1>1, NoWorkType, FileAssumption DEF Init, TypeOK, Places

(* A write to the file.                                                    *)
LEMMA WriteKeepsTypes ==
  ASSUME TypeOK, NEW c \in Contents, WriteFile(c)
  PROVE  TypeOK'
<1>1. PICK m \in {file.mtime, file.mtime + 1} : file' = [content |-> c, mtime |-> m]
  BY DEF WriteFile
<1>2. m \in Nat
  BY SMT, FileTypes
<1>3. writes' \in Nat
  BY SMT DEF WriteFile, TypeOK
<1>4. file' \in [content : Contents, mtime : Nat]
  BY SMT, <1>1, <1>2
<1> QED BY <1>3, <1>4 DEF WriteFile, TypeOK

(* What the writes make of the content.                                    *)
LEMMA OverwriteUnits ==
  ASSUME NEW c \in Contents, NEW i \in DOMAIN c, NEW u \in Units
  PROVE  /\ [c EXCEPT ![i] = u] \in Contents
         /\ Len([c EXCEPT ![i] = u]) = Len(c)
  BY SMT DEF Contents

LEMMA ExtendUnits ==
  ASSUME NEW c \in Contents, NEW u \in Units
  PROVE  /\ Append(c, u) \in Contents
         /\ Len(Append(c, u)) = Len(c) + 1
  BY SMT DEF Contents

LEMMA TruncateUnits ==
  ASSUME NEW c \in Contents, NEW n \in 0 .. Len(c) - 1
  PROVE  SubSeq(c, 1, n) \in Contents
  BY SMT DEF Contents

(* The three ways to write.                                                *)
LEMMA Written ==
  ASSUME TypeOK, Overwrite \/ Extend \/ Truncate
  PROVE  \E c \in Contents :
            /\ WriteFile(c)
            /\ "truncate" \notin setup.writes => Len(file.content) <= Len(c)
            /\ "truncate" \notin setup.writes /\ "append" \notin setup.writes =>
                  Len(file.content) = Len(c)
<1>0. file.content \in Contents /\ Len(file.content) \in Nat
  BY SMT, FileTypes DEF Contents
<1>1. CASE Overwrite
  <2>1. PICK i \in DOMAIN file.content, u \in Units : WriteFile([file.content EXCEPT ![i] = u])
    BY <1>1 DEF Overwrite
  <2>2. Len(file.content) <= Len(file.content)
    BY SMT, <1>0
  <2> QED BY <2>1, <2>2, <1>0, OverwriteUnits
<1>2. CASE Extend
  <2>1. PICK u \in Units : WriteFile(Append(file.content, u))
    BY <1>2 DEF Extend
  <2>2. Len(file.content) <= Len(file.content) + 1
    BY SMT, <1>0
  <2>3. "append" \in setup.writes
    BY <1>2 DEF Extend
  <2> QED BY <2>1, <2>2, <2>3, <1>0, ExtendUnits
<1>3. CASE Truncate
  <2>1. PICK n \in 0 .. Len(file.content) - 1 : WriteFile(SubSeq(file.content, 1, n))
    BY <1>3 DEF Truncate
  <2>2. "truncate" \in setup.writes
    BY <1>3 DEF Truncate
  <2> QED BY <2>1, <2>2, <1>0, TruncateUnits
<1> QED BY <1>1, <1>2, <1>3

Write == Overwrite \/ Extend \/ Truncate
WorkerStep == \/ FastPath \/ OpenFails \/ ReadSmall \/ RereadSmall \/ CheckBlob
              \/ PutSmall \/ HashChunk \/ SameHash \/ ProbeChunks
              \/ UploadRetained \/ UploadReread \/ UploadEnd

LEMMA Steps == Next => Write \/ LoseBlob \/ Scan \/ WorkerStep \/ Save
  BY DEF Next, Write, WorkerStep

(* A step of the worker keeps the types, the file and the previous entry.  *)
LEMMA WorkerKeeps ==
  ASSUME TypeOK, WorkerStep
  PROVE  TypeOK' /\ Kept
<1>0. /\ w \in Scanned /\ w.hash \in Contents /\ w.blob \in Contents
      /\ w.read \in Seq(Contents) /\ prev.hash \in Contents
      /\ prev.chunks \in Seq(Contents) /\ <<>> \in Seq(Contents)
  <2>1. <<>> \in Seq(Contents)
    BY SMT
  <2> QED BY <2>1, WorkTypes, PrevTypes DEF TypeOK, Scanned
<1>1. UNCHANGED stored => stored' \subseteq Contents \X Contents /\ stored \subseteq stored'
  BY DEF TypeOK
<1>2. \A h : Status(h) \in Statuses
  BY StatusType DEF Statuses
<1>3. {AfterFastPath, "check", "reread", "put", "hash", "same", "probe", "upload"}
        \subseteq Places \ {"idle"}
  BY DEF AfterFastPath, Places, Streaming, Small
<1>4. "unchanged" \in Statuses
  BY DEF Statuses
<1>5. CASE FastPath
  <2>1. [w EXCEPT !.missing = TRUE] \in Scanned
    BY <1>0, StartTypes
  <2>2. StartStream(w) \in Scanned /\ StartStream([w EXCEPT !.missing = TRUE]) \in Scanned
    BY <1>0, <2>1, StartTypes
  <2>3. CASE TryUnchanged(prev.hash,
                Work(AfterFastPath, StartStream([w EXCEPT !.missing = TRUE])))
    BY <2>3, <2>2, <1>0, <1>3, TryUnchangedKeeps
  <2>4. CASE Work(AfterFastPath, StartStream(w)) /\ UNCHANGED stored
    BY <2>4, <2>2, <1>1, <1>3, WorkKeeps
  <2> QED BY <1>5, <2>3, <2>4 DEF FastPath
<1>6. CASE OpenFails
  BY <1>6, FailKeeps DEF OpenFails
<1>7. CASE ReadSmall
  BY <1>7, <1>1, <1>3, SmallTypes, WorkKeeps DEF ReadSmall
<1>8. CASE RereadSmall
  BY <1>8, <1>1, <1>3, SmallTypes, WorkKeeps DEF RereadSmall
<1>9. CASE CheckBlob
  <2>1. CASE Work("put", w) /\ UNCHANGED stored
    BY <2>1, <1>0, <1>1, <1>3, WorkKeeps
  <2>2. CASE Finish(w.hash, "unchanged", prev.chunks) /\ UNCHANGED stored
    BY <2>2, <1>0, <1>1, <1>4, FinishKeeps
  <2>3. CASE Finish(w.hash, Status(w.hash), <<>>) /\ UNCHANGED stored
    BY <2>3, <1>0, <1>1, <1>2, FinishKeeps
  <2>4. CASE Fail
    BY <2>4, FailKeeps
  <2> QED BY <1>9, <2>1, <2>2, <2>3, <2>4 DEF CheckBlob
<1>10. CASE PutSmall
  <2>1. CASE Put(w.hash, w.blob) /\ Finish(w.hash, Status(w.hash), <<>>)
    BY <2>1, <1>0, <1>2, PutKeepsTypes, FinishKeeps
  <2> QED BY <1>10, <2>1, FailKeeps DEF PutSmall, PutFails
<1>11. CASE HashChunk
  <2>1. CASE Work("same", w) /\ UNCHANGED stored
    BY <2>1, <1>0, <1>1, <1>3, WorkKeeps
  <2>2. CASE Work("hash", Hashed(NextChunk)) /\ UNCHANGED stored
    BY <2>2, <1>1, <1>3, HashedTypes, WorkKeeps
  <2> QED BY <1>11, <2>1, <2>2 DEF HashChunk
<1>12. CASE SameHash
  <2>1. CASE TryUnchanged(w.hash, Work("probe", w))
    BY <2>1, <1>0, <1>3, TryUnchangedKeeps
  <2>2. CASE Work("probe", w) /\ UNCHANGED stored
    BY <2>2, <1>0, <1>1, <1>3, WorkKeeps
  <2> QED BY <1>12, <2>1, <2>2 DEF SameHash
<1>13. CASE ProbeChunks
  <2>1. CASE Finish(w.hash, Status(w.hash), w.read) /\ UNCHANGED stored
    BY <2>1, <1>0, <1>1, <1>2, FinishKeeps
  <2>2. ASSUME NEW answer \in SUBSET Range(prev.chunks), UNCHANGED stored,
               Work("upload", [w EXCEPT !.present = answer])
        PROVE  TypeOK' /\ Kept
    <3>1. Range(prev.chunks) \subseteq Contents
      BY SMT, <1>0 DEF Range
    <3>2. [w EXCEPT !.present = answer] \in Scanned
      BY <3>1, <1>0 DEF Scanned, WorkType
    <3> QED BY <2>2, <3>2, <1>1, <1>3, WorkKeeps
  <2> QED BY <1>13, <2>1, <2>2, FailKeeps DEF ProbeChunks
<1>14. ASSUME w.next <= Len(w.read), Skip
       PROVE  TypeOK' /\ Kept
  BY <1>14, <1>1, <1>3, PastTypes, WorkKeeps DEF Skip
<1>15. ASSUME w.next <= Len(w.read), Store(w.read[w.next])
       PROVE  TypeOK' /\ Kept
  <2>1. w.read[w.next] \in Contents
    <3>1. w.next \in 1 .. Len(w.read)
      BY SMT, <1>15, WorkTypes
    <3> QED BY SMT, <3>1, <1>0
  <2>2. CASE Put(w.read[w.next], w.read[w.next]) /\ Work("upload", Past)
    BY <2>1, <2>2, <1>15, <1>3, PutKeepsTypes, PastTypes, WorkKeeps
  <2> QED BY <1>15, <2>2, FailKeeps DEF Store, PutFails
<1>16. ASSUME UploadDone PROVE TypeOK' /\ Kept
  BY <1>16, <1>0, <1>1, <1>2, FinishKeeps DEF UploadDone
<1>17. CASE UploadRetained
  BY <1>17, <1>14, <1>15 DEF UploadRetained
<1>18. CASE UploadReread
  BY <1>18, <1>14, <1>15, <1>16, FailKeeps DEF UploadReread
<1>19. CASE UploadEnd
  BY <1>19, <1>16 DEF UploadEnd
<1> QED BY <1>5, <1>6, <1>7, <1>8, <1>9, <1>10, <1>11, <1>12, <1>13, <1>17, <1>18, <1>19 DEF WorkerStep

LEMMA TypesStep ==
  ASSUME TypeOK, [Next]_vars
  PROVE  TypeOK'
<1>1. CASE Write
  BY <1>1, Written, WriteKeepsTypes DEF Write
<1>2. CASE LoseBlob
  BY <1>2 DEF LoseBlob, TypeOK
<1>3. CASE Scan
  <2>0. file.content \in Contents /\ Len(file.content) \in Nat /\ file.mtime \in Nat
    BY SMT, FileTypes DEF Contents
  <2>1. NoWork \in WorkType
    BY NoWorkType
  <2>2. w' \in WorkType
    BY <1>3, <2>0, <2>1 DEF Scan, WorkType
  <2>3. runs' \in Nat
    BY SMT, <1>3 DEF Scan, TypeOK
  <2> QED BY <1>3, <2>0, <2>2, <2>3 DEF Scan, TypeOK, Places
<1>4. CASE WorkerStep
  BY <1>4, WorkerKeeps
<1>5. CASE Save
  <2>1. prev' \in EntryType
    BY <1>5, WorkTypes DEF Save, TypeOK
  <2> QED BY <1>5, <2>1, NoWorkType DEF Save, TypeOK, Places
<1>6. CASE UNCHANGED vars
  BY <1>6 DEF vars, TypeOK
<1> QED BY <1>1, <1>2, <1>3, <1>4, <1>5, <1>6, Steps

(* Type correctness.                                                       *)
LEMMA Typed == Spec => []TypeOK
  BY TypesInit, TypesStep, PTL DEF Spec

-----------------------------------------------------------------------------
(* Every blob has the hash it is stored under.  The bytes of a small file  *)
(* are the ones that were hashed; a chunk's were hashed in the first pass, *)
(* or are compared with it.                                                *)
HonestInv ==
    /\ BlobsHonest
    /\ setup.encrypted =>
         pc # "reread" /\ (pc \in {"check", "put"} => w.blob = w.hash)

(* A step that stores nothing and leads to no step of a small file.        *)
LEMMA HonestFrame ==
  ASSUME HonestInv, stored' \subseteq stored, setup' = setup,
         pc' \notin {"reread", "check", "put"}
  PROVE  HonestInv'
  BY DEF HonestInv, BlobsHonest

LEMMA HonestPut ==
  ASSUME HonestInv, NEW k, NEW c, Put(k, c), setup.encrypted => k = c,
         setup' = setup, pc' \notin {"reread", "check", "put"}
  PROVE  HonestInv'
<1>1. <<k, c>>[1] = k /\ <<k, c>>[2] = c
  OBVIOUS
<1> QED BY <1>1 DEF HonestInv, BlobsHonest, Put

LEMMA HonestInit == Init => HonestInv
  BY DEF Init, HonestInv, BlobsHonest

LEMMA HonestStep ==
  ASSUME TypeOK, HonestInv, [Next]_vars
  PROVE  HonestInv'
<1>0. ASSUME Fail PROVE HonestInv'
  BY <1>0, HonestFrame DEF Fail, Work
<1>1. ASSUME NEW h, NEW s, NEW c, Finish(h, s, c), UNCHANGED stored PROVE HonestInv'
  BY <1>1, HonestFrame DEF Finish, Work
<1>2. ASSUME NEW next \in Streaming \cup {"read"}, NEW state, Work(next, state),
             UNCHANGED stored
      PROVE  HonestInv'
  BY <1>2, HonestFrame DEF Work, Streaming
<1>3. ASSUME NEW h, NEW next \in Streaming \cup {"read"}, NEW state,
             TryUnchanged(h, Work(next, state))
      PROVE  HonestInv'
  BY <1>3, <1>0, <1>1, <1>2 DEF TryUnchanged
<1>4. {AfterFastPath, "hash", "same", "probe", "upload"} \subseteq Streaming \cup {"read"}
  BY DEF AfterFastPath, Streaming
<1>5. ASSUME NEW c, Put(c, c), Work("upload", Past) PROVE HonestInv'
  BY <1>5, HonestPut DEF Work
<1>6. CASE Write
  BY <1>6, Written DEF Write, WriteFile, HonestInv, BlobsHonest
<1>7. CASE LoseBlob
  BY <1>7 DEF LoseBlob, HonestInv, BlobsHonest
<1>8. CASE Scan
  BY <1>8, HonestFrame DEF Scan
<1>9. CASE FastPath
  BY <1>9, <1>2, <1>3, <1>4 DEF FastPath
<1>10. CASE OpenFails
  BY <1>10, <1>0 DEF OpenFails
<1>11. CASE ReadSmall
  <2>1. w'.blob = w'.hash
    BY <1>11 DEF ReadSmall, Work, TypeOK, WorkType
  <2> QED BY <1>11, <2>1 DEF ReadSmall, Work, HonestInv, BlobsHonest
<1>12. CASE RereadSmall
  BY <1>12 DEF RereadSmall, Work, HonestInv, BlobsHonest
<1>13. CASE CheckBlob
  <2>1. CASE Work("put", w) /\ UNCHANGED stored
    BY <1>13, <2>1 DEF CheckBlob, Work, HonestInv, BlobsHonest
  <2> QED BY <1>13, <2>1, <1>0, <1>1 DEF CheckBlob
<1>14. CASE PutSmall
  <2>1. CASE Put(w.hash, w.blob) /\ Finish(w.hash, Status(w.hash), <<>>)
    <3>1. setup.encrypted => w.hash = w.blob
      BY <1>14 DEF PutSmall, HonestInv
    <3> QED BY <2>1, <3>1, HonestPut DEF Finish, Work
  <2> QED BY <1>14, <2>1, <1>0 DEF PutSmall, PutFails
<1>15. CASE HashChunk
  BY <1>15, <1>2, <1>4 DEF HashChunk
<1>16. CASE SameHash
  BY <1>16, <1>2, <1>3, <1>4 DEF SameHash
<1>17. CASE ProbeChunks
  BY <1>17, <1>0, <1>1, <1>2, <1>4 DEF ProbeChunks
<1>18. CASE UploadRetained
  BY <1>18, <1>0, <1>2, <1>4, <1>5 DEF UploadRetained, Skip, Store, PutFails
<1>19. CASE UploadReread
  BY <1>19, <1>0, <1>1, <1>2, <1>4, <1>5 DEF UploadReread, Skip, Store, PutFails, UploadDone
<1>20. CASE UploadEnd
  BY <1>20, <1>1 DEF UploadEnd, UploadDone
<1>21. CASE Save
  BY <1>21, HonestFrame DEF Save
<1>22. CASE UNCHANGED vars
  BY <1>22 DEF vars, HonestInv, BlobsHonest
<1> QED BY <1>6, <1>7, <1>8, <1>9, <1>10, <1>11, <1>12, <1>13, <1>14, <1>15, <1>16,
           <1>17, <1>18, <1>19, <1>20, <1>21, <1>22, Steps DEF WorkerStep

(* The content of every blob has the hash the blob is stored under, for a  *)
(* repository with a key: processFile never stores bytes it has not hashed.*)
THEOREM StoreStaysHonest == Spec => []BlobsHonest
<1>1. HonestInv => BlobsHonest
  BY DEF HonestInv
<1> QED BY <1>1, HonestInit, HonestStep, Typed, PTL DEF Spec

-----------------------------------------------------------------------------
(* Nothing stale in an entry.  Every write moves the mtime on when no two  *)
(* of them share a second, so a file that still has the mtime of a scan has*)
(* not been written since, and one that has the mtime of the previous entry*)
(* holds what that entry records.                                          *)
Covers(contents, hash) ==
    \A i \in DOMAIN hash : \E c \in contents : i \in DOMAIN c /\ c[i] = hash[i]

ScanFresh ==
    pc # "idle" =>
        /\ file.content \in seen
        /\ w.mtime <= file.mtime
        /\ ~setup.sameSecond /\ w.mtime = file.mtime => seen = {file.content}

HashFresh == Covers(seen, w.hash)

PrevFresh ==
    IsRestorable(prev) =>
        /\ prev.mtime <= file.mtime
        /\ ~setup.sameSecond /\ prev.mtime = file.mtime => Covers({file.content}, prev.hash)
        /\ pc # "idle" /\ ~setup.sameSecond /\ prev.mtime = w.mtime => Covers(seen, prev.hash)

DoneFresh ==
    pc = "done" /\ IsRestorable(w.entry) =>
        /\ w.entry.mtime = w.mtime
        /\ ~setup.sameSecond => Covers(seen, w.entry.hash)

FreshInv == ScanFresh /\ HashFresh /\ PrevFresh /\ DoneFresh

LEMMA EmptyDomain == DOMAIN <<>> = {}
  BY SMT

LEMMA FreshInit == Init => FreshInv
<1> SUFFICES ASSUME Init PROVE FreshInv
  OBVIOUS
<1>1. ScanFresh /\ DoneFresh
  BY DEF Init, ScanFresh, DoneFresh
<1>2. HashFresh
  BY EmptyDomain DEF Init, HashFresh, Covers, NoWork
<1>3. PrevFresh
  BY DEF Init, PrevFresh, NoEntry, Entry, IsRestorable
<1> QED BY <1>1, <1>2, <1>3 DEF FreshInv

LEMMA WriteFresh ==
  ASSUME TypeOK, FreshInv, Write
  PROVE  FreshInv'
<1>1. PICK c \in Contents : WriteFile(c)
  BY Written DEF Write
<1>2. PICK m \in {file.mtime, file.mtime + 1} :
        (m = file.mtime => setup.sameSecond) /\ file' = [content |-> c, mtime |-> m]
  BY <1>1 DEF WriteFile
<1>3. file'.content = c /\ file'.mtime = m
  BY <1>2
<1>4. UNCHANGED <<setup, prev, pc, w>> /\ seen' = seen \cup {c}
  BY <1>1 DEF WriteFile
<1>5. ASSUME NEW t \in Nat, t <= file.mtime
      PROVE  t <= m /\ (~setup.sameSecond => t # m)
  BY SMT, <1>2, <1>5, FileTypes
<1>6. ScanFresh'
  <2>1. pc # "idle" => w.mtime <= m /\ (~setup.sameSecond => w.mtime # m)
    BY <1>5, WorkTypes DEF FreshInv, ScanFresh
  <2> QED BY <2>1, <1>3, <1>4 DEF ScanFresh
<1>7. HashFresh'
  BY <1>4 DEF FreshInv, HashFresh, Covers
<1>8. PrevFresh'
  <2> SUFFICES ASSUME IsRestorable(prev)
               PROVE  PrevFresh'
    BY <1>4 DEF PrevFresh
  <2>1. prev.mtime <= m /\ (~setup.sameSecond => prev.mtime # m)
    BY <1>5, PrevTypes DEF FreshInv, PrevFresh
  <2>2. pc # "idle" /\ ~setup.sameSecond /\ prev.mtime = w.mtime => Covers(seen, prev.hash)
    BY DEF FreshInv, PrevFresh
  <2>3. Covers(seen, prev.hash) => Covers(seen \cup {c}, prev.hash)
    BY DEF Covers
  <2>4. pc # "idle" /\ ~setup.sameSecond /\ prev.mtime = w.mtime => Covers(seen', prev.hash)
    BY <2>2, <2>3, <1>4
  <2> QED BY <2>1, <2>4, <1>3, <1>4 DEF PrevFresh, Covers
<1>9. DoneFresh'
  BY <1>4 DEF FreshInv, DoneFresh, Covers
<1> QED BY <1>6, <1>7, <1>8, <1>9 DEF FreshInv

LEMMA ScanKeepsFresh ==
  ASSUME TypeOK, FreshInv, Scan
  PROVE  FreshInv'
<1>1. /\ UNCHANGED <<setup, file, prev>> /\ seen' = {file.content} /\ pc' = "fast"
      /\ w' = [NoWork EXCEPT !.size = Len(file.content), !.mtime = file.mtime]
  BY DEF Scan
<1>2. w'.mtime = file.mtime /\ w'.hash = <<>>
  BY <1>1 DEF NoWork
<1>3. file.mtime <= file.mtime
  BY SMT, FileTypes
<1>4. ScanFresh' /\ DoneFresh'
  BY <1>1, <1>2, <1>3 DEF ScanFresh, DoneFresh
<1>5. HashFresh'
  BY <1>1, <1>2, EmptyDomain DEF HashFresh, Covers
<1>6. PrevFresh'
  BY <1>1, <1>2 DEF FreshInv, PrevFresh
<1> QED BY <1>4, <1>5, <1>6 DEF FreshInv

LEMMA SaveKeepsFresh ==
  ASSUME TypeOK, FreshInv, Save
  PROVE  FreshInv'
<1>1. /\ UNCHANGED <<setup, file>> /\ seen' = {} /\ pc' = "idle" /\ w' = NoWork
      /\ prev' = w.entry \/ prev' = prev
  BY DEF Save
<1>2. ScanFresh' /\ DoneFresh'
  BY <1>1 DEF ScanFresh, DoneFresh
<1>3. HashFresh'
  BY <1>1, EmptyDomain DEF HashFresh, Covers, NoWork
<1>4. PrevFresh'
  <2>1. CASE prev' = prev
    BY <2>1, <1>1 DEF FreshInv, PrevFresh
  <2>2. CASE prev' = w.entry
    <3> SUFFICES ASSUME IsRestorable(w.entry) PROVE PrevFresh'
      BY <2>2 DEF PrevFresh
    <3>1. w.entry.mtime = w.mtime /\ (~setup.sameSecond => Covers(seen, w.entry.hash))
      BY DEF Save, FreshInv, DoneFresh
    <3>2. /\ w.mtime <= file.mtime
          /\ ~setup.sameSecond /\ w.mtime = file.mtime => seen = {file.content}
      BY DEF Save, FreshInv, ScanFresh
    <3>3. ~setup.sameSecond /\ w.entry.mtime = file.mtime => Covers({file.content}, w.entry.hash)
      BY <3>1, <3>2
    <3>4. w.entry.mtime <= file.mtime
      BY <3>1, <3>2
    <3> QED BY <3>3, <3>4, <2>2, <1>1 DEF PrevFresh, Covers
  <2> QED BY <2>1, <2>2, <1>1
<1> QED BY <1>2, <1>3, <1>4 DEF FreshInv

(* A step of the worker that hashes nothing keeps all but what the result  *)
(* is.                                                                     *)
LEMMA KeptFresh ==
  ASSUME TypeOK, FreshInv, Kept, pc # "idle"
  PROVE  ScanFresh' /\ PrevFresh' /\ (w'.hash = w.hash => HashFresh')
<1>1. ScanFresh'
  BY DEF FreshInv, ScanFresh, Kept
<1>2. PrevFresh'
  BY DEF FreshInv, PrevFresh, Kept
<1>3. w'.hash = w.hash => HashFresh'
  BY DEF FreshInv, HashFresh, Kept
<1> QED BY <1>1, <1>2, <1>3

(* The result of a file: a restorable entry records what was hashed, or    *)
(* what the previous entry records when the mtimes agree.                  *)
LEMMA FinishFresh ==
  ASSUME TypeOK, FreshInv, Kept, pc # "idle", NEW h, NEW s, NEW c, Finish(h, s, c),
         \/ h = w.hash
         \/ h = prev.hash /\ IsRestorable(prev) /\ prev.mtime = w.mtime
  PROVE  FreshInv'
<1> DEFINE e == Entry(s, h, w.size, w.mtime, c)
<1>1. e.mtime = w.mtime /\ e.hash = h
  BY DEF Entry
<1>2. w' = [w EXCEPT !.entry = e] /\ seen' = seen /\ setup' = setup
  BY DEF Finish, Work
<1> HIDE DEF e
<1>3. w'.entry = e /\ w'.hash = w.hash /\ w'.mtime = w.mtime
  BY <1>2 DEF TypeOK, WorkType
<1>4. ~setup.sameSecond => Covers(seen, h)
  BY DEF FreshInv, HashFresh, PrevFresh
<1>5. DoneFresh'
  BY <1>1, <1>2, <1>3, <1>4 DEF DoneFresh
<1> QED BY <1>5, <1>3, KeptFresh DEF FreshInv

LEMMA FailFresh ==
  ASSUME TypeOK, FreshInv, Kept, pc # "idle", Fail
  PROVE  FreshInv'
<1> DEFINE e == Entry("error", <<>>, w.size, w.mtime, <<>>)
<1>1. ~IsRestorable(e)
  BY DEF Entry, IsRestorable
<1>2. w' = [w EXCEPT !.entry = e]
  BY DEF Fail, Work
<1> HIDE DEF e
<1>3. w'.entry = e /\ w'.hash = w.hash
  BY <1>2 DEF TypeOK, WorkType
<1>4. DoneFresh'
  BY <1>1, <1>3 DEF DoneFresh
<1> QED BY <1>4, <1>3, KeptFresh DEF FreshInv

(* The hash grows by units the file holds at this moment.                  *)
LEMMA ChunkFresh ==
  ASSUME TypeOK, FreshInv, pc # "idle"
  PROVE  Covers(seen, w.hash \o NextChunk)
<1> DEFINE a == w.hash
           b == NextChunk
<1>1. a \in Contents /\ b \in Contents
  BY NextChunkUnits, WorkTypes
<1>2. \A i \in 1 .. Len(b) : Len(a) + i \in DOMAIN file.content /\ b[i] = file.content[Len(a) + i]
  BY NextChunkUnits
<1>3. \A i \in DOMAIN a : \E c \in seen : i \in DOMAIN c /\ c[i] = a[i]
  BY DEF FreshInv, HashFresh, Covers
<1>4. file.content \in seen
  BY DEF FreshInv, ScanFresh
<1> HIDE DEF a, b
<1>5. /\ Len(a) \in Nat /\ Len(b) \in Nat /\ DOMAIN a = 1 .. Len(a)
      /\ DOMAIN (a \o b) = 1 .. Len(a) + Len(b)
      /\ \A i \in 1 .. Len(a) + Len(b) :
            (a \o b)[i] = IF i <= Len(a) THEN a[i] ELSE b[i - Len(a)]
  BY SMT, <1>1 DEF Contents
<1>6. ASSUME NEW i \in DOMAIN (a \o b)
      PROVE  \E c \in seen : i \in DOMAIN c /\ c[i] = (a \o b)[i]
  <2>1. CASE i <= Len(a)
    <3>1. i \in DOMAIN a /\ (a \o b)[i] = a[i]
      BY SMT, <1>5, <1>6, <2>1
    <3> QED BY <3>1, <1>3
  <2>2. CASE ~(i <= Len(a))
    <3>1. /\ i - Len(a) \in 1 .. Len(b) /\ Len(a) + (i - Len(a)) = i
      BY SMT, <1>5, <1>6, <2>2
    <3>2. (a \o b)[i] = b[i - Len(a)]
      BY <1>5, <1>6, <2>2
    <3>3. i \in DOMAIN file.content /\ b[i - Len(a)] = file.content[i]
      BY <3>1, <1>2
    <3> QED BY <3>2, <3>3, <1>4
  <2> QED BY <2>1, <2>2
<1> QED BY <1>6 DEF Covers, a, b

LEMMA WorkerFresh ==
  ASSUME TypeOK, FreshInv, WorkerStep
  PROVE  FreshInv'
<1>0. Kept
  BY WorkerKeeps
<1>1. pc # "idle"
  BY DEF WorkerStep, FastPath, OpenFails, ReadSmall, RereadSmall, CheckBlob, PutSmall,
         HashChunk, SameHash, ProbeChunks, UploadRetained, UploadReread, UploadEnd
<1>2. ASSUME Fail PROVE FreshInv'
  BY <1>0, <1>1, <1>2, FailFresh
<1>3. ASSUME NEW s, NEW c, Finish(w.hash, s, c) PROVE FreshInv'
  BY <1>0, <1>1, <1>3, FinishFresh
<1>4. ASSUME NEW next, next # "done", NEW state, Work(next, state), state.hash = w.hash
      PROVE  FreshInv'
  <2>1. DoneFresh'
    BY <1>4 DEF Work, DoneFresh
  <2> QED BY <1>0, <1>1, <1>4, <2>1, KeptFresh DEF Work, FreshInv
<1>5. AfterFastPath # "done"
  BY DEF AfterFastPath
<1>6. /\ StartStream(w).hash = w.hash
      /\ StartStream([w EXCEPT !.missing = TRUE]).hash = w.hash
      /\ Past.hash = w.hash
      /\ [w EXCEPT !.blob = file.content].hash = w.hash
      /\ \A x : [w EXCEPT !.present = x].hash = w.hash
  BY DEF StartStream, Past, TypeOK, WorkType
<1>7. CASE FastPath
  <2>1. CASE SameStat /\ Finish(prev.hash, "unchanged", prev.chunks)
    BY <2>1, <1>0, <1>1, FinishFresh DEF SameStat
  <2> QED BY <1>7, <2>1, <1>2, <1>4, <1>5, <1>6 DEF FastPath, TryUnchanged
<1>8. CASE OpenFails
  BY <1>8, <1>2 DEF OpenFails
<1>9. CASE ReadSmall
  <2>1. w'.hash = file.content /\ seen' = seen
    BY <1>9 DEF ReadSmall, Work, TypeOK, WorkType
  <2>2. file.content \in seen
    BY <1>1 DEF FreshInv, ScanFresh
  <2>3. HashFresh'
    BY <2>1, <2>2 DEF HashFresh, Covers
  <2>4. DoneFresh'
    BY <1>9 DEF ReadSmall, Work, DoneFresh
  <2> QED BY <1>0, <1>1, <2>3, <2>4, KeptFresh DEF FreshInv
<1>10. CASE RereadSmall
  BY <1>10, <1>4, <1>6 DEF RereadSmall
<1>11. CASE CheckBlob
  BY <1>11, <1>2, <1>3, <1>4 DEF CheckBlob
<1>12. CASE PutSmall
  BY <1>12, <1>2, <1>3 DEF PutSmall, PutFails
<1>13. CASE HashChunk
  <2>1. CASE Work("hash", Hashed(NextChunk))
    <3>1. w' = Hashed(NextChunk) /\ seen' = seen /\ pc' = "hash"
      BY <2>1 DEF Work
    <3>2. w'.hash = w.hash \o NextChunk
      BY <3>1 DEF Hashed, TypeOK, WorkType
    <3>3. HashFresh'
      BY <3>1, <3>2, <1>1, ChunkFresh DEF HashFresh
    <3>4. DoneFresh'
      BY <3>1 DEF DoneFresh
    <3> QED BY <1>0, <1>1, <3>3, <3>4, KeptFresh DEF FreshInv
  <2> QED BY <1>13, <2>1, <1>4 DEF HashChunk
<1>14. CASE SameHash
  BY <1>14, <1>2, <1>3, <1>4 DEF SameHash, TryUnchanged
<1>15. CASE ProbeChunks
  BY <1>15, <1>2, <1>3, <1>4, <1>6 DEF ProbeChunks
<1>16. CASE UploadRetained
  BY <1>16, <1>2, <1>4, <1>6 DEF UploadRetained, Skip, Store, PutFails
<1>17. CASE UploadReread
  BY <1>17, <1>2, <1>3, <1>4, <1>6 DEF UploadReread, Skip, Store, PutFails, UploadDone
<1>18. CASE UploadEnd
  BY <1>18, <1>3 DEF UploadEnd, UploadDone
<1> QED BY <1>7, <1>8, <1>9, <1>10, <1>11, <1>12, <1>13, <1>14, <1>15, <1>16, <1>17,
           <1>18 DEF WorkerStep

LEMMA FreshStep ==
  ASSUME TypeOK, FreshInv, [Next]_vars
  PROVE  FreshInv'
<1>1. CASE LoseBlob
  BY <1>1 DEF LoseBlob, FreshInv, ScanFresh, HashFresh, PrevFresh, DoneFresh
<1>2. CASE UNCHANGED vars
  <2>1. UNCHANGED <<setup, file, prev, pc, w, seen>>
    BY <1>2 DEF vars
  <2> QED BY <2>1 DEF FreshInv, ScanFresh, HashFresh, PrevFresh, DoneFresh
<1> QED BY <1>1, <1>2, WriteFresh, ScanKeepsFresh, WorkerFresh, SaveKeepsFresh, Steps

(* An entry records nothing stale: what is backed up, or skipped because   *)
(* size and mtime match the previous entry, was in the file since the scan *)
(* of this run, when no two writes share the second of the mtime.          *)
THEOREM EntriesAreFresh == Spec => []EntryFresh
<1>1. FreshInv => EntryFresh
  BY DEF FreshInv, DoneFresh, EntryFresh, Covers
<1> QED BY <1>1, FreshInit, FreshStep, Typed, PTL DEF Spec

-----------------------------------------------------------------------------
(* Chunk sizes that add up.                                                *)
LEMMA OffsetsType ==
  ASSUME NEW chunks \in Seq(Contents), NEW total \in Nat, NEW f \in Offsets(chunks, total)
  PROVE  /\ Len(chunks) \in Nat
         /\ \A i \in 0 .. Len(chunks) : f[i] \in Nat /\ f[i] <= total
         /\ f[0] = 0 /\ f[Len(chunks)] = total
         /\ \A i \in 1 .. Len(chunks) :
               /\ i - 1 \in 0 .. Len(chunks) /\ i \in 0 .. Len(chunks)
               /\ chunks[i] \in Contents /\ Len(chunks[i]) \in Nat
               /\ f[i] = f[i - 1] + Len(chunks[i])
<1>1. Len(chunks) \in Nat /\ \A i \in 1 .. Len(chunks) : chunks[i] \in Contents
  BY SMT
<1>2. \A x \in Contents : Len(x) \in Nat
  BY SMT DEF Contents
<1>3. \A i \in 1 .. Len(chunks) : i - 1 \in 0 .. Len(chunks) /\ i \in 0 .. Len(chunks)
  BY SMT, <1>1
<1>4. /\ f \in [0 .. Len(chunks) -> 0 .. total]
      /\ f[0] = 0 /\ f[Len(chunks)] = total
      /\ \A i \in 1 .. Len(chunks) : f[i] = f[i - 1] + Len(chunks[i])
  BY DEF Offsets
<1>5. \A i \in 0 .. Len(chunks) : f[i] \in 0 .. total
  BY <1>4
<1>6. \A i \in 0 .. Len(chunks) : f[i] \in Nat /\ f[i] <= total
  BY SMT, <1>5
<1> QED BY <1>1, <1>2, <1>3, <1>4, <1>6

(* A list of chunks adds up to one total.                                  *)
LEMMA OneTotal ==
  ASSUME NEW chunks \in Seq(Contents), NEW m \in Nat, NEW n \in Nat,
         Offsets(chunks, m) # {}, Offsets(chunks, n) # {}
  PROVE  m = n
<1>1. PICK f : f \in Offsets(chunks, m)
  OBVIOUS
<1>2. PICK g : g \in Offsets(chunks, n)
  OBVIOUS
<1> DEFINE T == {i \in 0 .. Len(chunks) : f[i] # g[i]}
<1>3. Len(chunks) \in Nat /\ f[0] = g[0] /\ f[Len(chunks)] = m /\ g[Len(chunks)] = n
  <2>1. Len(chunks) \in Nat /\ f[0] = 0 /\ f[Len(chunks)] = m
    BY SMT, <1>1, OffsetsType
  <2>2. g[0] = 0 /\ g[Len(chunks)] = n
    BY SMT, <1>2, OffsetsType
  <2> QED BY <2>1, <2>2
<1>4. T \in SUBSET Nat
  BY SMT, <1>3
<1>5. ASSUME NEW k \in T, \A j \in T : k <= j PROVE FALSE
  <2>1. k \in 1 .. Len(chunks)
    BY SMT, <1>3, <1>5
  <2>2. /\ k - 1 \in 0 .. Len(chunks)
        /\ f[k] = f[k - 1] + Len(chunks[k]) /\ g[k] = g[k - 1] + Len(chunks[k])
    <3>1. k - 1 \in 0 .. Len(chunks) /\ f[k] = f[k - 1] + Len(chunks[k])
      BY SMT, <1>1, <2>1, OffsetsType
    <3>2. g[k] = g[k - 1] + Len(chunks[k])
      BY SMT, <1>2, <2>1, OffsetsType
    <3> QED BY <3>1, <3>2
  <2>3. ~(k <= k - 1)
    BY SMT, <2>1, <1>3
  <2>4. f[k - 1] = g[k - 1]
    BY <1>5, <2>2, <2>3
  <2> QED BY <1>5, <2>2, <2>4
<1>6. T = {}
  BY <1>4, <1>5, LeastNat
<1>7. Len(chunks) \in 0 .. Len(chunks)
  BY SMT, <1>3
<1> QED BY <1>3, <1>6, <1>7

(* One chunk more.                                                         *)
LEMMA OneMore ==
  ASSUME NEW chunks \in Seq(Contents), NEW total \in Nat, NEW x \in Contents,
         NEW f \in Offsets(chunks, total)
  PROVE  \E g \in Offsets(Append(chunks, x), total + Len(x)) : g[0] = f[0]
<1> DEFINE L == Len(chunks)
           t == total + Len(x)
           more == Append(chunks, x)
           g == [i \in 0 .. L + 1 |-> IF i <= L THEN f[i] ELSE t]
<1>1. L \in Nat /\ Len(x) \in Nat /\ t \in Nat /\ total <= t
  <2>1. L \in Nat
    BY SMT
  <2>2. Len(x) \in Nat
    BY SMT DEF Contents
  <2> QED BY SMT, <2>1, <2>2
<1>2. /\ Len(more) = L + 1 /\ more[L + 1] = x
      /\ \A i \in 1 .. L : more[i] = chunks[i]
  BY SMT
<1>3. /\ \A i \in 0 .. L : f[i] \in Nat /\ f[i] <= total
      /\ f[L] = total /\ f[0] = 0
      /\ \A i \in 1 .. L : f[i] = f[i - 1] + Len(chunks[i])
  <2>1. \A i \in 0 .. L : f[i] \in Nat /\ f[i] <= total
    BY OffsetsType
  <2>2. f[L] = total /\ f[0] = 0
    BY SMT, OffsetsType
  <2>3. \A i \in 1 .. L : f[i] = f[i - 1] + Len(chunks[i])
    BY SMT, OffsetsType
  <2> QED BY <2>1, <2>2, <2>3
<1> HIDE DEF L, t, more
<1>4. g \in [0 .. Len(more) -> 0 .. t]
  BY SMT, <1>1, <1>2, <1>3
<1>5. g[0] = f[0] /\ g[0] = 0 /\ g[Len(more)] = t
  BY SMT, <1>1, <1>2, <1>3
<1>6. ASSUME NEW i \in 1 .. Len(more) PROVE g[i] = g[i - 1] + Len(more[i])
  <2>1. CASE i = L + 1
    <3>1. g[i] = t /\ g[i - 1] = total /\ more[i] = x
      BY SMT, <2>1, <1>1, <1>2, <1>3
    <3> QED BY <3>1 DEF t
  <2>2. CASE i # L + 1
    <3>1. i \in 1 .. L /\ i \in 0 .. L + 1 /\ i <= L /\ i - 1 \in 0 .. L + 1 /\ i - 1 <= L
      BY SMT, <2>2, <1>1, <1>2
    <3>2. g[i] = f[i] /\ g[i - 1] = f[i - 1] /\ more[i] = chunks[i]
      BY <3>1, <1>2
    <3> QED BY <3>1, <3>2, <1>3
  <2> QED BY <2>1, <2>2
<1> HIDE DEF g
<1>7. g \in Offsets(more, t)
  BY <1>4, <1>5, <1>6 DEF Offsets
<1> QED BY <1>5, <1>7 DEF more, t

(* No chunks add up to nothing.                                            *)
LEMMA NoChunks ==
  /\ \E f \in Offsets(<<>>, 0) : f[0] = 0
  /\ \A total \in Nat : Offsets(<<>>, total) # {} => total = 0
<1>1. Len(<<>>) = 0 /\ <<>> \in Seq(Contents)
  BY SMT
<1> DEFINE f == [i \in 0 .. 0 |-> 0]
<1>2. f \in [0 .. 0 -> 0 .. 0] /\ f[0] = 0
  BY SMT
<1>3. 1 .. 0 = {}
  BY SMT
<1> HIDE DEF f
<1>4. f \in Offsets(<<>>, 0)
  BY <1>1, <1>2, <1>3 DEF Offsets
<1>5. ASSUME NEW total \in Nat, Offsets(<<>>, total) # {} PROVE total = 0
  BY <1>5, <1>4, <1>1, OneTotal
<1> QED BY <1>2, <1>4, <1>5

-----------------------------------------------------------------------------
(* What an entry refers to, and what its chunks add up to.  A file nothing *)
(* cuts short stays at least as long as it was scanned; the hash pass ends *)
(* at the scanned size or, when it cuts by content, at the end of the file.*)
Whole == "truncate" \notin setup.writes

ScanSize ==
    pc # "idle" /\ Whole =>
        /\ w.size <= Len(file.content)
        /\ "append" \notin setup.writes => w.size = Len(file.content)

SizeInv ==
    /\ pc \in Streaming => ChunkUnits <= w.size
    /\ pc \in Small => w.size < ChunkUnits

(* A file that had chunks is never small again.                            *)
PrevInv ==
    IsRestorable(prev) =>
        /\ prev.chunks # <<>> => /\ Offsets(prev.chunks, Len(prev.hash)) # {}
                                 /\ Offsets(prev.chunks, prev.size) # {}
        /\ Whole => /\ prev.size <= Len(file.content)
                    /\ pc # "idle" => prev.size <= w.size
                    /\ prev.chunks # <<>> => ChunkUnits <= prev.size

(* The chunks read add up to what was hashed, and the second read is where *)
(* the next chunk begins.                                                  *)
ChunkList ==
    /\ w.next \in 1 .. Len(w.read) + 1
    /\ \E f \in Offsets(w.read, Len(w.hash)) : w.pos = f[w.next - 1]
    /\ \A i \in 1 .. Len(w.read) : w.read[i] # <<>>

ChunkInv ==
    /\ pc \in {"fast", "hash", "same", "probe"} => w.next = 1
    /\ pc = "fast" => w.hash = <<>>
    /\ pc \in Streaming \cup {"fast"} => ChunkList

(* What was hashed against the scanned size and the file.                  *)
LengthInv ==
    pc \in Streaming =>
        /\ Whole => Len(w.hash) <= Len(file.content)
        /\ ~setup.cdc => Len(w.hash) <= w.size
        /\ pc # "hash" /\ Whole => w.size <= Len(w.hash)

UploadInv ==
    pc = "upload" =>
        /\ w.present \subseteq Keys
        /\ \A i \in 1 .. w.next - 1 : w.read[i] \in Keys

DoneInv ==
    pc = "done" /\ IsRestorable(w.entry) =>
        /\ w.entry.size = w.size
        /\ w.entry.chunks # <<>> => /\ Offsets(w.entry.chunks, Len(w.entry.hash)) # {}
                                    /\ Whole => ChunkUnits <= w.size

EntryInv == /\ ScanSize /\ SizeInv /\ PrevInv /\ ChunkInv /\ LengthInv /\ UploadInv /\ DoneInv
            /\ NoDangling /\ EntryAccepted

LEMMA EntryInit == Init => EntryInv
<1> SUFFICES ASSUME Init PROVE EntryInv
  OBVIOUS
<1>1. pc = "idle" /\ ~IsRestorable(prev)
  BY DEF Init, NoEntry, Entry, IsRestorable
<1> QED BY <1>1 DEF EntryInv, ScanSize, SizeInv, PrevInv, ChunkInv, LengthInv, UploadInv, DoneInv,
                    NoDangling, EntryAccepted, Streaming, Small

(* A write leaves the worker and the store alone, and the file long enough.*)
LEMMA WriteEntry ==
  ASSUME TypeOK, EntryInv, Write
  PROVE  EntryInv'
<1>1. PICK c \in Contents :
        /\ WriteFile(c)
        /\ Whole => Len(file.content) <= Len(c)
        /\ Whole /\ "append" \notin setup.writes => Len(file.content) = Len(c)
  BY Written DEF Write, Whole
<1>2. file'.content = c
  <2>1. PICK m : file' = [content |-> c, mtime |-> m]
    BY <1>1 DEF WriteFile
  <2> QED BY <2>1
<1>3. UNCHANGED <<setup, stored, prev, pc, w>>
  BY <1>1 DEF WriteFile
<1>4. Len(c) \in Nat /\ Len(file.content) \in Nat /\ Len(w.hash) \in Nat
  BY SMT, FileTypes, WorkTypes DEF Contents
<1>5. ASSUME NEW n \in Nat, n <= Len(file.content), Whole PROVE n <= Len(c)
  BY SMT, <1>1, <1>4, <1>5
<1>6. ScanSize' /\ SizeInv'
  BY <1>1, <1>2, <1>3, <1>5, WorkTypes DEF EntryInv, ScanSize, SizeInv, Whole
<1>7. PrevInv'
  BY <1>2, <1>3, <1>5, PrevTypes DEF EntryInv, PrevInv, Whole
<1>8. ChunkInv'
  BY <1>3 DEF EntryInv, ChunkInv, ChunkList
<1>9. LengthInv'
  BY <1>2, <1>3, <1>4, <1>5 DEF EntryInv, LengthInv, Whole
<1>10. UploadInv' /\ NoDangling'
  BY <1>3 DEF EntryInv, UploadInv, NoDangling, Keys
<1>11. DoneInv' /\ EntryAccepted'
  BY <1>3 DEF EntryInv, DoneInv, EntryAccepted, Whole
<1> QED BY <1>6, <1>7, <1>8, <1>9, <1>10, <1>11 DEF EntryInv

LEMMA ScanEntry ==
  ASSUME TypeOK, EntryInv, Scan
  PROVE  EntryInv'
<1>1. /\ UNCHANGED <<setup, file, stored, prev>> /\ pc' = "fast"
      /\ w' = [NoWork EXCEPT !.size = Len(file.content), !.mtime = file.mtime]
  BY DEF Scan
<1>2. /\ w'.size = Len(file.content) /\ w'.next = 1 /\ w'.pos = 0 /\ w'.hash = <<>>
      /\ w'.read = <<>>
  BY <1>1 DEF NoWork
<1>3. Len(file.content) <= Len(file.content)
  BY SMT, FileTypes DEF Contents
<1>4. ScanSize' /\ SizeInv'
  BY <1>1, <1>2, <1>3 DEF ScanSize, SizeInv, Streaming, Small
<1>5. PrevInv'
  BY <1>1, <1>2 DEF EntryInv, PrevInv, Whole
<1>6. ChunkInv'
  <2>1. Len(<<>>) = 0 /\ 1 .. 0 = {} /\ 1 \in 1 .. 0 + 1 /\ 1 - 1 = 0
    BY SMT
  <2>2. PICK f \in Offsets(<<>>, 0) : f[0] = 0
    BY NoChunks
  <2>3. ChunkList'
    BY <1>2, <2>1, <2>2 DEF ChunkList
  <2> QED BY <1>1, <1>2, <2>3 DEF ChunkInv
<1> QED BY <1>1, <1>4, <1>5, <1>6 DEF EntryInv, LengthInv, UploadInv, DoneInv, NoDangling,
                                      EntryAccepted, Streaming

LEMMA SaveEntry ==
  ASSUME TypeOK, EntryInv, Save
  PROVE  EntryInv'
<1>1. /\ UNCHANGED <<setup, file>> /\ pc' = "idle"
      /\ (prev' = w.entry /\ Valid(w.entry)) \/ prev' = prev
  BY DEF Save
<1>2. PrevInv'
  <2>1. CASE prev' = prev
    BY <2>1, <1>1 DEF EntryInv, PrevInv, Whole
  <2>2. CASE prev' = w.entry /\ Valid(w.entry)
    <3> DEFINE e == w.entry
    <3> SUFFICES ASSUME IsRestorable(e) PROVE PrevInv'
      BY <2>2 DEF PrevInv, IsRestorable
    <3>1. /\ e.size = w.size
          /\ e.chunks # <<>> => /\ Offsets(e.chunks, Len(e.hash)) # {}
                                /\ Whole => ChunkUnits <= e.size
      BY DEF Save, EntryInv, DoneInv
    <3>2. Whole => e.size <= Len(file.content)
      BY <3>1 DEF Save, EntryInv, ScanSize
    <3>3. e.chunks # <<>> => Offsets(e.chunks, e.size) # {}
      BY <2>2 DEF Valid
    <3>4. prev' = e
      BY <2>2
    <3> HIDE DEF e
    <3> QED BY <3>1, <3>2, <3>3, <3>4, <1>1 DEF PrevInv, Whole
  <2> QED BY <2>1, <2>2, <1>1
<1> QED BY <1>1, <1>2 DEF EntryInv, ScanSize, SizeInv, ChunkInv, LengthInv, UploadInv, DoneInv,
                          NoDangling, EntryAccepted, Streaming, Small

LEMMA LossEntry ==
  ASSUME EntryInv, LoseBlob
  PROVE  EntryInv'
<1>1. pc = "idle" /\ UNCHANGED <<setup, file, prev, pc>>
  BY DEF LoseBlob
<1> QED BY <1>1 DEF EntryInv, ScanSize, SizeInv, PrevInv, ChunkInv, LengthInv, UploadInv, DoneInv,
                    NoDangling, EntryAccepted, Streaming, Small, Whole

(* Blobs stay, and a stored one is there.                                  *)
LEMMA KeysGrow ==
  ASSUME stored \subseteq stored'
  PROVE  Keys \subseteq Keys'
  BY DEF Keys

LEMMA PutKey ==
  ASSUME NEW k, NEW c, Put(k, c)
  PROVE  k \in Keys'
<1>1. <<k, c>>[1] = k
  OBVIOUS
<1>2. CASE k \in Keys
  BY <1>2 DEF Put, Keys
<1>3. CASE k \notin Keys
  <2>1. <<k, c>> \in stored'
    BY <1>3 DEF Put
  <2> QED BY <1>1, <2>1 DEF Keys
<1> QED BY <1>2, <1>3

(* Every step of the worker: what it knows of file and previous entry.     *)
LEMMA KeptEntry ==
  ASSUME EntryInv, Kept, pc # "idle"
  PROVE  /\ ScanSize' /\ PrevInv'
         /\ pc' \in Streaming /\ pc \in Streaming => SizeInv'
         /\ pc' \in Small /\ pc \in Small => SizeInv'
         /\ pc' = "done" => SizeInv' /\ ChunkInv' /\ LengthInv' /\ UploadInv'
<1>1. ScanSize' /\ PrevInv'
  BY DEF EntryInv, ScanSize, PrevInv, Kept, Whole
<1>2. Streaming \cap Small = {} /\ "done" \notin Streaming \cup Small
  BY DEF Streaming, Small
<1>3. /\ pc' \in Streaming /\ pc \in Streaming => SizeInv'
      /\ pc' \in Small /\ pc \in Small => SizeInv'
  BY <1>2 DEF EntryInv, SizeInv, Kept
<1>4. pc' = "done" => SizeInv' /\ ChunkInv' /\ LengthInv' /\ UploadInv'
  BY <1>2 DEF SizeInv, ChunkInv, LengthInv, UploadInv
<1> QED BY <1>1, <1>3, <1>4

(* The result of a file.                                                   *)
LEMMA FinishEntry ==
  ASSUME TypeOK, EntryInv, Kept, pc # "idle", NEW h, NEW s, NEW c, Finish(h, s, c),
         c # <<>> => /\ Offsets(c, Len(h)) # {}
                     /\ Whole => ChunkUnits <= w.size,
         Whole => IF c = <<>> THEN h \in Keys' ELSE Range(c) \subseteq Keys',
         Whole /\ (setup.cdc => "append" \notin setup.writes) /\ c # <<>> =>
            Offsets(c, w.size) # {}
  PROVE  EntryInv'
<1> DEFINE e == Entry(s, h, w.size, w.mtime, c)
<1>1. e.size = w.size /\ e.hash = h /\ e.chunks = c
  BY DEF Entry
<1>2. w' = [w EXCEPT !.entry = e] /\ setup' = setup /\ pc' = "done"
  BY DEF Finish, Work
<1> HIDE DEF e
<1>3. w'.entry = e /\ w'.size = w.size
  BY <1>2 DEF TypeOK, WorkType
<1>4. DoneInv'
  BY <1>1, <1>2, <1>3 DEF DoneInv, Whole
<1>5. NoDangling'
  BY <1>1, <1>2, <1>3 DEF NoDangling, Refs, Whole
<1>6. EntryAccepted'
  <2>1. Whole /\ (setup.cdc => "append" \notin setup.writes) => Valid(e)
    BY <1>1 DEF Valid
  <2> QED BY <2>1, <1>2, <1>3 DEF EntryAccepted, Whole
<1> QED BY <1>2, <1>4, <1>5, <1>6, KeptEntry DEF EntryInv

LEMMA FailEntry ==
  ASSUME TypeOK, EntryInv, Kept, pc # "idle", Fail
  PROVE  EntryInv'
<1> DEFINE e == Entry("error", <<>>, w.size, w.mtime, <<>>)
<1>1. ~IsRestorable(e)
  BY DEF Entry, IsRestorable
<1>2. w' = [w EXCEPT !.entry = e] /\ pc' = "done"
  BY DEF Fail, Work
<1> HIDE DEF e
<1>3. w'.entry = e
  BY <1>2 DEF TypeOK, WorkType
<1>4. DoneInv' /\ NoDangling'
  BY <1>1, <1>3 DEF DoneInv, NoDangling
<1>5. EntryAccepted'
  BY <1>1, <1>3 DEF EntryAccepted, Valid
<1> QED BY <1>2, <1>4, <1>5, KeptEntry DEF EntryInv

(* A step from one step of a small file to the next.                       *)
LEMMA SmallEntry ==
  ASSUME EntryInv, Kept, pc \in Small, pc' \in Small
  PROVE  EntryInv'
<1>1. pc # "idle" /\ pc' \notin Streaming \cup {"fast", "done", "upload", "hash", "same", "probe"}
  BY DEF Small, Streaming
<1> QED BY <1>1, KeptEntry DEF EntryInv, ChunkInv, LengthInv, UploadInv, DoneInv,
                               NoDangling, EntryAccepted

(* A file nothing cuts short has been hashed up to the scanned size.       *)
LEMMA HashedWhole ==
  ASSUME TypeOK, EntryInv, pc \in {"same", "probe", "upload"}
  PROVE  /\ Offsets(w.read, Len(w.hash)) # {} /\ ChunkUnits <= w.size
         /\ Whole => w.read # <<>>
         /\ Whole /\ (setup.cdc => "append" \notin setup.writes) => Len(w.hash) = w.size
<1>0. pc \in Streaming /\ pc # "hash" /\ pc # "idle"
  BY DEF Streaming
<1>1. ChunkUnits \in Nat /\ ChunkUnits > 0 /\ w.size \in Nat /\ Len(w.hash) \in Nat
      /\ Len(file.content) \in Nat
  BY SMT, FileAssumption, WorkTypes, FileTypes DEF Contents
<1>2. Offsets(w.read, Len(w.hash)) # {}
  BY <1>0 DEF EntryInv, ChunkInv, ChunkList
<1>3. ChunkUnits <= w.size
  BY <1>0 DEF EntryInv, SizeInv
<1>4. Whole => w.size <= Len(w.hash) /\ Len(w.hash) <= Len(file.content)
  BY <1>0 DEF EntryInv, LengthInv
<1>5. ~setup.cdc => Len(w.hash) <= w.size
  BY <1>0 DEF EntryInv, LengthInv
<1>6. Whole => w.read # <<>>
  <2> SUFFICES ASSUME Whole, w.read = <<>> PROVE FALSE
    OBVIOUS
  <2>1. Len(w.hash) = 0
    BY <1>1, <1>2, NoChunks
  <2> QED BY SMT, <2>1, <1>1, <1>3, <1>4
<1>7. Whole /\ "append" \notin setup.writes => w.size = Len(file.content)
  BY <1>0 DEF EntryInv, ScanSize
<1>8. Whole /\ (setup.cdc => "append" \notin setup.writes) => Len(w.hash) <= w.size
  BY <1>4, <1>5, <1>7
<1>9. Whole /\ (setup.cdc => "append" \notin setup.writes) => Len(w.hash) = w.size
  BY SMT, <1>1, <1>4, <1>8
<1> QED BY <1>2, <1>3, <1>6, <1>9

(* The hash pass reads one chunk more, or is over.                         *)
LEMMA HashEntry ==
  ASSUME TypeOK, EntryInv, Kept, HashChunk
  PROVE  EntryInv'
<1>0. pc = "hash" /\ pc \in Streaming /\ pc # "idle" /\ stored' = stored
  BY DEF HashChunk, Streaming
<1>1. Len(w.hash) \in Nat /\ Len(file.content) \in Nat /\ w.size \in Nat
  BY SMT, WorkTypes, FileTypes DEF Contents
<1>2. CASE NextChunk = <<>> /\ Work("same", w)
  <2>1. pc' = "same" /\ pc' \in Streaming /\ w' = w /\ UNCHANGED <<setup, file>>
    BY <1>2 DEF Work, Streaming
  <2>2. ChunkInv'
    BY <1>0, <2>1 DEF EntryInv, ChunkInv, ChunkList
  <2>3. Whole => w.size <= Len(w.hash)
    BY <1>0, <1>2, NextChunkUnits DEF EntryInv, ScanSize
  <2>4. LengthInv'
    BY <1>0, <2>1, <2>3 DEF EntryInv, LengthInv, Whole
  <2> QED BY <1>0, <2>1, <2>2, <2>4, KeptEntry DEF EntryInv, UploadInv, DoneInv, NoDangling,
                                                   EntryAccepted
<1>3. CASE NextChunk # <<>> /\ Work("hash", Hashed(NextChunk))
  <2> DEFINE x == NextChunk
             more == Append(w.read, x)
             h == w.hash \o x
  <2>1. pc' = "hash" /\ pc' \in Streaming /\ w' = Hashed(x) /\ UNCHANGED <<setup, file>>
    BY <1>3 DEF Work, Streaming
  <2>2. /\ w'.read = more /\ w'.hash = h /\ w'.next = w.next /\ w'.pos = w.pos
        /\ w'.size = w.size
    BY <2>1 DEF Hashed, TypeOK, WorkType
  <2>3. /\ x \in Contents /\ x # <<>>
        /\ \A i \in 1 .. Len(x) : Len(w.hash) + i \in DOMAIN file.content
        /\ ~setup.cdc /\ Len(w.hash) <= w.size => Len(w.hash) + Len(x) <= w.size
    BY <1>3, NextChunkUnits
  <2>4. w.read \in Seq(Contents) /\ w.hash \in Contents /\ file.content \in Contents
    BY WorkTypes, FileTypes
  <2> HIDE DEF x
  <2>5. /\ Len(w.read) \in Nat /\ Len(more) = Len(w.read) + 1
        /\ more[Len(w.read) + 1] = x
        /\ \A i \in 1 .. Len(w.read) : more[i] = w.read[i]
    BY SMT, <2>3, <2>4
  <2>6. Len(x) \in Nat /\ Len(x) > 0 /\ Len(h) = Len(w.hash) + Len(x)
    BY SMT, <2>3, <2>4 DEF Contents
  <2>7. DOMAIN file.content = 1 .. Len(file.content)
    BY SMT, <2>4 DEF Contents
  <2> HIDE DEF more, h
  <2>8. Len(h) <= Len(file.content)
    <3>1. Len(w.hash) + Len(x) \in 1 .. Len(file.content)
      BY SMT, <2>3, <2>6, <2>7
    <3> QED BY SMT, <3>1, <2>6, <1>1
  <2>9. ChunkList'
    <3>1. /\ w.next = 1 /\ \A i \in 1 .. Len(w.read) : w.read[i] # <<>>
      BY <1>0 DEF EntryInv, ChunkInv, ChunkList
    <3>2. PICK f \in Offsets(w.read, Len(w.hash)) : w.pos = f[w.next - 1]
      BY <1>0 DEF EntryInv, ChunkInv, ChunkList
    <3>3. PICK g \in Offsets(more, Len(h)) : g[0] = f[0]
      <4>1. \E g \in Offsets(Append(w.read, x), Len(w.hash) + Len(x)) : g[0] = f[0]
        BY SMT, <1>1, <2>3, <2>4, <3>2, OneMore
      <4> QED BY <4>1, <2>6 DEF more
    <3>4. w.next - 1 = 0
      BY SMT, <3>1
    <3>5. w.next \in 1 .. Len(more) + 1
      BY SMT, <3>1, <2>5
    <3>6. ASSUME NEW i \in 1 .. Len(more) PROVE more[i] # <<>>
      <4>1. i = Len(w.read) + 1 \/ i \in 1 .. Len(w.read)
        BY SMT, <3>6, <2>5
      <4> QED BY <4>1, <2>3, <2>5, <3>1
    <3> QED BY <2>2, <3>2, <3>3, <3>4, <3>5, <3>6 DEF ChunkList
  <2>10. ChunkInv'
    BY <1>0, <2>1, <2>2, <2>9 DEF EntryInv, ChunkInv
  <2>11. ~setup.cdc => Len(h) <= w.size
    BY <1>0, <2>3, <2>6 DEF EntryInv, LengthInv
  <2>12. LengthInv'
    BY <2>1, <2>2, <2>8, <2>11 DEF LengthInv
  <2> QED BY <1>0, <2>1, <2>10, <2>12, KeptEntry DEF EntryInv, UploadInv, DoneInv, NoDangling,
                                                     EntryAccepted
<1> QED BY <1>2, <1>3 DEF HashChunk

(* From the comparison of the hashes to the upload.                        *)
LEMMA ToUpload ==
  ASSUME TypeOK, EntryInv, Kept, pc \in {"same", "probe"}, pc' \in {"probe", "upload"},
         w'.read = w.read, w'.hash = w.hash, w'.next = w.next, w'.pos = w.pos,
         pc' = "upload" => w'.present \subseteq Keys'
  PROVE  EntryInv'
<1>0. pc # "idle" /\ pc # "hash" /\ pc \in Streaming /\ pc' \in Streaming /\ pc' # "done"
  BY DEF Streaming
<1>1. w.next = 1 /\ ChunkList
  BY <1>0 DEF EntryInv, ChunkInv
<1>2. ChunkInv'
  <2>1. ChunkList'
    BY <1>1 DEF ChunkList
  <2> QED BY <1>1, <2>1, <1>0 DEF ChunkInv
<1>3. LengthInv'
  BY <1>0 DEF EntryInv, LengthInv, Kept, Whole
<1>4. UploadInv'
  <2>1. 1 .. w'.next - 1 = {}
    BY SMT, <1>1
  <2> QED BY <2>1 DEF UploadInv
<1> QED BY <1>0, <1>2, <1>3, <1>4, KeptEntry DEF EntryInv, DoneInv, NoDangling, EntryAccepted

(* The upload of a chunk, or the decision that it is there already.        *)
LEMMA PastEntry ==
  ASSUME TypeOK, EntryInv, Kept, pc = "upload", w.next <= Len(w.read),
         Work("upload", Past), w.read[w.next] \in Keys'
  PROVE  EntryInv'
<1>0. /\ pc # "idle" /\ pc \in Streaming /\ pc' = "upload" /\ pc' \in Streaming
      /\ w' = Past
  BY DEF Streaming, Work
<1>1. /\ w'.read = w.read /\ w'.hash = w.hash /\ w'.present = w.present
      /\ w'.next = w.next + 1 /\ w'.pos = w.pos + Len(w.read[w.next])
  BY <1>0 DEF Past, TypeOK, WorkType
<1>2. w.read \in Seq(Contents) /\ w.hash \in Contents /\ w.next \in 1 .. Len(w.read)
  BY SMT, WorkTypes
<1>3. Len(w.hash) \in Nat /\ Len(w.read) \in Nat
  BY SMT, <1>2 DEF Contents
<1>4. PICK f \in Offsets(w.read, Len(w.hash)) : w.pos = f[w.next - 1]
  BY <1>0 DEF EntryInv, ChunkInv, ChunkList
<1>5. f[w.next] = f[w.next - 1] + Len(w.read[w.next])
  BY <1>2, <1>4 DEF Offsets
<1>6. /\ (w.next + 1) - 1 = w.next /\ w.next + 1 \in 1 .. Len(w.read) + 1
      /\ \A i \in 1 .. w.next : i = w.next \/ i \in 1 .. w.next - 1
  BY SMT, <1>2, <1>3
<1>7. ChunkList'
  <2>1. \A i \in 1 .. Len(w.read) : w.read[i] # <<>>
    BY <1>0 DEF EntryInv, ChunkInv, ChunkList
  <2> QED BY <1>1, <1>4, <1>5, <1>6, <2>1 DEF ChunkList
<1>8. ChunkInv'
  BY <1>0, <1>7 DEF ChunkInv
<1>9. LengthInv'
  BY <1>0, <1>1 DEF EntryInv, LengthInv, Kept, Whole
<1>10. UploadInv'
  <2>1. Keys \subseteq Keys'
    BY KeysGrow DEF Kept
  <2> QED BY <1>0, <1>1, <1>6, <2>1 DEF EntryInv, UploadInv
<1> QED BY <1>0, <1>8, <1>9, <1>10, KeptEntry DEF EntryInv, DoneInv, NoDangling, EntryAccepted

(* The second read of a file nothing cuts short finds the bytes of every   *)
(* chunk.                                                                  *)
LEMMA RereadFinds ==
  ASSUME TypeOK, EntryInv, pc = "upload", w.next <= Len(w.read), Whole
  PROVE  Reread # <<>>
<1>0. pc \in Streaming
  BY DEF Streaming
<1>1. w.read \in Seq(Contents) /\ w.hash \in Contents /\ w.next \in 1 .. Len(w.read)
  BY SMT, WorkTypes
<1>2. file.content \in Contents /\ w.pos \in Nat
  BY WorkTypes, FileTypes
<1>3. Len(w.hash) \in Nat /\ Len(file.content) \in Nat
  BY SMT, <1>1, <1>2 DEF Contents
<1> DEFINE x == w.read[w.next]
<1>4. x \in Contents /\ x # <<>>
  <2>1. x \in Contents
    BY SMT, <1>1
  <2> QED BY <1>0, <1>1, <2>1 DEF EntryInv, ChunkInv, ChunkList
<1>5. Len(x) \in Nat /\ Len(x) \in Int /\ Len(x) > 0
  <2> HIDE DEF x
  <2> QED BY SMT, <1>4 DEF Contents
<1>6. PICK f \in Offsets(w.read, Len(w.hash)) : w.pos = f[w.next - 1]
  BY <1>0 DEF EntryInv, ChunkInv, ChunkList
<1>7. f[w.next] = w.pos + Len(x) /\ f[w.next] <= Len(w.hash)
  <2>1. f[w.next] = f[w.next - 1] + Len(x) /\ f \in [0 .. Len(w.read) -> 0 .. Len(w.hash)]
    BY <1>1, <1>6 DEF Offsets
  <2>2. w.next \in 0 .. Len(w.read)
    BY SMT, <1>1
  <2>3. f[w.next] \in 0 .. Len(w.hash)
    BY <2>1, <2>2
  <2>4. f[w.next] <= Len(w.hash)
    BY SMT, <2>3, <1>3
  <2> QED BY <1>6, <2>1, <2>4
<1>8. Len(w.hash) <= Len(file.content)
  BY <1>0 DEF EntryInv, LengthInv
<1> HIDE DEF x
<1>9. w.pos + Len(x) <= Len(file.content)
  BY SMT, <1>2, <1>3, <1>5, <1>7, <1>8
<1>10. Len(Reread) = Len(x)
  <2>1. Reread = ReadAt(file.content, w.pos, Len(x))
    BY DEF Reread, x
  <2>2. Len(x) >= 0
    BY SMT, <1>5
  <2> QED BY <2>1, <2>2, <1>2, <1>5, <1>9, ReadAtUnits
<1> QED BY SMT, <1>5, <1>10

LEMMA WorkerEntry ==
  ASSUME TypeOK, EntryInv, WorkerStep
  PROVE  EntryInv'
<1>0. Kept
  BY WorkerKeeps
<1>1. pc # "idle"
  BY DEF WorkerStep, FastPath, OpenFails, ReadSmall, RereadSmall, CheckBlob, PutSmall,
         HashChunk, SameHash, ProbeChunks, UploadRetained, UploadReread, UploadEnd
<1>2. Keys \subseteq Keys'
  BY <1>0, KeysGrow DEF Kept
<1>3. ASSUME Fail PROVE EntryInv'
  BY <1>0, <1>1, <1>3, FailEntry
<1>4. ASSUME pc \in {"probe", "upload"}, Finish(w.hash, Status(w.hash), w.read),
             Whole => Range(w.read) \subseteq Keys
      PROVE  EntryInv'
  <2>1. /\ Offsets(w.read, Len(w.hash)) # {} /\ ChunkUnits <= w.size
        /\ Whole => w.read # <<>>
        /\ Whole /\ (setup.cdc => "append" \notin setup.writes) => Len(w.hash) = w.size
    BY <1>4, HashedWhole
  <2>2. Whole /\ (setup.cdc => "append" \notin setup.writes) => Offsets(w.read, w.size) # {}
    BY <2>1
  <2>3. Whole => IF w.read = <<>> THEN w.hash \in Keys' ELSE Range(w.read) \subseteq Keys'
    BY <1>2, <1>4, <2>1
  <2> QED BY <1>0, <1>1, <1>4, <2>1, <2>2, <2>3, FinishEntry
<1>5. ASSUME NEW s, Finish(w.hash, s, <<>>), w.hash \in Keys' PROVE EntryInv'
  BY <1>0, <1>1, <1>5, FinishEntry
<1>6. ASSUME IsRestorable(prev), Refs(prev) \subseteq Keys
      PROVE  IF prev.chunks = <<>> THEN prev.hash \in Keys' ELSE Range(prev.chunks) \subseteq Keys'
  BY <1>2, <1>6 DEF Refs
<1>7. ASSUME NEW answer, Exists(Refs(prev), answer), answer = Refs(prev)
      PROVE  Refs(prev) \subseteq Keys
  BY <1>7 DEF Exists
<1>8. CASE FastPath
  <2>0. pc = "fast"
    BY <1>8 DEF FastPath
  <2>1. ASSUME SameStat, Refs(prev) \subseteq Keys, Finish(prev.hash, "unchanged", prev.chunks)
        PROVE  EntryInv'
    <3>1. IsRestorable(prev) /\ prev.size = w.size
      BY <2>1 DEF SameStat
    <3>2. prev.chunks # <<>> => /\ Offsets(prev.chunks, Len(prev.hash)) # {}
                                /\ Offsets(prev.chunks, w.size) # {}
                                /\ Whole => ChunkUnits <= w.size
      BY <3>1 DEF EntryInv, PrevInv
    <3> QED BY <1>0, <1>1, <1>6, <2>1, <3>1, <3>2, FinishEntry
  <2>2. ASSUME NEW state, Work(AfterFastPath, state), state.read = w.read, state.hash = w.hash,
               state.next = w.next, state.pos = w.pos
        PROVE  EntryInv'
    <3>1. /\ pc' = AfterFastPath /\ pc' \notin {"fast", "done", "same", "probe", "upload"}
          /\ w'.read = w.read /\ w'.hash = w.hash /\ w'.next = w.next /\ w'.pos = w.pos
          /\ w'.size = w.size
      BY <2>2, <1>0 DEF Work, AfterFastPath, Kept
    <3>2. w.next = 1 /\ w.hash = <<>> /\ ChunkList
      BY <2>0 DEF EntryInv, ChunkInv
    <3>3. ChunkInv'
      BY <3>1, <3>2 DEF ChunkInv, ChunkList
    <3>4. SizeInv'
      <4>1. ChunkUnits \in Nat /\ w.size \in Nat
        BY FileAssumption, WorkTypes
      <4>2. IF w.size >= ChunkUnits THEN pc' = "hash" /\ ChunkUnits <= w.size
                                    ELSE pc' = "read" /\ w.size < ChunkUnits
        BY SMT, <3>1, <4>1 DEF AfterFastPath
      <4> QED BY <3>1, <4>2 DEF SizeInv, Streaming, Small
    <3>5. LengthInv'
      <4>1. Len(w.hash) = 0
        BY SMT, <3>2
      <4>2. 0 <= Len(file.content) /\ 0 <= w.size
        BY SMT, FileTypes, WorkTypes DEF Contents
      <4>3. pc' \in Streaming => pc' = "hash"
        BY <3>1 DEF Streaming
      <4> QED BY <3>1, <4>1, <4>2, <4>3, <1>0 DEF LengthInv, Kept
    <3> QED BY <1>0, <1>1, <3>1, <3>3, <3>4, <3>5, KeptEntry
            DEF EntryInv, UploadInv, DoneInv, NoDangling, EntryAccepted
  <2>3. ASSUME NEW s \in {w, [w EXCEPT !.missing = TRUE]}
        PROVE  /\ StartStream(s).read = w.read /\ StartStream(s).hash = w.hash
               /\ StartStream(s).next = w.next /\ StartStream(s).pos = w.pos
    BY DEF StartStream, TypeOK, WorkType
  <2> QED BY <1>8, <1>3, <1>7, <2>1, <2>2, <2>3 DEF FastPath, TryUnchanged
<1>9. CASE OpenFails
  BY <1>9, <1>3 DEF OpenFails
<1>10. CASE ReadSmall
  BY <1>0, <1>10, SmallEntry DEF ReadSmall, Work, Small
<1>11. CASE RereadSmall
  BY <1>0, <1>11, SmallEntry DEF RereadSmall, Work, Small
<1>12. CASE CheckBlob
  <2>0. pc = "check" /\ pc \in Small
    BY <1>12 DEF CheckBlob, Small
  <2>1. CASE Work("put", w)
    BY <1>0, <2>0, <2>1, SmallEntry DEF Work, Small
  <2>2. ASSUME w.hash \in Keys, PrevHashIs(w.hash), Finish(w.hash, "unchanged", prev.chunks)
        PROVE  EntryInv'
    <3>1. IsRestorable(prev) /\ prev.hash = w.hash
      BY <2>2 DEF PrevHashIs
    <3>2. prev.chunks # <<>> => Offsets(prev.chunks, Len(w.hash)) # {}
      BY <3>1 DEF EntryInv, PrevInv
    <3>3. Whole => prev.chunks = <<>>
      <4> SUFFICES ASSUME Whole, prev.chunks # <<>> PROVE FALSE
        OBVIOUS
      <4>1. ChunkUnits <= prev.size /\ prev.size <= w.size
        BY <3>1, <1>1 DEF EntryInv, PrevInv
      <4>2. w.size < ChunkUnits
        BY <2>0 DEF EntryInv, SizeInv
      <4>3. ChunkUnits \in Nat /\ w.size \in Nat /\ prev.size \in Nat
        BY FileAssumption, WorkTypes, PrevTypes
      <4> QED BY SMT, <4>1, <4>2, <4>3
    <3> QED BY <1>0, <1>1, <1>2, <2>2, <3>2, <3>3, FinishEntry
  <2>3. ASSUME w.hash \in Keys, Finish(w.hash, Status(w.hash), <<>>)
        PROVE  EntryInv'
    BY <1>2, <1>5, <2>3
  <2>4. ASSUME NEW answer \in SUBSET {w.hash}, Exists({w.hash}, answer), answer # {}
        PROVE  w.hash \in Keys
    BY <2>4 DEF Exists
  <2> QED BY <1>12, <1>3, <2>1, <2>2, <2>3, <2>4 DEF CheckBlob
<1>13. CASE PutSmall
  <2>1. CASE Put(w.hash, w.blob) /\ Finish(w.hash, Status(w.hash), <<>>)
    BY <1>5, <2>1, PutKey
  <2> QED BY <1>13, <1>3, <2>1 DEF PutSmall, PutFails
<1>14. CASE HashChunk
  BY <1>0, <1>14, HashEntry
<1>15. CASE SameHash
  <2>0. pc = "same"
    BY <1>15 DEF SameHash
  <2>1. CASE Work("probe", w)
    BY <1>0, <2>0, <2>1, ToUpload DEF Work
  <2>2. ASSUME PrevHashIs(w.hash), Refs(prev) \subseteq Keys,
               Finish(w.hash, "unchanged", prev.chunks)
        PROVE  EntryInv'
    <3>1. IsRestorable(prev) /\ prev.hash = w.hash
      BY <2>2 DEF PrevHashIs
    <3>2. prev.chunks # <<>> => Offsets(prev.chunks, Len(w.hash)) # {}
      BY <3>1 DEF EntryInv, PrevInv
    <3>3. /\ ChunkUnits <= w.size
          /\ Whole /\ (setup.cdc => "append" \notin setup.writes) => Len(w.hash) = w.size
      BY <2>0, HashedWhole
    <3>4. Whole /\ (setup.cdc => "append" \notin setup.writes) /\ prev.chunks # <<>> =>
            Offsets(prev.chunks, w.size) # {}
      BY <3>2, <3>3
    <3>5. IF prev.chunks = <<>> THEN w.hash \in Keys' ELSE Range(prev.chunks) \subseteq Keys'
      BY <1>6, <2>2, <3>1
    <3> QED BY <1>0, <1>1, <2>2, <3>2, <3>3, <3>4, <3>5, FinishEntry
  <2> QED BY <1>15, <1>3, <1>7, <2>1, <2>2 DEF SameHash, TryUnchanged
<1>16. CASE ProbeChunks
  <2>0. pc = "probe"
    BY <1>16 DEF ProbeChunks
  <2>1. ASSUME NEW answer, answer \subseteq Keys, Work("upload", [w EXCEPT !.present = answer])
        PROVE  EntryInv'
    <3>1. /\ w'.read = w.read /\ w'.hash = w.hash /\ w'.next = w.next /\ w'.pos = w.pos
          /\ w'.present = answer /\ pc' = "upload"
      BY <2>1 DEF Work, TypeOK, WorkType
    <3> QED BY <1>0, <1>2, <2>0, <2>1, <3>1, ToUpload
  <2>2. ASSUME NEW answer, Exists(Range(prev.chunks), answer)
        PROVE  answer \subseteq Keys
    BY <2>2 DEF Exists
  <2>3. ASSUME NEW answer, answer \subseteq Keys, Range(w.read) \subseteq answer,
               Finish(w.hash, Status(w.hash), w.read)
        PROVE  EntryInv'
    BY <1>4, <2>0, <2>3
  <2> QED BY <1>16, <1>3, <2>1, <2>2, <2>3 DEF ProbeChunks
<1>17. ASSUME pc = "upload", w.next <= Len(w.read), w.read[w.next] \in w.present, Skip
       PROVE  EntryInv'
  <2>1. w.read[w.next] \in Keys'
    BY <1>2, <1>17 DEF EntryInv, UploadInv
  <2> QED BY <1>0, <1>17, <2>1, PastEntry DEF Skip
<1>18. ASSUME pc = "upload", w.next <= Len(w.read), Store(w.read[w.next])
       PROVE  EntryInv'
  <2>1. CASE Put(w.read[w.next], w.read[w.next]) /\ Work("upload", Past)
    BY <1>0, <1>18, <2>1, PutKey, PastEntry
  <2> QED BY <1>18, <1>3, <2>1 DEF Store, PutFails
<1>19. CASE UploadRetained
  BY <1>19, <1>17, <1>18 DEF UploadRetained
<1>20. CASE UploadReread
  <2>1. CASE Reread = <<>> /\ UploadDone
    <3>1. pc = "upload" /\ ~Whole
      BY <1>20, <2>1, RereadFinds DEF UploadReread
    <3> QED BY <1>4, <2>1, <3>1 DEF UploadDone
  <2> QED BY <1>20, <1>3, <1>17, <1>18, <2>1 DEF UploadReread
<1>21. CASE UploadEnd
  <2>1. pc = "upload" /\ w.next > Len(w.read)
    BY <1>21 DEF UploadEnd
  <2>2. w.next \in 1 .. Len(w.read) + 1
    BY <2>1 DEF EntryInv, ChunkInv, ChunkList, Streaming
  <2>3. Len(w.read) \in Nat /\ DOMAIN w.read = 1 .. Len(w.read)
    BY SMT, WorkTypes
  <2>4. 1 .. w.next - 1 = 1 .. Len(w.read)
    BY SMT, <2>1, <2>2, <2>3
  <2>5. Range(w.read) \subseteq Keys
    BY <2>1, <2>3, <2>4 DEF EntryInv, UploadInv, Range
  <2> QED BY <1>4, <1>21, <2>1, <2>5 DEF UploadEnd, UploadDone
<1> QED BY <1>8, <1>9, <1>10, <1>11, <1>12, <1>13, <1>14, <1>15, <1>16, <1>19, <1>20,
           <1>21 DEF WorkerStep

LEMMA EntryStep ==
  ASSUME TypeOK, EntryInv, [Next]_vars
  PROVE  EntryInv'
<1>1. CASE UNCHANGED vars
  <2>0. UNCHANGED <<setup, file, stored, prev, pc, w>>
    BY <1>1 DEF vars
  <2>1. ScanSize' /\ SizeInv' /\ PrevInv'
    BY <2>0 DEF EntryInv, ScanSize, SizeInv, PrevInv, Whole
  <2>2. ChunkInv' /\ LengthInv'
    BY <2>0 DEF EntryInv, ChunkInv, ChunkList, LengthInv, Whole
  <2>3. UploadInv' /\ NoDangling'
    BY <2>0 DEF EntryInv, UploadInv, NoDangling, Keys
  <2>4. DoneInv' /\ EntryAccepted'
    BY <2>0 DEF EntryInv, DoneInv, EntryAccepted, Whole
  <2> QED BY <2>1, <2>2, <2>3, <2>4 DEF EntryInv
<1> QED BY <1>1, WriteEntry, ScanEntry, LossEntry, WorkerEntry, SaveEntry, Steps

LEMMA EntryInvariant == Spec => []EntryInv
  BY EntryInit, EntryStep, Typed, PTL DEF Spec

(* A file that was backed up can be restored: when its entry is done every *)
(* blob it refers to is stored, whether it was read, found unchanged, or   *)
(* only partly uploaded because chunks were there, and whatever blobs were *)
(* lost before the run.                                                    *)
THEOREM NothingDangles == Spec => []NoDangling
<1>1. EntryInv => NoDangling
  BY DEF EntryInv
<1> QED BY <1>1, EntryInvariant, PTL

(* The chunks of an entry add up to the scanned size, so that              *)
(* ValidateStructure does not refuse the manifest because of a file that   *)
(* was written to while it was backed up.                                  *)
THEOREM EntriesAreAccepted == Spec => []EntryAccepted
<1>1. EntryInv => EntryAccepted
  BY DEF EntryInv
<1> QED BY <1>1, EntryInvariant, PTL
=============================================================================
