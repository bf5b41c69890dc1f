----------------------------- MODULE BlobUpload -----------------------------
(***************************************************************************)
(* Uploading blobs: UploadBlobFromPath (simple/stream.go), which reads a   *)
(* file while others write it, and UploadBlob (simple/hash.go), which is   *)
(* given the bytes.  The blob store is what its interface promises; a hash *)
(* is the content it is the hash of.                                       *)
(***************************************************************************)
EXTENDS BlobFormat

CONSTANTS Contents,      \* what others write to the file
          MaxWrites,     \* how often they do
          MaxUploads     \* how many uploads begin

(* What a word of ciphertext reads as is no size of a file.                *)
ASSUME UploadAssumption ==
    /\ \A c \in Contents : c \in Seq(Range(c)) /\ Len(c) <= Noise
    /\ MaxWrites \in Nat /\ MaxUploads \in Nat

VARIABLES file,     \* the content of the file now
          writes,   \* how often it was written
          uploads,  \* how many uploads began
          up,       \* the upload that is running
          store,    \* content -> the blob stored under its hash, and whether
                    \* all that was read of the file, and no less, was
                    \* announced (a history of how it was made)
          acked     \* what the uploads that succeeded were asked, and returned

uploadVars == <<file, writes, uploads, up, store, acked>>

Key == MasterKey("k")

(* known is empty, or holds the hash the caller expects; squeeze says that *)
(* the extension of the file does not rule compression out; size is what   *)
(* Stat said last; read is what was read, chunk by chunk; out is what the  *)
(* temporary file holds.                                                   *)
NoUpload == [pc |-> "idle", known |-> {}, squeeze |-> FALSE, size |-> 0,
             read |-> <<>>, out |-> <<>>]

UploadInit ==
    /\ file \in Contents
    /\ writes = 0 /\ uploads = 0
    /\ up = NoUpload
    /\ store = <<>>
    /\ acked = {}

-----------------------------------------------------------------------------
(* Another program writes the file.                                        *)
WriteFile ==
    /\ writes < MaxWrites
    /\ \E c \in Contents \ {file} : file' = c
    /\ writes' = writes + 1
    /\ UNCHANGED <<uploads, up, store, acked>>

(* Any call of an upload fails: the error is returned, the temporary file  *)
(* removed.                                                                *)
UploadFails ==
    /\ up.pc # "idle"
    /\ up' = NoUpload
    /\ UNCHANGED <<file, writes, uploads, store, acked>>

Succeed(known, content) ==
    /\ up' = NoUpload
    /\ acked' = acked \cup {[known |-> known, hash |-> content]}

(* The hash is known to the caller, or not; what is stored already is not  *)
(* read.                                                                   *)
Start ==
    /\ up.pc = "idle"
    /\ uploads < MaxUploads
    /\ uploads' = uploads + 1
    /\ \E known \in {{}, {file}}, squeeze \in BOOLEAN :
         IF known # {} /\ known \subseteq DOMAIN store
         THEN Succeed(known, file)
         ELSE /\ up' = [NoUpload EXCEPT !.pc = "stat", !.known = known, !.squeeze = squeeze]
              /\ UNCHANGED acked
    /\ UNCHANGED <<file, writes, store>>

(* The first Stat decides between the small path and the large one.        *)
StatFile ==
    /\ up.pc = "stat"
    /\ up' = [up EXCEPT !.pc = IF Len(file) < chunkSize THEN "small" ELSE "header",
                        !.size = Len(file)]
    /\ UNCHANGED <<file, writes, uploads, store, acked>>

smallLimit == MaxBlobSize - (1 + IVSize + TagSize)

Squeezed(data) ==
    IF up.squeeze /\ Len(data) >= MinCompress /\ Len(Compress(data)) < Len(data)
    THEN Compress(data) ELSE data

Expected(content) == up.known \in {{}, {content}}

Stored(content, blob, steady) ==
    IF content \in DOMAIN store THEN store
    ELSE [c \in DOMAIN store \cup {content} |->
             IF c = content THEN [blob |-> blob, steady |-> steady] ELSE store[c]]

(* The end of both paths: what is stored already is left alone, else Put   *)
(* or PutStream stores the blob under the hash of what was read.           *)
Finish(content, blob, steady) ==
    /\ Expected(content)
    /\ store' = Stored(content, blob, steady)
    /\ Succeed(up.known, content)

(* The small path: one read, of what the file holds now.                   *)
UploadSmall ==
    LET data == First(file, Least(Len(file), smallLimit + 1)) IN
    /\ up.pc = "small"
    /\ Len(data) <= smallLimit
    /\ Finish(data, Encrypt(Key, Squeezed(data)), Len(data) < chunkSize)
    /\ UNCHANGED <<file, writes, uploads>>

-----------------------------------------------------------------------------
(* encryptFileToWriter: the format and the header follow from a second     *)
(* Stat, before anything is read.                                          *)
StreamFormat(size) ==
    IF CeilDiv(size, chunkSize) >= MaxChunkCount THEN "GB3"
    ELSE IF up.squeeze THEN "GB2" ELSE "GB1"

WriteHeader ==
    /\ up.pc = "header"
    /\ up' = [up EXCEPT !.pc = "chunks", !.size = Len(file),
                        !.out = Header(StreamFormat(Len(file)), Len(file))]
    /\ UNCHANGED <<file, writes, uploads, store, acked>>

NextChunk ==
    LET at == Len(Concat(up.read)) IN
    SubSeq(file, at + 1, Least(at + chunkSize, Len(file)))

(* One chunk is read, hashed, compressed if that helps, sealed and written.*)
WriteChunk ==
    LET stored == Squeezed(NextChunk) IN
    /\ up.pc = "chunks"
    /\ Len(up.read) < CeilDiv(up.size, chunkSize)
    /\ NextChunk # <<>>
    /\ up' = [up EXCEPT !.read = Append(@, NextChunk),
                        !.out = @ \o Frame(StreamFormat(up.size), Key, Len(up.read) + 1,
                                           stored, stored # NextChunk)]
    /\ UNCHANGED <<file, writes, uploads, store, acked>>

(* All chunks were written, or the file has ended.                         *)
UploadLarge ==
    /\ up.pc = "chunks"
    /\ Len(up.read) = CeilDiv(up.size, chunkSize) \/ NextChunk = <<>>
    /\ Finish(Concat(up.read), up.out,
              /\ up.read # <<>>
              /\ Len(up.read) = CeilDiv(up.size, chunkSize)
              /\ \A i \in 1 .. Len(up.read) - 1 : Len(up.read[i]) = chunkSize)
    /\ UNCHANGED <<file, writes, uploads>>

(* UploadBlob: the caller has the bytes.                                   *)
UploadBytes ==
    /\ up.pc = "idle"
    /\ uploads < MaxUploads
    /\ uploads' = uploads + 1
    /\ \E c \in Contents :
         /\ store' = Stored(c, Encrypt(Key, c), TRUE)
         /\ Succeed({}, c)
    /\ UNCHANGED <<file, writes>>

UploadNext ==
    \/ WriteFile \/ UploadFails
    \/ Start \/ StatFile \/ UploadSmall
    \/ WriteHeader \/ WriteChunk \/ UploadLarge
    \/ UploadBytes

UploadSpec == UploadInit /\ [][UploadNext]_uploadVars

-----------------------------------------------------------------------------
(* Properties                                                              *)

(* Both decoders, the one that restores whole files and the one that       *)
(* restores chunks, return the content, which is what the hash is compared *)
(* with.                                                                   *)
Decodes(content, blob) ==
    /\ Download(Key, blob) = Ok(content)
    /\ DecryptStreamToFile(Key, blob) = Ok(content)

(* What an upload acknowledged is stored under the hash the caller         *)
(* expected, if any, and both DownloadBlob and DownloadBlobToFile return   *)
(* the bytes of that hash, however often the file was rewritten while it   *)
(* was read: for every format the size and the extension select, for the   *)
(* largest number of chunks GB1 counts, and for what was stored before.    *)
(* Excepted are files that were cut or grew by a chunk meanwhile, and      *)
(* those that begin with a zstd frame (simple/stream.go:45-291,            *)
(* simple/hash.go:44-86, simple/crypto.go:107-239).                        *)
AckedDecodes ==
    \A a \in acked :
        /\ a.known \in {{}, {a.hash}}
        /\ a.hash \in DOMAIN store
        /\ store[a.hash].steady /\ ~IsCompressed(a.hash)
              => Decodes(a.hash, store[a.hash].blob)

(* A blob that was cut anywhere, or that lost or repeats a stretch of what *)
(* follows its first number, is refused by Decrypt: chunks are             *)
(* authenticated one by one, and only the count before them and the check  *)
(* for trailing data tell that all of them, and no more, are there         *)
(* (simple/crypto.go:327-372, 374-440, 555-613).                           *)
LossRejected ==
    up.pc = "idle" =>
    \A c \in {d \in DOMAIN store : store[d].steady} : LET b == store[c].blob IN
        /\ \A i \in DOMAIN b : ~Decrypt(Key, First(b, i - 1)).ok
        /\ \A i, j \in DOMAIN b : 2 < i /\ i <= j =>
              /\ ~Decrypt(Key, First(b, i - 1) \o After(b, j)).ok
              /\ ~Decrypt(Key, First(b, j) \o After(b, i - 1)).ok

(* Blobs and manifests of older versions are still read: a small blob      *)
(* whose IV looks like a chunk count, by both decoders, and a manifest     *)
(* sealed under the master key itself (simple/crypto.go:253-296, 672-685,  *)
(* simple/stream.go:390-471).                                              *)
OldFormsDecode ==
    /\ Len(file) < chunkSize /\ ~IsCompressed(file) =>
          \A n \in 0 .. MaxChunkCount + 1 : Decodes(file, EncryptSmall(Key, file, n))
    /\ \A m \in {EncryptManifest(Key, file), SealManifest(Key, file)} :
          DecryptIfEncrypted(Key, m) = Ok(file)

=============================================================================
