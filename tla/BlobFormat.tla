----------------------------- MODULE BlobFormat -----------------------------
(***************************************************************************)
(* The containers a blob is stored in (simple/crypto.go): GB1, whose small *)
(* and large forms are told apart by a heuristic, GB2 with a size and a    *)
(* compression flag per chunk, GB3 with a header that describes itself;    *)
(* the encoders, the buffered and the streaming decoder (simple/stream.go),*)
(* and the encryption of manifests.                                        *)
(*                                                                         *)
(* Data are sequences of words: numbers, the rest of an IV, the ciphertext *)
(* of a sealed plaintext, and the words of plaintexts.  AES-GCM is ideal:  *)
(* a ciphertext opens under its own key and IV, whole and unchanged, or    *)
(* not at all.                                                             *)
(***************************************************************************)
EXTENDS Integers, Sequences, Functions

CONSTANTS chunkSize,      \* DefaultChunkSize, in words
          IVSize,         \* words of an IV; a chunk count takes one
          TagSize,        \* words a ciphertext is longer than its plaintext
          MaxChunkCount,  \* GB1 and GB2 hold fewer chunks than this
          MinCompress,    \* shorter pieces are not compressed
          Margin,         \* what MaxStoredSize allows on top of a chunk
          Headroom,       \* what MaxBlobSize allows on top of a chunk
          MaxGB3ChunkSize,
          Noise           \* what a word that is no number reads as

ASSUME FormatAssumption ==
    /\ chunkSize \in Nat \ {0} /\ IVSize \in Nat \ {0} /\ TagSize \in Nat \ {0}
    /\ MaxChunkCount \in Nat \ {0}
    /\ MinCompress \in Nat /\ Margin \in Nat /\ Headroom \in Nat
    /\ MaxGB3ChunkSize \in Nat /\ chunkSize <= MaxGB3ChunkSize
    /\ Noise \in Nat

(* Words.  Those of a zstd frame, and of a ciphertext, know what they are   *)
(* part of; frames are also found in files a user backs up.                *)
Num(n) == <<[num |-> n]>>
Magic(m) == <<[magic |-> m]>>
IV(n, id) == [i \in 1 .. IVSize |-> IF i = 1 THEN [num |-> n] ELSE [iv |-> id]]

Has(word, field) == field \in DOMAIN word
Number(word) == IF Has(word, "num") THEN word.num ELSE Noise

(* The concatenation of pieces.                                            *)
Concat(pieces) ==
    LET upTo[i \in 0 .. Len(pieces)] == IF i = 0 THEN <<>> ELSE upTo[i - 1] \o pieces[i]
    IN upTo[Len(pieces)]

First(data, n) == SubSeq(data, 1, n)
After(data, n) == SubSeq(data, n + 1, Len(data))
Least(m, n) == IF m <= n THEN m ELSE n
CeilDiv(n, d) == (n + d - 1) \div d

(* What a decoder returns.                                                 *)
Ok(out) == [ok |-> TRUE, out |-> out]
Err == [ok |-> FALSE, out |-> <<>>]

(* What a decoder returns for a part of its input, and what is left.       *)
Leaving(r, rest) == [ok |-> r.ok, out |-> r.out, rest |-> rest]
Broken == Leaving(Err, <<>>)

-----------------------------------------------------------------------------
(* gcm.Seal and gcm.Open.                                                  *)
Seal(key, iv, plain) ==
    [i \in 1 .. Len(plain) + TagSize |->
        [key |-> key, iv |-> iv, plain |-> plain, at |-> i]]

Open(key, iv, data) ==
    IF data # <<>> /\ Has(data[1], "plain") /\ data = Seal(key, iv, data[1].plain)
    THEN Ok(data[1].plain) ELSE Err

(* zstd: what repeats itself shrinks to a frame half as long.              *)
ZstdFrame(data) == [i \in 1 .. CeilDiv(Len(data), 2) |-> [zip |-> data, at |-> i]]
Compress(data) ==
    IF Len(data) > 1 /\ \A i \in DOMAIN data : data[i] = data[1]
    THEN ZstdFrame(data) ELSE data

(* IsCompressed looks at the first bytes only; what is not a whole frame   *)
(* makes Decompress fail.                                                  *)
IsCompressed(data) == data # <<>> /\ Has(data[1], "zip")
Decompress(data) ==
    IF IsCompressed(data) /\ data = ZstdFrame(data[1].zip) THEN Ok(data[1].zip) ELSE Err

(* The step after decryption in DownloadBlob and writeSmallPlaintext.      *)
Unpack(r) == IF r.ok /\ IsCompressed(r.out) THEN Decompress(r.out) ELSE r

-----------------------------------------------------------------------------
(* Encoders                                                                *)

(* isChunkCount.                                                           *)
IsChunkCount(n) == n > 0 /\ n < MaxChunkCount

(* encryptSmall.  newSmallBlobIV draws an IV that does not look like a     *)
(* chunk count; blobs of older versions begin with any number.             *)
EncryptSmall(key, plain, n) ==
    Magic("GB1") \o IV(n, 0) \o Seal(key, IV(n, 0), plain)

(* The beginning of a chunked blob.                                        *)
Header(format, size) ==
    Magic(format) \o IF format = "GB3" THEN Num(chunkSize) \o Num(size)
                                       ELSE Num(CeilDiv(size, chunkSize))

(* One chunk, as stored: GB1 has neither size nor flag.                    *)
Frame(format, key, i, stored, compressed) ==
    LET sealed == Seal(key, IV(0, i), stored) IN
    (IF format = "GB1" THEN <<>>
     ELSE Num(Len(sealed)) \o Num(IF compressed THEN 1 ELSE 0))
    \o IV(0, i) \o sealed

ChunkOf(plain, i) ==
    SubSeq(plain, (i - 1) * chunkSize + 1, Least(i * chunkSize, Len(plain)))

(* Mutant: the largest chunk count of GB1 is off by one.                   *)
LargeFormatOff(size) ==
    IF CeilDiv(size, chunkSize) > MaxChunkCount THEN "GB3" ELSE "GB1"

(* encryptLarge leaves what GB1 cannot count to encryptLargeV3.            *)
LargeFormat(size) ==
    IF CeilDiv(size, chunkSize) >= MaxChunkCount THEN "GB3" ELSE "GB1"

(* Encrypt: one call, no compression of its own.                           *)
Encrypt(key, plain) ==
    LET format == LargeFormat(Len(plain)) IN
    IF Len(plain) < chunkSize THEN EncryptSmall(key, plain, 0)
    ELSE Header(format, Len(plain)) \o
         Concat([i \in 1 .. CeilDiv(Len(plain), chunkSize) |->
                        Frame(format, key, i, ChunkOf(plain, i), FALSE)])

-----------------------------------------------------------------------------
(* Decoders                                                                *)

(* decryptSmall: an IV and a ciphertext.                                   *)
DecryptSmall(key, data) ==
    IF Len(data) < IVSize + TagSize THEN Err
    ELSE Open(key, First(data, IVSize), After(data, IVSize))

(* One chunk of GB1 is as long as a chunk may be, or the rest of the data. *)
FrameGB1(key, data) ==
    LET end == Least(IVSize + chunkSize + TagSize, Len(data)) IN
    IF Len(data) < IVSize THEN Broken
    ELSE Leaving(Open(key, First(data, IVSize), SubSeq(data, IVSize + 1, end)),
                 After(data, end))

(* One chunk of GB2 or GB3 says how long it is, and whether it was         *)
(* compressed: a flag byte for GB2, its lowest bit for GB3.                *)
FrameSized(key, format, data, max) ==
    LET size == Number(data[1])
        flag == Number(data[2])
        end == 2 + IVSize + size
        opened == Open(key, SubSeq(data, 3, 2 + IVSize), SubSeq(data, 3 + IVSize, end))
        compressed == IF format = "GB2" THEN flag # 0 ELSE flag % 2 = 1 IN
    IF Len(data) < 2 + IVSize \/ size > max \/ Len(data) < end THEN Broken
    ELSE Leaving(IF opened.ok /\ compressed THEN Decompress(opened.out) ELSE opened,
                 After(data, end))

(* The loops over count chunks: what was decrypted up to the first error,  *)
(* and what is left of the data.                                           *)
Chunks(key, format, count, data, max) ==
    LET loop[i \in 0 .. count] ==
          IF i = 0 THEN Leaving(Ok(<<>>), data)
          ELSE LET before == loop[i - 1]
                   frame == IF format = "GB1" THEN FrameGB1(key, before.rest)
                            ELSE FrameSized(key, format, before.rest, max) IN
               IF before.ok /\ frame.ok
               THEN Leaving(Ok(before.out \o frame.out), frame.rest)
               ELSE [ok |-> FALSE, out |-> before.out, rest |-> before.rest]
    IN loop[count]

(* Mutant: what follows the last chunk is not looked at.                   *)
ConsumedAny(r) == IF r.ok THEN Ok(r.out) ELSE Err

(* The buffered decoders insist that nothing follows the last chunk.       *)
Consumed(r) == IF r.ok /\ r.rest = <<>> THEN Ok(r.out) ELSE Err

MaxStoredSize == chunkSize + TagSize + Margin
MaxBlobSize == chunkSize + IVSize + TagSize + Headroom

(* ParseGB3Header, then the chunks it announces.  The fields that name     *)
(* algorithms are left out: a reader refuses what it does not know.        *)
ChunksGB3(key, data) ==
    IF Len(data) < 2 \/ Number(data[1]) \notin 1 .. MaxGB3ChunkSize THEN Broken
    ELSE Chunks(key, "GB3", CeilDiv(Number(data[2]), Number(data[1])), After(data, 2),
                Number(data[1]) + TagSize + Margin)

(* GB1 and GB2 begin with the number of chunks.                            *)
ChunksCounted(key, format, data) ==
    IF data = <<>> \/ ~IsChunkCount(Number(data[1])) THEN Broken
    ELSE Chunks(key, format, Number(data[1]), Tail(data), MaxStoredSize)

(* Mutant: a blob that looks like a large one is one.                      *)
DecryptNoFallback(key, blob) ==
    LET data == Tail(blob)
        large == Consumed(ChunksCounted(key, "GB1", data))
        small == DecryptSmall(key, data) IN
    IF blob = <<>> THEN Err
    ELSE CASE blob[1] = [magic |-> "GB3"] -> Consumed(ChunksGB3(key, data))
           [] blob[1] = [magic |-> "GB2"] -> Consumed(ChunksCounted(key, "GB2", data))
           [] blob[1] = [magic |-> "GB1"] ->
                IF Len(data) > 1 /\ IsChunkCount(Number(data[1])) THEN large ELSE small
           [] OTHER -> Err

(* Decrypt.  A GB1 blob whose first word looks like a chunk count is       *)
(* decoded as a large one, and as a small one when that fails.             *)
Decrypt(key, blob) ==
    LET data == Tail(blob)
        large == Consumed(ChunksCounted(key, "GB1", data))
        small == DecryptSmall(key, data) IN
    IF blob = <<>> THEN Err
    ELSE CASE blob[1] = [magic |-> "GB3"] -> Consumed(ChunksGB3(key, data))
           [] blob[1] = [magic |-> "GB2"] -> Consumed(ChunksCounted(key, "GB2", data))
           [] blob[1] = [magic |-> "GB1"] ->
                IF Len(data) > 1 /\ IsChunkCount(Number(data[1]))
                THEN IF large.ok THEN large ELSE small
                ELSE small
           [] OTHER -> Err

(* DownloadBlob, up to the check of the hash.                              *)
Download(key, blob) == Unpack(Decrypt(key, blob))

(* decryptStreamToFile.  Chunks are written as they come and nothing is    *)
(* said of what follows the last; a GB1 blob whose first chunk does not    *)
(* open, and which ended within it, is tried as a small one.  A small blob *)
(* is read whole, up to MaxBlobSize.                                       *)
DecryptStreamToFile(key, blob) ==
    LET data == Tail(blob)
        large == ChunksCounted(key, "GB1", data)
        short == Len(data) - 1 \in IVSize .. IVSize + chunkSize + TagSize - 1
        small == Unpack(DecryptSmall(key, data))
        streamed(r) == IF r.ok THEN Ok(r.out) ELSE Err IN
    IF blob = <<>> THEN Err
    ELSE CASE blob[1] = [magic |-> "GB3"] -> streamed(ChunksGB3(key, data))
           [] blob[1] = [magic |-> "GB2"] -> streamed(ChunksCounted(key, "GB2", data))
           [] blob[1] = [magic |-> "GB1"] ->
                IF data # <<>> /\ IsChunkCount(Number(data[1]))
                THEN IF ~large.ok /\ large.out = <<>> /\ short THEN small ELSE streamed(large)
                ELSE IF Len(data) <= MaxBlobSize THEN small ELSE Err
           [] OTHER -> Err

-----------------------------------------------------------------------------
(* Manifests are sealed under a key derived from the master key; those of  *)
(* older versions under the master key itself.                             *)
MasterKey(k) == [purpose |-> "master", of |-> k]

DeriveMetadataKey(key) == [key EXCEPT !.purpose = "metadata"]

SealManifest(key, plain) == Magic("GKM1") \o IV(0, 0) \o Seal(key, IV(0, 0), plain)
EncryptManifest(key, plain) == SealManifest(DeriveMetadataKey(key), plain)

DecryptManifest(key, data) ==
    LET derived == DecryptSmall(DeriveMetadataKey(key), Tail(data)) IN
    IF data = <<>> \/ data[1] # [magic |-> "GKM1"] THEN Err
    ELSE IF derived.ok THEN derived ELSE DecryptSmall(key, Tail(data))

(* DecryptIfEncrypted: by magic; what is too short for one is returned.    *)
DecryptIfEncrypted(key, data) ==
    IF data = <<>> THEN Ok(data)
    ELSE IF data[1] = [magic |-> "GKM1"] THEN DecryptManifest(key, data)
    ELSE Decrypt(key, data)
=============================================================================
