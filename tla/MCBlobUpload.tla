---------------------------- MODULE MCBlobUpload ----------------------------
(* A small instance of BlobUpload.  Chunks are of three words, and three   *)
(* of them are more than GB1 and GB2 count; files are shorter than a       *)
(* chunk, exactly one or two, between, and just past two.                  *)
EXTENDS BlobUpload

CONSTANTS Sizes

MCContents ==
    {[i \in 1 .. n |-> [raw |-> "a"]] : n \in Sizes}
    \cup {[i \in 1 .. 5 |-> [raw |-> "b"]]}
    \cup {ZstdFrame(<<[raw |-> "a"]>>) \o <<[raw |-> "b"]>>}
=============================================================================
