----------------------------- MODULE BlobStore -----------------------------
(***************************************************************************)
(* What a blob store promises its callers (simple/blobstore.go and the     *)
(* conformance suite in simple/store_conformance.go): every call takes     *)
(* effect on one shared set of blobs at moments between its invocation and *)
(* its return.  Put and Delete act on their blob, Exists, ExistsBatch and  *)
(* Get answer from the set, List and WarmExistsCache see a subset of it.   *)
(* A call may fail at any moment, before or after it took effect.          *)
(***************************************************************************)
CONSTANTS Hashes,     \* well-formed blob keys
          Malformed,  \* keys validateHash rejects
          Threads     \* concurrent callers

Ops == {"put", "get", "exists", "list", "warm", "delete"}

(* One call: its operation and keys, the keys it has not acted on yet, the *)
(* keys it answered "present", and its outcome.                            *)
Calls == [op   : Ops,
          hs   : SUBSET (Hashes \cup Malformed),
          todo : SUBSET (Hashes \cup Malformed),
          yes  : SUBSET Hashes,
          out  : {"pending", "ok", "err"}]

NewCall(op, hs) ==
    [op |-> op, hs |-> hs, todo |-> hs, yes |-> {}, out |-> "pending"]

(* What has become of the call c.                                          *)
With(c, todo, yes, out) ==
    [op |-> c.op, hs |-> c.hs, todo |-> todo, yes |-> yes, out |-> out]

(* A caller that has not called yet, or whose process died.                *)
NoCall == With(NewCall("get", {}), {}, {}, "err")

VARIABLES stored,  \* the blobs the store holds
          call     \* the last call of every thread

vars == <<stored, call>>

Pending(t) == call[t].out = "pending"

(* The keys an operation may name in one call.                             *)
Args(op) ==
    CASE op = "exists" -> (SUBSET Hashes \ {{}}) \cup {{h} : h \in Malformed}
      [] op \in {"list", "warm"} -> {Hashes}
      [] OTHER -> {{h} : h \in Hashes \cup Malformed}

Init == /\ stored \in SUBSET Hashes
        /\ call = [t \in Threads |-> NoCall]

Invoke(t) ==
    /\ ~Pending(t)
    /\ \E op \in Ops : \E hs \in Args(op) :
           call' = [call EXCEPT ![t] = NewCall(op, hs)]
    /\ UNCHANGED stored

(* The call acts on the keys ds, and may return once none is left.         *)
Effect(t, ds) ==
    LET c == call[t] IN
    /\ Pending(t)
    /\ ds \subseteq c.todo \cap Hashes
    /\ c.op = "get" => ds \subseteq stored
    /\ stored' = CASE c.op = "put"    -> stored \cup ds
                   [] c.op = "delete" -> stored \ ds
                   [] OTHER           -> stored
    /\ \E seen \in SUBSET (ds \cap stored), o \in {"pending", "ok"} :
         /\ c.op \in {"get", "exists"} => seen = ds \cap stored
         /\ c.op \in {"put", "delete"} => seen = {}
         /\ o = "ok" => ds = c.todo
         /\ call' = [call EXCEPT ![t] = With(c, c.todo \ ds, c.yes \cup seen, o)]

(* The call returns an error; what it did so far stays done.               *)
Fail(t) ==
    /\ Pending(t)
    /\ call' = [call EXCEPT ![t] = With(call[t], call[t].todo, call[t].yes, "err")]
    /\ UNCHANGED stored

(* The processes of some callers die.                                      *)
Kill ==
    /\ \E dead \in SUBSET Threads :
         call' = [t \in Threads |-> IF t \in dead THEN NoCall ELSE call[t]]
    /\ UNCHANGED stored

(* After a power loss the store holds what the file system kept.           *)
PowerLoss ==
    /\ call' = [t \in Threads |-> NoCall]
    /\ stored' \in SUBSET Hashes

Next == \/ \E t \in Threads : \/ Invoke(t)
                              \/ \E ds \in SUBSET Hashes : Effect(t, ds)
                              \/ Fail(t)
        \/ Kill
        \/ PowerLoss

Spec == Init /\ [][Next]_vars
=============================================================================
