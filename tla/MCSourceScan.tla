---------------------------- MODULE MCSourceScan ----------------------------
(***************************************************************************)
(* Two backups of small source directories, with exclude patterns of every *)
(* form and size filters, while another program changes the directory.     *)
(***************************************************************************)
EXTENDS SourceScan, TLC

MCSortedNames == <<"a", "ab", "b", "t", "x">>
MCStartsWith(n, m) == n = m \/ (n = "ab" /\ m = "a")

Tree1 ==
    (<<"a">> :> Directory) @@ (<<"a", "b">> :> Directory) @@ (<<"a", "b", "x">> :> File(3))
      @@ (<<"a", "t">> :> File(1)) @@ (<<"x">> :> File(1))

Tree2 ==
    (<<"b">> :> Directory) @@ (<<"b", "ab">> :> Directory) @@ (<<"b", "ab", "x">> :> File(1))
      @@ (<<"b", "x">> :> File(5)) @@ (<<"ab">> :> Directory)

Patterns ==
    {<<"x">>, <<"b">>, <<"a", "b">>, <<"*">>, <<"b", "*">>, <<"a", "*", "x">>, <<"**", "x">>,
     <<"a", "**">>, <<"b", "**">>, <<"a", "**", "x">>, <<"**", "b", "**">>, <<"*", "**">>, <<"**">>}

Config(positives, negatives, sizes, allow) ==
    [positives |-> positives, negatives |-> negatives, sizes |-> sizes, allowScanErrors |-> allow]

PatternConfigs == {Config({p}, {}, {}, FALSE) : p \in Patterns}

FilterConfigs ==
    {Config({}, {}, {[op |-> op, value |-> v, unit |-> 4]}, TRUE) : op \in {">", "<"}, v \in {1, 2}}
      \cup {Config({}, {}, {[op |-> op, value |-> 3, unit |-> 1]}, TRUE) : op \in {">=", "<="}}
      \cup {Config({<<"b">>}, {n}, {}, TRUE) : n \in {<<"a", "b">>, <<"b">>, <<"x">>}}

Source(t, configs, ignoreFiles) ==
    [tree |-> t, configs |-> configs, ignoreFiles |-> ignoreFiles]

(* A source whose settings change from one backup to the next, and with an *)
(* ignore file that comes, goes or cannot be read.                         *)
Changing ==
    Source(Tree2, {Config({}, {}, {}, TRUE), Config({<<"b">>}, {}, {}, FALSE)},
           {Config({<<"*", "x">>}, {<<"b">>}, {[op |-> ">", value |-> 1, unit |-> 4]}, TRUE)})

(* Every form of pattern and filter, and the one that changes.             *)
MCSources ==
    {Source(t, {c}, {}) : t \in {Tree1, Tree2}, c \in PatternConfigs}
      \cup {Source(Tree2, {c}, {}) : c \in FilterConfigs}
      \cup {Changing}
=============================================================================
