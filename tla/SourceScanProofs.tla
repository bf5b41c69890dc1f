-------------------------- MODULE SourceScanProofs --------------------------
(***************************************************************************)
(* SourceScan is correct for every source, configuration, number of runs   *)
(* and of changes by others: what MatchPattern says of a pattern, what the *)
(* walk records, the tree of the manifest, and the baseline.               *)
(***************************************************************************)
EXTENDS SourceScan, WellFoundedInduction, TLAPS

AllPaths == Paths \cup {<<>>}
Prefix(d, p) == d = p \/ Below(d, p)
dirs == Range(dirEntries)
Skipped(p) == IsSkipped(p, cfg)
Scanning == {"scan", "upload", "saved"}

TypeOK ==
    /\ DOMAIN tree \subseteq Paths
    /\ touched \subseteq Paths
    /\ src \in Sources
    /\ cfg.positives \cup cfg.negatives \subseteq Seq(STRING) \ {<<>>}
    /\ phase \in Scanning \cup {"idle", "failed"}
    /\ todo \in Seq(AllPaths)
    /\ files \subseteq Paths /\ dirEntries \in Seq(Paths) /\ waiting \subseteq files
    /\ scanErrs \in Nat

(* The source is a tree.                                                   *)
Rooted == \A p \in DOMAIN tree : IsDir(Front(p))

(* The directories on the way to what the walk has met or is about to meet *)
(* were recorded.                                                          *)
Reached ==
    \A p \in Range(todo) \cup files \cup dirs : \A q \in Paths : Below(q, p) => q \in dirs

(* The walk meets a path once, whatever others do to the source meanwhile. *)
MetOnce ==
    /\ IsInjective(todo)
    /\ \A s, t \in Range(todo) : s # t => ~Prefix(s, t)
    /\ \A t \in Range(todo) : \A p \in files \cup dirs : ~Prefix(t, p)
    /\ files \cap dirs = {}

Allowed ==
    /\ \A d \in dirs : ~Skipped(d)
    /\ \A f \in files : ~IsExcluded(f, cfg)

(* What was recorded and not touched since is still what it was.           *)
Lasting ==
    /\ \A p \in files \ touched :
          p \in DOMAIN tree /\ ~IsDir(p) /\ ~IsSizeExcluded(tree[p].size, cfg)
    /\ \A p \in dirs \ touched : IsDir(p)

(* What a walk without errors records of what is there throughout.         *)
Entered(p) == \A q \in Paths : Below(q, p) => ~Skipped(q)
TakesFile(p) ==
    /\ p \in DOMAIN tree /\ ~IsDir(p) /\ Entered(p)
    /\ ~IsExcluded(p, cfg) /\ ~IsSizeExcluded(tree[p].size, cfg)
TakesDir(p) == p \in DOMAIN tree /\ IsDir(p) /\ Entered(p) /\ ~Skipped(p)

NothingMissed ==
    phase \in Scanning /\ scanErrs = 0 =>
        \A p \in Paths \ touched : TakesFile(p) \/ TakesDir(p) =>
            \/ p \in files \cup dirs
            \/ \E t \in Range(todo) : Prefix(t, p)

WalkInv == Rooted /\ Reached /\ MetOnce /\ Allowed /\ Lasting /\ NothingMissed

(* Every directory of ds is listed in its parent, and nothing else is.     *)
Entry == [files : Seq(Names), subdirs : Seq(Names)]

Listed(ds) ==
    /\ DOMAIN ds \subseteq AllPaths
    /\ \A d \in DOMAIN ds :
          /\ ds[d] \in Entry /\ IsInjective(ds[d].subdirs)
          /\ d # <<>> => Front(d) \in DOMAIN ds
          /\ \A x \in Names : x \in Range(ds[d].subdirs) <=>
                \E c \in DOMAIN ds : c # <<>> /\ Front(c) = d /\ Last(c) = x

(* The directories ds of a manifest hold the files of done and no others.  *)
TreeOf(ds, done) ==
    /\ Listed(ds)
    /\ DOMAIN ds \subseteq dirs \cup {<<>>}
    /\ \A d \in DOMAIN ds :
          /\ IsInjective(ds[d].files)
          /\ \A x \in Names : x \in Range(ds[d].files) <=>
                \E f \in done : Front(f) = d /\ Last(f) = x
    /\ \A f \in done : Front(f) \in DOMAIN ds

ManifestInv ==
    phase \in {"upload", "saved"} =>
        /\ todo = <<>>
        /\ phase = "saved" => waiting = {}
        /\ TreeOf(Dirs, files \ waiting)
        /\ \A d \in dirs : ~HasChildren(d) => d \in DOMAIN Dirs

(* The files of a manifest without scan errors are those that the          *)
(* configuration of its run does not keep out.                             *)
Takes(p, c) == p \in DOMAIN tree /\ ~IsDir(p) /\ ~KeptOut(p, c)
Complete(F, c) == F \subseteq Paths /\ \A p \in Paths \ touched : p \in F <=> Takes(p, c)

BaselineInv ==
    /\ latest.exists /\ latest.scanErrs = 0 => Complete(latest.files, latest.cfg)
    /\ prevFiles.exists => Complete(prevFiles.files, prevFiles.cfg)

ScanInv == TypeOK /\ WalkInv /\ ManifestInv /\ BaselineInv

-----------------------------------------------------------------------------
(* Paths                                                                   *)

(* Most leaves are first-order: Zenon unless a leaf names another prover.  *)
USE Zenon

LEMMA Cut ==
  ASSUME NEW S, NEW s \in Seq(S), NEW m \in 1 .. Len(s) + 1, NEW n \in m - 1 .. Len(s)
  PROVE  /\ SubSeq(s, m, n) \in Seq(S)
         /\ Len(SubSeq(s, m, n)) = n - m + 1
         /\ \A i \in 1 .. n - m + 1 : SubSeq(s, m, n)[i] = s[m + i - 1]
  BY SMT

LEMMA SeqEqual ==
  ASSUME NEW S, NEW s \in Seq(S), NEW t \in Seq(S), Len(s) = Len(t),
         \A i \in 1 .. Len(s) : s[i] = t[i]
  PROVE  s = t
  BY SMT

LEMMA PathIsSeq ==
  ASSUME NEW p \in AllPaths
  PROVE  /\ p \in Seq(Names) /\ Len(p) \in 0 .. MaxDepth
         /\ p \in Paths <=> Len(p) # 0
         /\ p \in Paths <=> p # <<>>
<1>1. CASE p = <<>>
  <2>1. <<>> \notin Paths
    BY SMT DEF Paths
  <2> QED BY SMT, <1>1, <2>1, ScanAssumption
<1>2. CASE p # <<>>
  <2>1. PICK m \in 1 .. MaxDepth : p \in [1 .. m -> Names]
    BY <1>2 DEF AllPaths, Paths
  <2>2. m \in Nat /\ m # 0 /\ p \in Seq(Names) /\ Len(p) = m
    BY SMT, <2>1, ScanAssumption
  <2>3. Len(p) \in 0 .. MaxDepth
    BY SMT, <2>1, <2>2, ScanAssumption
  <2> QED BY <2>2, <2>3, <1>2 DEF AllPaths
<1> QED BY <1>1, <1>2

LEMMA MakePath ==
  ASSUME NEW p \in Seq(Names), Len(p) \in 1 .. MaxDepth
  PROVE  p \in Paths /\ p \in AllPaths
<1>1. p \in [1 .. Len(p) -> Names]
  BY SMT
<1> QED BY <1>1 DEF Paths, AllPaths

LEMMA Root == <<>> \in AllPaths /\ <<>> \notin Paths /\ Paths \subseteq AllPaths
<1>1. <<>> \in AllPaths /\ Paths \subseteq AllPaths
  BY DEF AllPaths
<1> QED BY <1>1, PathIsSeq

LEMMA PrefixDef ==
  ASSUME NEW d \in Seq(Names), NEW p \in Seq(Names)
  PROVE  /\ Below(d, p) <=> Len(d) < Len(p) /\ \A i \in 1 .. Len(d) : d[i] = p[i]
         /\ Prefix(d, p) <=> Len(d) <= Len(p) /\ \A i \in 1 .. Len(d) : d[i] = p[i]
<1>1. Below(d, p) <=> Len(d) < Len(p) /\ \A i \in 1 .. Len(d) : d[i] = p[i]
  <2>1. CASE Len(d) < Len(p)
    <3>1. /\ SubSeq(p, 1, Len(d)) \in Seq(Names)
          /\ Len(SubSeq(p, 1, Len(d))) = Len(d)
          /\ \A i \in 1 .. Len(d) : SubSeq(p, 1, Len(d))[i] = p[i]
      BY SMT, <2>1
    <3>2. SubSeq(p, 1, Len(d)) = d <=> \A i \in 1 .. Len(d) : d[i] = p[i]
      BY SMT, <3>1, SeqEqual
    <3> QED BY <2>1, <3>2 DEF Below
  <2> QED BY <2>1 DEF Below
<1>2. Len(d) = Len(p) => (d = p <=> \A i \in 1 .. Len(d) : d[i] = p[i])
  BY SMT, SeqEqual
<1>3. Len(d) \in Nat /\ Len(p) \in Nat
  BY SMT
<1> QED BY SMT, <1>1, <1>2, <1>3 DEF Prefix

LEMMA PrefixOrder ==
  ASSUME NEW a \in AllPaths, NEW b \in AllPaths, NEW c \in AllPaths
  PROVE  /\ Prefix(a, a) /\ Prefix(<<>>, a)
         /\ Prefix(a, b) /\ Prefix(b, a) => a = b
         /\ Prefix(a, b) /\ Prefix(b, c) => Prefix(a, c)
         /\ Prefix(a, c) /\ Prefix(b, c) => Prefix(a, b) \/ Prefix(b, a)
         /\ Below(a, b) <=> Prefix(a, b) /\ a # b
         /\ Prefix(a, <<>>) <=> a = <<>>
<1>1. a \in Seq(Names) /\ b \in Seq(Names) /\ c \in Seq(Names) /\ <<>> \in Seq(Names)
  BY PathIsSeq, Root
<1>2. Prefix(a, a) /\ Prefix(<<>>, a)
  <2>1. Prefix(<<>>, a) <=> Len(<<>>) <= Len(a) /\ \A i \in 1 .. Len(<<>>) : <<>>[i] = a[i]
    BY <1>1, PrefixDef
  <2>2. Prefix(<<>>, a)
    BY SMT, <1>1, <2>1
  <2> QED BY <2>2 DEF Prefix
<1>3. /\ Prefix(a, b) /\ Prefix(b, a) => Len(a) = Len(b) /\ \A i \in 1 .. Len(a) : a[i] = b[i]
      /\ Prefix(a, b) /\ Prefix(b, c) => Prefix(a, c)
      /\ Prefix(a, c) /\ Prefix(b, c) => Prefix(a, b) \/ Prefix(b, a)
  <2>1. Prefix(a, b) <=> Len(a) <= Len(b) /\ \A i \in 1 .. Len(a) : a[i] = b[i]
    BY <1>1, PrefixDef
  <2>2. Prefix(b, a) <=> Len(b) <= Len(a) /\ \A i \in 1 .. Len(b) : b[i] = a[i]
    BY <1>1, PrefixDef
  <2>3. Prefix(a, c) <=> Len(a) <= Len(c) /\ \A i \in 1 .. Len(a) : a[i] = c[i]
    BY <1>1, PrefixDef
  <2>4. Prefix(b, c) <=> Len(b) <= Len(c) /\ \A i \in 1 .. Len(b) : b[i] = c[i]
    BY <1>1, PrefixDef
  <2> QED BY SMT, <1>1, <2>1, <2>2, <2>3, <2>4
<1>4. Prefix(a, b) /\ Prefix(b, a) => a = b
  BY <1>1, <1>3, SeqEqual
<1>5. Below(a, b) <=> Prefix(a, b) /\ a # b
  <2>1. ~Below(a, a)
    BY SMT, <1>1 DEF Below
  <2> QED BY <2>1 DEF Prefix
<1>6. Prefix(a, <<>>) <=> a = <<>>
  <2>1. Below(a, <<>>) <=> Len(a) < Len(<<>>) /\ \A i \in 1 .. Len(a) : a[i] = <<>>[i]
    BY <1>1, PrefixDef
  <2>2. ~Below(a, <<>>)
    BY SMT, <1>1, <2>1
  <2> QED BY <2>2 DEF Prefix
<1> QED BY <1>2, <1>3, <1>4, <1>5, <1>6

LEMMA FrontDef ==
  ASSUME NEW p \in Paths
  PROVE  /\ Front(p) \in AllPaths /\ Len(Front(p)) = Len(p) - 1
         /\ \A i \in 1 .. Len(p) - 1 : Front(p)[i] = p[i]
         /\ Last(p) \in Names /\ Last(p) = p[Len(p)]
         /\ Below(Front(p), p)
<1>1. p \in Seq(Names) /\ Len(p) \in 1 .. MaxDepth /\ Len(p) \in Nat /\ p \in AllPaths
  BY SMT, PathIsSeq, Root, ScanAssumption
<1>5. /\ Front(p) \in Seq(Names) /\ Len(Front(p)) = Len(p) - 1
      /\ \A i \in 1 .. Len(p) - 1 : Front(p)[i] = p[i]
  <2>1. 1 \in 1 .. Len(p) + 1 /\ Len(p) - 1 \in 1 - 1 .. Len(p)
    BY SMT, <1>1
  <2>2. /\ SubSeq(p, 1, Len(p) - 1) \in Seq(Names)
        /\ Len(SubSeq(p, 1, Len(p) - 1)) = Len(p) - 1 - 1 + 1
        /\ \A i \in 1 .. Len(p) - 1 - 1 + 1 : SubSeq(p, 1, Len(p) - 1)[i] = p[1 + i - 1]
    BY <1>1, <2>1, Cut
  <2> QED BY SMT, <1>1, <2>2 DEF Front
<1>6. Front(p) \in AllPaths
  <2>1. CASE Len(p) = 1
    BY SMT, <2>1, <1>5, Root
  <2>2. CASE Len(p) # 1
    <3>1. Len(Front(p)) \in 1 .. MaxDepth
      BY SMT, <2>2, <1>1, <1>5, ScanAssumption
    <3> QED BY <3>1, <1>5, MakePath
  <2> QED BY <2>1, <2>2
<1>7. Last(p) \in Names /\ Last(p) = p[Len(p)]
  BY SMT, <1>1 DEF Last
<1>8. Below(Front(p), p)
  <2>1. Below(Front(p), p) <=>
          Len(Front(p)) < Len(p) /\ \A i \in 1 .. Len(Front(p)) : Front(p)[i] = p[i]
    BY <1>1, <1>5, PrefixDef
  <2> QED BY SMT, <1>1, <1>5, <2>1
<1> QED BY <1>5, <1>6, <1>7, <1>8

LEMMA SamePath ==
  ASSUME NEW p \in Paths, NEW q \in Paths, Front(p) = Front(q), Last(p) = Last(q)
  PROVE  p = q
<1>1. p \in Seq(Names) /\ q \in Seq(Names) /\ Len(p) \in Nat /\ Len(q) \in Nat
  BY SMT, PathIsSeq, Root
<1>2. Len(p) = Len(q)
  BY SMT, <1>1, FrontDef
<1>3. \A i \in 1 .. Len(p) : p[i] = q[i]
  BY SMT, <1>1, <1>2, FrontDef
<1> QED BY <1>1, <1>2, <1>3, SeqEqual

(* What is in a directory is in it or below one of its subdirectories.     *)
LEMMA BelowFront ==
  ASSUME NEW q \in AllPaths, NEW p \in Paths
  PROVE  /\ Prefix(q, Front(p)) => Below(q, p)
         /\ Below(q, p) => Prefix(q, Front(p))
<1>1. /\ p \in Seq(Names) /\ q \in Seq(Names) /\ Front(p) \in Seq(Names)
      /\ Len(p) \in Nat /\ Len(q) \in Nat /\ Len(Front(p)) = Len(p) - 1
      /\ \A i \in 1 .. Len(p) - 1 : Front(p)[i] = p[i]
  BY SMT, PathIsSeq, Root, FrontDef
<1>2. Below(q, p) <=> Len(q) < Len(p) /\ \A i \in 1 .. Len(q) : q[i] = p[i]
  BY <1>1, PrefixDef
<1>3. Prefix(q, Front(p)) <=>
        Len(q) <= Len(Front(p)) /\ \A i \in 1 .. Len(q) : q[i] = Front(p)[i]
  BY <1>1, PrefixDef
<1> QED BY SMT, <1>1, <1>2, <1>3

LEMMA ChildDef ==
  ASSUME NEW d \in AllPaths, NEW c \in Paths
  PROVE  Len(c) = Len(d) + 1 /\ Below(d, c) <=> Front(c) = d
<1>1. /\ c \in Seq(Names) /\ d \in Seq(Names) /\ Front(c) \in Seq(Names)
      /\ Len(c) \in Nat /\ Len(d) \in Nat /\ Len(Front(c)) = Len(c) - 1
  BY SMT, PathIsSeq, Root, FrontDef
<1>2. Front(c) = d => Len(c) = Len(d) + 1 /\ Below(d, c)
  BY SMT, <1>1, FrontDef
<1>3. Len(c) = Len(d) + 1 => ~Below(d, Front(c))
  BY SMT, <1>1 DEF Below
<1> QED BY <1>2, <1>3, BelowFront DEF Prefix

(* The next name on the way from a directory to what is below it.          *)
LEMMA NextName ==
  ASSUME NEW d \in AllPaths, NEW p \in Paths, Below(d, p)
  PROVE  \E c \in Paths : Front(c) = d /\ Prefix(c, p)
<1> DEFINE n == Len(d) + 1
           c == SubSeq(p, 1, n)
<1>1. /\ d \in Seq(Names) /\ p \in Seq(Names) /\ Len(d) \in Nat /\ Len(p) \in 1 .. MaxDepth
      /\ Len(p) \in Nat /\ Len(d) < Len(p) /\ \A i \in 1 .. Len(d) : d[i] = p[i]
  <2>1. d \in Seq(Names) /\ p \in Seq(Names) /\ Len(d) \in Nat /\ Len(p) \in 1 .. MaxDepth /\ Len(p) \in Nat
    BY SMT, PathIsSeq, Root
  <2>2. Len(d) < Len(p) /\ \A i \in 1 .. Len(d) : d[i] = p[i]
    BY <2>1, PrefixDef
  <2> QED BY <2>1, <2>2
<1>5. c \in Seq(Names) /\ Len(c) = n /\ \A i \in 1 .. n : c[i] = p[i]
  BY SMT, <1>1
<1>6. c \in Paths /\ c \in AllPaths
  <2>1. Len(c) \in 1 .. MaxDepth
    BY SMT, <1>1, <1>5, ScanAssumption
  <2> QED BY <2>1, <1>5, MakePath
<1>7. Prefix(c, p)
  <2>1. Prefix(c, p) <=> Len(c) <= Len(p) /\ \A i \in 1 .. Len(c) : c[i] = p[i]
    BY <1>1, <1>5, PrefixDef
  <2> QED BY SMT, <1>1, <1>5, <2>1
<1>8. Below(d, c)
  <2>1. Below(d, c) <=> Len(d) < Len(c) /\ \A i \in 1 .. Len(d) : d[i] = c[i]
    BY <1>1, <1>5, PrefixDef
  <2> QED BY SMT, <1>1, <1>5, <2>1
<1>9. Front(c) = d
  <2>1. Len(c) = Len(d) + 1
    BY <1>5
  <2> QED BY <2>1, <1>6, <1>8, ChildDef
<1> QED BY <1>6, <1>7, <1>9

-----------------------------------------------------------------------------
(* Induction                                                               *)
Less == {e \in Nat \X Nat : e[1] < e[2]}

LEMMA LeastNat ==
  ASSUME NEW T \in SUBSET Nat, T # {}
  PROVE  \E m \in T : \A k \in T : m <= k
<1>1. IsWellFoundedOn(Less, Nat)
  BY NatLessThanWellFounded DEF OpToRel, Less
<1>2. PICK m \in T : \A y \in T : ~(<<y, m>> \in Less)
  BY <1>1, WFMin
<1>3. ASSUME NEW k \in T, k < m PROVE FALSE
  <2>1. <<k, m>> \in Nat \X Nat
    OBVIOUS
  <2>2. <<k, m>> \in Less
    BY SMT, <2>1, <1>3 DEF Less
  <2> QED BY <2>2, <1>2
<1> QED BY SMT, <1>3

(* Induction up to N, with the values for which a claim holds as a set.    *)
LEMMA StrongInduction ==
  ASSUME NEW N \in Nat, NEW T,
         \A n \in 0 .. N : (\A m \in 0 .. n - 1 : m \in T) => n \in T
  PROVE  \A n \in 0 .. N : n \in T
<1> SUFFICES ASSUME NEW b \in 0 .. N, b \notin T
             PROVE  FALSE
  OBVIOUS
<1> DEFINE U == {n \in 0 .. N : n \notin T}
<1>1. U \in SUBSET Nat /\ U # {}
  BY SMT
<1>2. PICK n \in U : \A k \in U : n <= k
  BY <1>1, LeastNat
<1>3. \A m \in 0 .. n - 1 : m \in T
  BY SMT, <1>2
<1> QED BY <1>2, <1>3

LEMMA Induction ==
  ASSUME NEW N \in Nat, NEW T, 0 \in T,
         \A n \in 0 .. N - 1 : n \in T => n + 1 \in T
  PROVE  \A n \in 0 .. N : n \in T
<1>1. ASSUME NEW n \in 0 .. N, \A m \in 0 .. n - 1 : m \in T
      PROVE  n \in T
  <2>1. CASE n = 0
    BY <2>1
  <2>2. CASE n # 0
    <3>1. n - 1 \in 0 .. N - 1 /\ n - 1 \in 0 .. n - 1 /\ n - 1 + 1 = n
      BY SMT, <2>2
    <3> QED BY <3>1, <1>1
  <2> QED BY <2>1, <2>2
<1> QED BY <1>1, StrongInduction

-----------------------------------------------------------------------------
(* Patterns                                                                *)

(* The positions that the recursion of MatchPattern computes.              *)
RestOf(f, pattern, n) ==
    LET last == LastNames(pattern, n) IN
    IF Stars(last) = {} THEN {} ELSE f[n - FirstStar(last)]

Positions(path, pattern, n, rest) ==
    {i \in DOMAIN path :
        MatchCall(PathFrom(path, i), LastNames(pattern, n), {j \in DOMAIN path : i + j - 1 \in rest})}

IsMatches(f, path, pattern, N) ==
    f = [n \in 0 .. N |-> Positions(path, pattern, n, RestOf(f, pattern, n))]

LEMMA FirstStarDef ==
  ASSUME NEW pattern \in Seq(STRING), Stars(pattern) # {}
  PROVE  /\ FirstStar(pattern) \in 1 .. Len(pattern) /\ pattern[FirstStar(pattern)] = "**"
         /\ \A j \in Stars(pattern) : FirstStar(pattern) <= j
<1>1. Stars(pattern) \in SUBSET Nat
  BY SMT DEF Stars
<1>2. \E i \in Stars(pattern) : \A j \in Stars(pattern) : i <= j
  BY <1>1, LeastNat
<1>3. FirstStar(pattern) \in Stars(pattern) /\ \A j \in Stars(pattern) : FirstStar(pattern) <= j
  BY <1>2 DEF FirstStar
<1> QED BY SMT, <1>3 DEF Stars

LEMMA LastNamesDef ==
  ASSUME NEW pattern \in Seq(STRING), NEW n \in 0 .. Len(pattern)
  PROVE  /\ LastNames(pattern, n) \in Seq(STRING) /\ Len(LastNames(pattern, n)) = n
         /\ \A k \in 1 .. n : LastNames(pattern, n)[k] = pattern[Len(pattern) - n + k]
  BY SMT DEF LastNames

LEMMA RestUses ==
  ASSUME NEW pattern \in Seq(STRING), NEW n \in 0 .. Len(pattern), NEW f, NEW g,
         \A m \in 0 .. n - 1 : f[m] = g[m]
  PROVE  RestOf(f, pattern, n) = RestOf(g, pattern, n)
<1> DEFINE last == LastNames(pattern, n)
<1>1. last \in Seq(STRING) /\ Len(last) = n
  BY LastNamesDef
<1>2. CASE Stars(last) # {}
  <2>1. FirstStar(last) \in 1 .. n
    BY <1>1, <1>2, FirstStarDef
  <2>2. n - FirstStar(last) \in 0 .. n - 1
    BY SMT, <2>1
  <2> QED BY <2>2 DEF RestOf
<1> QED BY <1>2 DEF RestOf

LEMMA MatchesDef ==
  ASSUME NEW path, NEW pattern \in Seq(STRING)
  PROVE  IsMatches(Matches(path, pattern), path, pattern, Len(pattern))
<1> DEFINE L == Len(pattern)
           T == {N \in 0 .. L : \E f : IsMatches(f, path, pattern, N)}
<1>1. L \in Nat
  BY SMT
<1>2. 0 \in T
  <2> DEFINE f == [n \in 0 .. 0 |-> Positions(path, pattern, n, RestOf(<<>>, pattern, n))]
  <2>1. ASSUME NEW n \in 0 .. 0 PROVE RestOf(<<>>, pattern, n) = RestOf(f, pattern, n)
    <3>1. n \in 0 .. Len(pattern) /\ \A m \in 0 .. n - 1 : f[m] = <<>>[m]
      BY SMT, <1>1
    <3> QED BY <3>1, RestUses
  <2>2. IsMatches(f, path, pattern, 0)
    BY <2>1 DEF IsMatches
  <2> QED BY SMT, <2>2, <1>1
<1>3. ASSUME NEW N \in 0 .. L - 1, N \in T PROVE N + 1 \in T
  <2>1. PICK f : IsMatches(f, path, pattern, N)
    BY <1>3
  <2> DEFINE g == [n \in 0 .. N + 1 |-> Positions(path, pattern, n, RestOf(f, pattern, n))]
  <2>2. \A n \in 0 .. N : g[n] = f[n]
    <3>1. \A n \in 0 .. N : n \in 0 .. N + 1
      BY SMT, <1>1
    <3> QED BY <2>1, <3>1 DEF IsMatches
  <2>3. ASSUME NEW n \in 0 .. N + 1 PROVE RestOf(f, pattern, n) = RestOf(g, pattern, n)
    <3>1. n \in 0 .. Len(pattern) /\ \A m \in 0 .. n - 1 : m \in 0 .. N
      BY SMT, <1>1
    <3>2. \A m \in 0 .. n - 1 : f[m] = g[m]
      BY <3>1, <2>2
    <3> QED BY <3>1, <3>2, RestUses
  <2>4. IsMatches(g, path, pattern, N + 1)
    BY <2>3 DEF IsMatches
  <2>5. N + 1 \in 0 .. L
    BY SMT, <1>1
  <2> QED BY <2>4, <2>5
<1>4. L \in T
  <2>1. L \in 0 .. L
    BY SMT, <1>1
  <2> HIDE DEF T
  <2> QED BY <1>1, <1>2, <1>3, <2>1, Induction
<1>5. \E f : IsMatches(f, path, pattern, L)
  BY <1>4
<1> QED BY <1>5 DEF Matches, IsMatches, Positions, RestOf

(* How the names of a pattern after the first m lie in a path, from its    *)
(* i-th name on.                                                           *)
Fits(at, pattern, path, q) ==
    \/ pattern[q] = "**" /\ at[q - 1] <= at[q]
    \/ at[q] = at[q - 1] + 1 /\ pattern[q] \in {"*", path[at[q]]}

Placed(path, pattern, m, i) ==
    \E at \in [m .. Len(pattern) -> i - 1 .. Len(path)] :
        \A q \in m + 1 .. Len(pattern) : Fits(at, pattern, path, q)

LEMMA PlacedLater ==
  ASSUME NEW path \in Seq(Names), NEW pattern \in Seq(STRING), NEW m \in 0 .. Len(pattern),
         NEW i \in Nat, NEW j \in Nat, i <= j, Placed(path, pattern, m, j)
  PROVE  Placed(path, pattern, m, i)
<1>1. PICK at \in [m .. Len(pattern) -> j - 1 .. Len(path)] :
        \A q \in m + 1 .. Len(pattern) : Fits(at, pattern, path, q)
  BY DEF Placed
<1>2. at \in [m .. Len(pattern) -> i - 1 .. Len(path)]
  <2>1. j - 1 .. Len(path) \subseteq i - 1 .. Len(path)
    BY SMT
  <2> QED BY <2>1, <1>1
<1> QED BY <1>1, <1>2 DEF Placed

(* The names up to the e-th lie one after the other, from the b-th of the  *)
(* path on; the pattern ends there, or a "**" and a placing follow.        *)
LEMMA PlaceNames ==
  ASSUME NEW path \in Seq(Names), NEW pattern \in Seq(STRING), NEW m \in 0 .. Len(pattern),
         NEW i \in 1 .. Len(path) + 1, NEW b \in i - 1 .. Len(path),
         NEW e \in m .. Len(pattern), b + e - m <= Len(path),
         \A q \in m + 1 .. e : pattern[q] \in {"*", path[b + q - m]},
         \/ e = Len(pattern)
         \/ e < Len(pattern) /\ pattern[e + 1] = "**" /\ Placed(path, pattern, e + 1, b + e - m + 1)
  PROVE  Placed(path, pattern, m, i)
<1> DEFINE L == Len(pattern)
           D == m .. Len(pattern)
           R == i - 1 .. Len(path)
<1>1. L \in Nat /\ Len(path) \in Nat
  BY SMT
<1>2. CASE e = L
  <2> DEFINE at == [q \in D |-> b + q - m]
  <2>1. at \in [D -> R]
    BY SMT, <1>1, <1>2
  <2>2. ASSUME NEW q \in m + 1 .. L PROVE Fits(at, pattern, path, q)
    <3>1. q \in D /\ q - 1 \in D /\ q \in m + 1 .. e
      BY SMT, <1>1, <1>2
    <3>2. at[q] = b + q - m /\ at[q - 1] = b + (q - 1) - m
      BY <3>1
    <3> HIDE DEF at
    <3>3. at[q] = at[q - 1] + 1
      BY SMT, <3>2
    <3>4. pattern[q] \in {"*", path[at[q]]}
      BY <3>1, <3>2
    <3> QED BY <3>3, <3>4 DEF Fits
  <2> QED BY <2>1, <2>2 DEF Placed
<1>3. CASE e < L /\ pattern[e + 1] = "**" /\ Placed(path, pattern, e + 1, b + e - m + 1)
  <2>1. PICK next \in [e + 1 .. L -> b + e - m + 1 - 1 .. Len(path)] :
          \A q \in e + 1 + 1 .. L : Fits(next, pattern, path, q)
    BY SMT, <1>3, <1>1 DEF Placed
  <2> DEFINE at == [q \in D |-> IF q <= e THEN b + q - m ELSE next[q]]
  <2>2. \A q \in e + 1 .. L : next[q] \in b + e - m .. Len(path)
    <3>1. next \in [e + 1 .. L -> b + e - m + 1 - 1 .. Len(path)] /\ b + e - m + 1 - 1 = b + e - m
      BY SMT, <2>1, <1>1
    <3>2. next \in [e + 1 .. L -> b + e - m .. Len(path)]
      BY <3>1
    <3> QED BY <3>2
  <2>3. at \in [D -> R]
    <3>1. ASSUME NEW q \in D PROVE (IF q <= e THEN b + q - m ELSE next[q]) \in R
      <4>1. CASE q <= e
        BY SMT, <4>1, <1>1, <1>3
      <4>2. CASE ~(q <= e)
        <5>1. q \in e + 1 .. L
          BY SMT, <4>2, <1>1
        <5>2. next[q] \in b + e - m .. Len(path)
          BY <5>1, <2>2
        <5> QED BY SMT, <4>2, <5>2, <1>1
      <4> QED BY <4>1, <4>2
    <3> QED BY <3>1
  <2>4. \A q \in D : /\ q <= e => at[q] = b + q - m
                     /\ ~(q <= e) => at[q] = next[q]
    OBVIOUS
  <2> HIDE DEF at
  <2>5. ASSUME NEW q \in m + 1 .. L PROVE Fits(at, pattern, path, q)
    <3>1. CASE q <= e
      <4>1. q \in D /\ q - 1 \in D /\ q \in m + 1 .. e /\ q - 1 <= e /\ q <= e
        BY SMT, <1>1, <3>1
      <4>2. at[q] = b + q - m /\ at[q - 1] = b + (q - 1) - m
        BY <4>1, <2>4
      <4>3. at[q] = at[q - 1] + 1
        BY SMT, <4>2
      <4>4. pattern[q] \in {"*", path[at[q]]}
        BY <4>1, <4>2
      <4> QED BY <4>3, <4>4 DEF Fits
    <3>2. CASE q = e + 1
      <4>1. q \in D /\ q - 1 \in D /\ q - 1 = e /\ e <= e /\ ~(q <= e) /\ q \in e + 1 .. L
        BY SMT, <1>1, <3>2
      <4>2. at[q] = next[q] /\ at[q - 1] = b + e - m
        BY <4>1, <2>4
      <4>3. at[q - 1] <= at[q]
        BY SMT, <4>1, <4>2, <2>2
      <4> QED BY <4>3, <3>2, <1>3 DEF Fits
    <3>3. CASE q > e + 1
      <4>1. q \in D /\ q - 1 \in D /\ ~(q - 1 <= e) /\ ~(q <= e) /\ q \in e + 1 + 1 .. L
        BY SMT, <1>1, <3>3
      <4>2. at[q] = next[q] /\ at[q - 1] = next[q - 1]
        BY <4>1, <2>4
      <4> QED BY <4>1, <4>2, <2>1 DEF Fits
    <3> QED BY SMT, <3>1, <3>2, <3>3
  <2> QED BY <2>3, <2>5 DEF Placed
<1> QED BY <1>2, <1>3

LEMMA PathFromDef ==
  ASSUME NEW path \in Seq(Names), NEW i \in 1 .. Len(path)
  PROVE  /\ PathFrom(path, i) \in Seq(Names) /\ Len(PathFrom(path, i)) = Len(path) - i + 1
         /\ \A k \in 1 .. Len(path) - i + 1 : PathFrom(path, i)[k] = path[i + k - 1]
  BY SMT DEF PathFrom

LEMMA OccursDef ==
  ASSUME NEW path \in Seq(Names), NEW names \in Seq(STRING), NEW i \in 1 .. Len(path)
  PROVE  OccursAt(i, names, path) <=>
            /\ i + Len(names) - 1 <= Len(path)
            /\ \A k \in 1 .. Len(names) : names[k] = path[i + k - 1]
<1> DEFINE sub == SubSeq(path, i, i + Len(names) - 1)
<1>1. CASE i + Len(names) - 1 <= Len(path)
  <2>1. /\ sub \in Seq(Names) /\ Len(sub) = Len(names)
        /\ \A k \in 1 .. Len(names) : sub[k] = path[i + k - 1]
    BY SMT, <1>1
  <2>2. sub \in Seq(Names \cup STRING) /\ names \in Seq(Names \cup STRING)
    BY SMT, <2>1
  <2> HIDE DEF sub
  <2>3. sub = names <=> \A k \in 1 .. Len(names) : names[k] = path[i + k - 1]
    BY <2>1, <2>2, SeqEqual
  <2> QED BY <1>1, <2>3 DEF OccursAt, sub
<1> QED BY <1>1 DEF OccursAt

LEMMA OneName ==
  ASSUME NEW x
  PROVE  Len(<<x>>) = 1 /\ 1 \in DOMAIN <<x>> /\ <<x>>[1] = x
  BY SMT

LEMMA NotLoose ==
  ASSUME NEW pattern, ~Loose(pattern), NEW i \in 2 .. Len(pattern) - 1, pattern[i] = "**",
         NEW name \in Names, StartsWith(name, pattern[i - 1])
  PROVE  name = pattern[i - 1]
  BY DEF Loose

LEMMA BeginsDef ==
  ASSUME NEW path \in Seq(Names), NEW names \in Seq(STRING), names # <<>>,
         NEW j \in 1 .. Len(path), BeginsAt(j, names, path)
  PROVE  /\ j + Len(names) - 1 <= Len(path)
         /\ \A k \in 1 .. Len(names) - 1 : names[k] = path[j + k - 1]
         /\ StartsWith(path[j + Len(names) - 1], names[Len(names)])
<1> DEFINE e == j + Len(names) - 1
<1>1. e <= Len(path) /\ SubSeq(path, j, e - 1) = SubSeq(names, 1, Len(names) - 1)
  BY DEF BeginsAt, Front
<1>2. StartsWith(path[e], names[Len(names)])
  BY DEF BeginsAt, Last
<1>3. Len(names) \in Nat /\ Len(names) # 0 /\ Len(path) \in Nat
  BY SMT
<1>4. \A k \in 1 .. Len(names) - 1 : /\ SubSeq(path, j, e - 1)[k] = path[j + k - 1]
                                     /\ SubSeq(names, 1, Len(names) - 1)[k] = names[k]
  BY SMT, <1>1, <1>3
<1> QED BY <1>1, <1>2, <1>4

(* One call finds what the pattern speaks of, if the next one does.        *)
LEMMA CallIsSound ==
  ASSUME NEW path \in Seq(Names), NEW pattern \in Seq(STRING), ~Loose(pattern),
         NEW n \in 0 .. Len(pattern), NEW i \in 1 .. Len(path), NEW rest \in SUBSET (1 .. Len(path)),
         MatchCall(PathFrom(path, i), LastNames(pattern, n), {j \in DOMAIN path : i + j - 1 \in rest}),
         Stars(LastNames(pattern, n)) # {} =>
            \A j \in rest :
               Placed(path, pattern, Len(pattern) - (n - FirstStar(LastNames(pattern, n))), j)
  PROVE  Placed(path, pattern, Len(pattern) - n, i)
<1> DEFINE last == LastNames(pattern, n)
           from == PathFrom(path, i)
           m == Len(pattern) - n
           L == Len(pattern)
           first == FirstStar(last)
           prefix == SubSeq(last, 1, first - 1)
           after == {j \in DOMAIN path : i + j - 1 \in rest}
<1> SUFFICES Placed(path, pattern, m, i)
  OBVIOUS
<1>1. L \in Nat /\ Len(path) \in Nat /\ m \in 0 .. L /\ m + n = L /\ DOMAIN path = 1 .. Len(path)
  BY SMT
<1>2. last \in Seq(STRING) /\ Len(last) = n /\ \A k \in 1 .. n : last[k] = pattern[m + k]
  BY LastNamesDef
<1>3. from \in Seq(Names) /\ Len(from) = Len(path) - i + 1 /\ DOMAIN from = 1 .. Len(from)
  BY SMT, PathFromDef
<1>4. \A k \in 1 .. Len(from) : from[k] = path[i + k - 1]
  BY <1>3, PathFromDef
<1>5. MatchCall(from, last, after)
  OBVIOUS
<1>6. Stars(last) # {} => /\ first \in 1 .. n /\ last[first] = "**" /\ pattern[m + first] = "**"
                          /\ \A j \in rest : Placed(path, pattern, m + first, j)
  <2>1. Stars(last) # {} => first \in 1 .. n /\ last[first] = "**"
    BY <1>2, FirstStarDef
  <2>2. Stars(last) # {} => L - (n - first) = m + first
    BY SMT, <2>1, <1>1
  <2> QED BY <2>1, <2>2, <1>2
<1> HIDE DEF last, from, m, L, first
(* Names that lie one after the other in the rest of the path.             *)
<1>7. ASSUME NEW j \in 1 .. Len(from), NEW l \in 0 .. n, j + l - 1 <= Len(from),
             \A k \in 1 .. l : last[k] \in {"*", from[j + k - 1]},
             \/ l = n
             \/ l < n /\ last[l + 1] = "**" /\ Placed(path, pattern, m + l + 1, i + j + l - 1)
      PROVE  Placed(path, pattern, m, i)
  <2> DEFINE b == i + j - 2
             e == m + l
  <2>1. /\ b \in i - 1 .. Len(path) /\ e \in m .. L /\ b + e - m <= Len(path)
        /\ b + e - m + 1 = i + j + l - 1
    BY SMT, <1>1, <1>3, <1>7
  <2>2. ASSUME NEW q \in m + 1 .. e PROVE pattern[q] \in {"*", path[b + q - m]}
    <3>1. q - m \in 1 .. l /\ q - m \in 1 .. n /\ m + (q - m) = q
      BY SMT, <1>1
    <3>2. j + (q - m) - 1 \in 1 .. Len(from) /\ i + (j + (q - m) - 1) - 1 = b + q - m
      BY SMT, <3>1, <1>1, <1>3, <1>7
    <3>3. last[q - m] = pattern[q]
      BY <3>1, <1>2
    <3>4. from[j + (q - m) - 1] = path[b + q - m]
      BY <3>2, <1>4
    <3> QED BY <3>1, <3>3, <3>4, <1>7
  <2>3. \/ e = L
        \/ e < L /\ pattern[e + 1] = "**" /\ Placed(path, pattern, e + 1, b + e - m + 1)
    <3>1. CASE l = n
      BY <3>1, <1>1
    <3>2. CASE l < n /\ last[l + 1] = "**" /\ Placed(path, pattern, m + l + 1, i + j + l - 1)
      <4>1. l + 1 \in 1 .. n /\ m + (l + 1) = e + 1 /\ e < L
        BY SMT, <3>2, <1>1
      <4>2. pattern[e + 1] = "**"
        BY <4>1, <3>2, <1>2
      <4> QED BY <4>1, <4>2, <3>2, <2>1
    <3> QED BY <3>1, <3>2, <1>7
  <2>4. i \in 1 .. Len(path) + 1
    BY SMT, <1>1
  <2> HIDE DEF b, e
  <2> QED BY <1>1, <2>1, <2>2, <2>3, <2>4, PlaceNames DEF L
(* The end of the pattern is placed anywhere.                              *)
<1>8. ASSUME NEW c \in 1 .. Len(path) + 1 PROVE Placed(path, pattern, L, c)
  <2> DEFINE b == c - 1
  <2>1. /\ b \in c - 1 .. Len(path) /\ L \in 0 .. L /\ L \in L .. L /\ b + L - L <= Len(path)
        /\ \A q \in L + 1 .. L : FALSE
    BY SMT, <1>1
  <2> HIDE DEF b
  <2> QED BY <2>1, PlaceNames DEF L
<1>9. ASSUME NEW j \in 1 .. Len(from), OccursAt(j, last, from)
      PROVE  Placed(path, pattern, m, i)
  <2>1. /\ j + n - 1 <= Len(from)
        /\ \A k \in 1 .. n : last[k] = from[j + k - 1]
    BY <1>9, <1>2, <1>3, OccursDef
  <2>2. n \in 0 .. n
    BY SMT
  <2> QED BY <2>1, <2>2, <1>7
<1>10. CASE Stars(last) = {}
  <2>1. CASE \E j \in DOMAIN from : OccursAt(j, last, from)
    BY <2>1, <1>3, <1>9
  <2>2. CASE Glob(last, <<Last(from)>>)
    <3>0. /\ Len(last) = Len(<<from[Len(from)]>>)
          /\ \A x \in DOMAIN <<from[Len(from)]>> : last[x] \in {"*", <<from[Len(from)]>>[x]}
      BY <2>2 DEF Glob, Last
    <3>1. n = 1 /\ last[1] \in {"*", from[Len(from)]}
      BY <3>0, <1>2, OneName
    <3>2. Len(from) \in 1 .. Len(from) /\ 1 \in 0 .. n /\ Len(from) + 1 - 1 <= Len(from)
      BY SMT, <3>1, <1>3, <1>1
    <3>3. \A k \in 1 .. 1 : last[k] \in {"*", from[Len(from) + k - 1]}
      BY SMT, <3>1, <1>3, <1>1
    <3> QED BY <3>1, <3>2, <3>3, <1>7
  <2>3. CASE Glob(last, from)
    <3>1. n = Len(from) /\ \A k \in 1 .. n : last[k] \in {"*", from[k]}
      BY <2>3, <1>2, <1>3 DEF Glob
    <3>2. 1 \in 1 .. Len(from) /\ n \in 0 .. n /\ 1 + n - 1 <= Len(from)
      BY SMT, <3>1, <1>3, <1>1
    <3>3. \A k \in 1 .. n : 1 + k - 1 = k
      BY SMT
    <3> QED BY <3>1, <3>2, <3>3, <1>7
  <2>4. \/ \E j \in DOMAIN from : OccursAt(j, last, from)
        \/ Glob(last, <<Last(from)>>) \/ Glob(last, from)
        \/ last = <<"**">>
    BY <1>5, <1>10 DEF MatchCall
  <2>5. last # <<"**">>
    BY SMT, <1>10 DEF Stars
  <2> QED BY <2>1, <2>2, <2>3, <2>4, <2>5
<1>11. CASE Stars(last) # {} /\ first = 1
  <2>1. last = <<"**">> \/ after # {}
    <3>1. FirstStar(last) = 1 /\ ~(1 > 1)
      BY SMT, <1>11 DEF first
    <3> QED BY <3>1, <1>5, <1>11 DEF MatchCall
  <2>2. 1 \in 1 .. Len(from) /\ 0 \in 0 .. n /\ 1 + 0 - 1 <= Len(from) /\ 0 < n /\ 0 + 1 = 1
    BY SMT, <1>11, <1>6, <1>3, <1>1
  <2>3. last[0 + 1] = "**"
    BY <1>11, <1>6, <2>2
  <2>4. Placed(path, pattern, m + 0 + 1, i + 1 + 0 - 1)
    <3>1. m + 0 + 1 = m + 1 /\ i + 1 + 0 - 1 = i
      BY SMT, <1>1
    <3>2. CASE last = <<"**">>
      <4>1. n = 1 /\ m + 1 = L /\ i \in 1 .. Len(path) + 1
        BY SMT, <3>2, <1>2, <1>1
      <4> QED BY <4>1, <3>1, <1>8
    <3>3. CASE after # {}
      <4>1. PICK j \in 1 .. Len(path) : i + j - 1 \in rest
        BY <3>3, <1>1
      <4>2. Placed(path, pattern, m + 1, i + j - 1)
        BY <4>1, <1>6, <1>11
      <4>3. i <= i + j - 1 /\ i \in Nat /\ i + j - 1 \in Nat /\ m + 1 \in 0 .. L
        BY SMT, <1>1, <1>6, <1>11
      <4> QED BY <4>2, <4>3, <3>1, PlacedLater DEF L
    <3> QED BY <2>1, <3>2, <3>3
  <2>5. \A k \in 1 .. 0 : FALSE
    BY SMT
  <2> QED BY <2>2, <2>3, <2>4, <2>5, <1>7
<1>12. CASE Stars(last) # {} /\ first # 1 /\ Last(last) = "**"
  <2> DEFINE names == Front(last)
  <2>1. last # <<"**">>
    BY SMT, <1>12, <1>6, <1>2
  <2>2. PICK j \in 1 .. Len(from) : OccursAt(j, names, from)
    BY <1>5, <1>12, <2>1, <1>3, <1>6 DEF MatchCall, first
  <2>3. n \in 1 .. n /\ n - 1 \in 0 .. n /\ n - 1 < n /\ (n - 1) + 1 = n
    BY SMT, <1>12, <1>6
  <2>4. names \in Seq(STRING) /\ Len(names) = n - 1 /\ \A k \in 1 .. n - 1 : names[k] = last[k]
    BY SMT, <2>3, <1>2 DEF Front
  <2> HIDE DEF names
  <2>5. j + (n - 1) - 1 <= Len(from) /\ \A k \in 1 .. n - 1 : names[k] = from[j + k - 1]
    <3>1. j + Len(names) - 1 <= Len(from) /\ \A k \in 1 .. Len(names) : names[k] = from[j + k - 1]
      BY <2>2, <2>4, <1>3, OccursDef
    <3> QED BY <3>1, <2>4
  <2>6. last[(n - 1) + 1] = "**"
    BY <1>12, <1>2, <2>3 DEF Last
  <2>7. Placed(path, pattern, m + (n - 1) + 1, i + j + (n - 1) - 1)
    <3>1. m + (n - 1) + 1 = L /\ i + j + (n - 1) - 1 \in 1 .. Len(path) + 1
      BY SMT, <2>3, <2>5, <1>1, <1>3
    <3> QED BY <3>1, <1>8
  <2>8. \A k \in 1 .. n - 1 : last[k] \in {"*", from[j + k - 1]}
    BY <2>4, <2>5
  <2> QED BY <2>3, <2>5, <2>6, <2>7, <2>8, <1>7
<1>13. CASE Stars(last) # {} /\ first # 1 /\ Last(last) # "**"
  <2>1. last # <<"**">>
    BY SMT, <1>13, <1>6, <1>2
  <2>2. PICK k \in 1 .. Len(from) - 1 :
          /\ \/ SubSeq(from, 1, k) = prefix
             \/ \E j \in 2 .. k : BeginsAt(j, prefix, SubSeq(from, 1, k))
          /\ k + 1 \in after
    BY <1>5, <1>13, <2>1 DEF MatchCall, first
  <2>3. /\ first \in 2 .. n - 1 /\ first - 1 \in 0 .. n /\ first - 1 < n /\ (first - 1) + 1 = first
        /\ Len(from) \in Nat /\ m + (first - 1) + 1 = m + first
    <3>1. last[n] # "**" /\ last[first] = "**" /\ first \in 1 .. n /\ first # 1
      BY <1>13, <1>6, <1>2 DEF Last
    <3>2. first # n
      BY <3>1
    <3> QED BY SMT, <3>1, <3>2, <1>1, <1>3
  <2>4. /\ prefix \in Seq(STRING) /\ Len(prefix) = first - 1
        /\ \A x \in 1 .. first - 1 : prefix[x] = last[x]
    BY SMT, <2>3, <1>2
  <2> HIDE DEF prefix
  <2>5. Placed(path, pattern, m + first, i + k)
    <3>1. i + (k + 1) - 1 = i + k
      BY SMT
    <3> QED BY <3>1, <2>2, <1>13, <1>6
  <2>6. /\ SubSeq(from, 1, k) \in Seq(Names) /\ Len(SubSeq(from, 1, k)) = k
        /\ \A x \in 1 .. k : SubSeq(from, 1, k)[x] = from[x]
    BY SMT, <2>3, <1>3
  <2>7. CASE SubSeq(from, 1, k) = prefix
    <3>1. k = first - 1 /\ \A x \in 1 .. first - 1 : last[x] = from[x]
      BY <2>7, <2>6, <2>4
    <3>2. 1 \in 1 .. Len(from) /\ 1 + (first - 1) - 1 <= Len(from) /\ i + 1 + (first - 1) - 1 = i + k
      BY SMT, <3>1, <2>3
    <3>3. \A x \in 1 .. first - 1 : last[x] \in {"*", from[1 + x - 1]}
      BY SMT, <3>1, <2>3
    <3> QED BY <3>2, <3>3, <2>3, <2>5, <1>13, <1>6, <1>7
  <2>8. CASE \E j \in 2 .. k : BeginsAt(j, prefix, SubSeq(from, 1, k))
    <3>1. PICK j \in 2 .. k : BeginsAt(j, prefix, SubSeq(from, 1, k))
      BY <2>8
    <3> DEFINE l == first - 1
               part == SubSeq(from, 1, k)
    <3> HIDE DEF part
    <3>2. /\ j \in 1 .. k /\ prefix # <<>> /\ j \in 1 .. Len(from) /\ l \in 1 .. n
          /\ l \in 1 .. l
      BY SMT, <2>3, <2>4
    <3>3. /\ part \in Seq(Names) /\ Len(part) = k /\ BeginsAt(j, prefix, part)
          /\ \A x \in 1 .. k : part[x] = from[x]
      BY <2>6, <3>1 DEF part
    <3>4. /\ j + l - 1 <= k
          /\ \A x \in 1 .. l - 1 : prefix[x] = part[j + x - 1]
          /\ StartsWith(part[j + l - 1], prefix[l])
      <4>1. j \in 1 .. Len(part) /\ prefix \in Seq(STRING) /\ Len(prefix) = l
        BY <3>2, <3>3, <2>4
      <4>2. /\ j + Len(prefix) - 1 <= Len(part)
            /\ \A x \in 1 .. Len(prefix) - 1 : prefix[x] = part[j + x - 1]
            /\ StartsWith(part[j + Len(prefix) - 1], prefix[Len(prefix)])
        BY <4>1, <3>2, <3>3, BeginsDef
      <4> QED BY <4>1, <4>2, <3>3
    <3>5. /\ m + first \in 2 .. L - 1 /\ (m + first) - 1 = m + l
          /\ j + l - 1 \in 1 .. k /\ j + l - 1 \in 1 .. Len(from)
      BY SMT, <2>3, <3>2, <3>4, <1>1
    <3>6. prefix[l] = pattern[(m + first) - 1]
      BY <3>2, <3>5, <2>4, <1>2
    <3>7. part[j + l - 1] \in Names
      BY SMT, <3>3, <3>5
    <3>8. part[j + l - 1] = prefix[l]
      <4>1. pattern[m + first] = "**" /\ StartsWith(part[j + l - 1], pattern[(m + first) - 1])
        BY <3>4, <3>6, <1>6, <1>13
      <4>2. part[j + l - 1] = pattern[(m + first) - 1]
        <5>1. m + first \in 2 .. Len(pattern) - 1
          BY <3>5 DEF L
        <5> QED BY <5>1, <4>1, <3>7, NotLoose
      <4> QED BY <4>2, <3>6
    <3>9. ASSUME NEW x \in 1 .. l PROVE last[x] \in {"*", from[j + x - 1]}
      <4>1. j + x - 1 \in 1 .. k /\ (x = l \/ x \in 1 .. l - 1)
        BY SMT, <3>2, <3>4, <2>3
      <4>2. prefix[x] = part[j + x - 1]
        BY <4>1, <3>4, <3>8
      <4> QED BY <4>1, <4>2, <3>3, <2>4
    <3>10. Placed(path, pattern, m + l + 1, i + j + l - 1)
      <4>1. /\ m + l + 1 = m + first /\ i + j + l - 1 <= i + k /\ i + j + l - 1 \in Nat
            /\ i + k \in Nat /\ m + first \in 0 .. L
        BY SMT, <2>3, <3>2, <3>4, <3>5, <1>1
      <4> QED BY <4>1, <2>5, PlacedLater DEF L
    <3>11. l \in 0 .. n /\ j + l - 1 <= Len(from) /\ l < n /\ last[l + 1] = "**"
      <4>1. l \in 0 .. n /\ j + l - 1 <= Len(from) /\ l < n /\ l + 1 = first
        BY SMT, <2>3, <3>2, <3>5
      <4> QED BY <4>1, <1>6, <1>13
    <3> QED BY <3>2, <3>9, <3>10, <3>11, <1>7
  <2> QED BY <2>2, <2>7, <2>8
<1> QED BY <1>10, <1>11, <1>12, <1>13

(* What MatchPattern matches the pattern speaks of, or it is loose.        *)
LEMMA MatchIsSound ==
  ASSUME NEW path \in Seq(Names), NEW pattern \in Seq(STRING), MatchPattern(path, pattern)
  PROVE  SaysOf(pattern, path) \/ Loose(pattern)
<1> SUFFICES ASSUME ~Loose(pattern) PROVE SaysOf(pattern, path)
  OBVIOUS
<1> DEFINE f == Matches(path, pattern)
           L == Len(pattern)
           T == {n \in 0 .. L : f[n] \subseteq 1 .. Len(path) /\ \A i \in f[n] : Placed(path, pattern, L - n, i)}
<1>1. L \in Nat /\ L - L = 0 /\ L \in 0 .. L /\ DOMAIN path = 1 .. Len(path)
  BY SMT
<1>2. \A n \in 0 .. L : f[n] = Positions(path, pattern, n, RestOf(f, pattern, n))
  <2>1. IsMatches(f, path, pattern, L)
    BY MatchesDef
  <2> HIDE DEF f, L
  <2> QED BY <2>1 DEF IsMatches
<1> HIDE DEF f
<1>3. ASSUME NEW n \in 0 .. L, \A m \in 0 .. n - 1 : m \in T
      PROVE  n \in T
  <2> DEFINE last == LastNames(pattern, n)
             rest == RestOf(f, pattern, n)
  <2>1. f[n] \subseteq 1 .. Len(path)
    BY <1>1, <1>2 DEF Positions
  <2>2. /\ rest \subseteq 1 .. Len(path)
        /\ Stars(last) # {} => \A j \in rest : Placed(path, pattern, L - (n - FirstStar(last)), j)
    <3>1. CASE Stars(last) # {}
      <4>1. last \in Seq(STRING) /\ Len(last) = n
        BY LastNamesDef
      <4>2. FirstStar(last) \in 1 .. n
        BY <4>1, <3>1, FirstStarDef
      <4>3. n - FirstStar(last) \in 0 .. n - 1
        BY SMT, <4>2
      <4>4. n - FirstStar(last) \in T
        BY <4>3, <1>3
      <4>5. rest = f[n - FirstStar(last)]
        BY <3>1 DEF RestOf
      <4> QED BY <4>4, <4>5
    <3>2. CASE Stars(last) = {}
      <4>1. rest = {}
        BY <3>2 DEF RestOf
      <4> QED BY <4>1, <3>2
    <3> QED BY <3>1, <3>2
  <2>3. ASSUME NEW i \in f[n] PROVE Placed(path, pattern, L - n, i)
    <3>1. i \in 1 .. Len(path) /\ rest \in SUBSET (1 .. Len(path))
      BY <2>1, <2>2
    <3>2. MatchCall(PathFrom(path, i), last, {j \in DOMAIN path : i + j - 1 \in rest})
      BY <1>2 DEF Positions
    <3> HIDE DEF rest
    <3> QED BY <3>1, <3>2, <2>2, CallIsSound
  <2> QED BY <2>1, <2>3
<1>4. L \in T
  <2> HIDE DEF T, L
  <2>1. \A n \in 0 .. L : (\A m \in 0 .. n - 1 : m \in T) => n \in T
    BY <1>3
  <2>2. \A n \in 0 .. L : n \in T
    BY <1>1, <2>1, StrongInduction
  <2> QED BY <1>1, <2>2
<1>5. 1 \in f[L]
  BY DEF MatchPattern, f
<1>6. Placed(path, pattern, 0, 1)
  BY <1>1, <1>4, <1>5
<1>7. PICK at \in [0 .. L -> 1 - 1 .. Len(path)] : \A q \in 0 + 1 .. L : Fits(at, pattern, path, q)
  BY <1>6 DEF Placed
<1>8. DOMAIN pattern = 1 .. L /\ 1 - 1 = 0 /\ 0 + 1 = 1
  BY SMT
<1>9. at \in Placings(pattern, path)
  BY <1>7, <1>8 DEF Placings, Fits
<1> QED BY <1>9 DEF SaysOf

(* A pattern that speaks of a directory speaks of what is below it.        *)
LEMMA SaysOfBelow ==
  ASSUME NEW pattern \in Seq(STRING), NEW d \in AllPaths, NEW p \in AllPaths,
         Prefix(d, p), SaysOf(pattern, d)
  PROVE  SaysOf(pattern, p)
<1>1. /\ d \in Seq(Names) /\ p \in Seq(Names) /\ Len(d) \in Nat /\ Len(p) \in Nat
      /\ DOMAIN pattern = 1 .. Len(pattern) /\ Len(pattern) \in Nat
  BY SMT, PathIsSeq
<1>2. Len(d) <= Len(p) /\ \A i \in 1 .. Len(d) : d[i] = p[i]
  BY <1>1, PrefixDef
<1>3. PICK at : at \in Placings(pattern, d)
  BY DEF SaysOf
<1>4. at \in [0 .. Len(pattern) -> 0 .. Len(d)]
  BY <1>3 DEF Placings
<1>5. at \in [0 .. Len(pattern) -> 0 .. Len(p)]
  <2>1. 0 .. Len(d) \subseteq 0 .. Len(p)
    BY SMT, <1>1, <1>2
  <2> QED BY <2>1, <1>4
<1>6. ASSUME NEW i \in DOMAIN pattern, at[i] = at[i - 1] + 1 /\ pattern[i] \in {"*", d[at[i]]}
      PROVE  pattern[i] \in {"*", p[at[i]]}
  <2>1. i \in 0 .. Len(pattern) /\ i - 1 \in 0 .. Len(pattern)
    BY SMT, <1>1
  <2>2. at[i] \in 0 .. Len(d) /\ at[i - 1] \in 0 .. Len(d)
    BY <2>1, <1>4
  <2>3. at[i] \in 1 .. Len(d)
    BY SMT, <2>2, <1>6, <1>1
  <2> QED BY <2>3, <1>2, <1>6
<1>7. at \in Placings(pattern, p)
  BY <1>3, <1>5, <1>6 DEF Placings
<1> QED BY <1>7 DEF SaysOf

(* A pattern that is a path speaks of it.                                  *)
LEMMA SaysOfItself ==
  ASSUME NEW path \in Seq(Names), NEW pattern \in Seq(STRING),
         pattern = path \/ Below(pattern, path)
  PROVE  SaysOf(pattern, path)
<1>1. Len(pattern) <= Len(path) /\ \A i \in 1 .. Len(pattern) : pattern[i] = path[i]
  <2>1. CASE pattern = path
    BY SMT, <2>1
  <2>2. CASE Below(pattern, path)
    <3>1. Len(pattern) < Len(path) /\ SubSeq(path, 1, Len(pattern)) = pattern
      BY <2>2 DEF Below
    <3> DEFINE sub == SubSeq(path, 1, Len(pattern))
    <3>2. \A i \in 1 .. Len(pattern) : sub[i] = path[i]
      BY SMT, <3>1
    <3> HIDE DEF sub
    <3>3. sub = pattern
      BY <3>1 DEF sub
    <3>4. Len(pattern) <= Len(path)
      BY SMT, <3>1
    <3> QED BY <3>2, <3>3, <3>4
  <2> QED BY <2>1, <2>2
<1>2. /\ Len(pattern) \in Nat /\ Len(path) \in Nat /\ DOMAIN pattern = 1 .. Len(pattern)
      /\ \A i \in 0 .. Len(pattern) : i \in 0 .. Len(path)
      /\ \A i \in 1 .. Len(pattern) :
            i \in 0 .. Len(pattern) /\ i - 1 \in 0 .. Len(pattern) /\ i = (i - 1) + 1
  BY SMT, <1>1
<1> DEFINE at == [i \in 0 .. Len(pattern) |-> i]
<1>3. at \in [0 .. Len(pattern) -> 0 .. Len(path)]
  BY <1>2
<1>4. \A i \in 1 .. Len(pattern) : at[i] = i /\ at[i - 1] = i - 1
  BY <1>2
<1> HIDE DEF at
<1>5. at \in Placings(pattern, path)
  <2>1. ASSUME NEW i \in DOMAIN pattern
        PROVE  at[i] = at[i - 1] + 1 /\ pattern[i] \in {"*", path[at[i]]}
    <3>1. i \in 1 .. Len(pattern) /\ at[i] = i /\ at[i - 1] = i - 1 /\ i = (i - 1) + 1
      BY <1>2, <1>4
    <3> QED BY <3>1, <1>1
  <2> QED BY <2>1, <1>3 DEF Placings
<1> QED BY <1>5 DEF SaysOf

LEMMA Consecutive ==
  ASSUME NEW at, NEW a \in Nat, NEW b \in Nat, a <= b, \A k \in a .. b : at[k] \in Nat,
         \A k \in a + 1 .. b : at[k] = at[k - 1] + 1
  PROVE  \A k \in a .. b : at[k] = at[a] + (k - a)
<1> DEFINE T == {n \in 0 .. b - a : at[a + n] = at[a] + n}
<1>1. b - a \in Nat /\ a \in a .. b
  BY SMT
<1>2. 0 \in T
  <2>1. a + 0 = a /\ at[a] + 0 = at[a] /\ 0 \in 0 .. b - a
    BY SMT, <1>1
  <2> QED BY <2>1
<1>3. ASSUME NEW n \in 0 .. (b - a) - 1, n \in T PROVE n + 1 \in T
  <2>1. /\ a + (n + 1) \in a + 1 .. b /\ (a + (n + 1)) - 1 = a + n /\ n + 1 \in 0 .. b - a
        /\ (at[a] + n) + 1 = at[a] + (n + 1)
    BY SMT, <1>1
  <2>2. at[a + (n + 1)] = at[a + n] + 1
    BY <2>1
  <2>3. at[a + n] = at[a] + n
    BY <1>3
  <2> QED BY <2>1, <2>2, <2>3
<1>4. \A n \in 0 .. b - a : n \in T
  <2> HIDE DEF T
  <2> QED BY <1>1, <1>2, <1>3, Induction
<1>5. ASSUME NEW k \in a .. b PROVE at[k] = at[a] + (k - a)
  <2>1. k - a \in 0 .. b - a /\ a + (k - a) = k
    BY SMT
  <2>2. at[a + (k - a)] = at[a] + (k - a)
    BY <2>1, <1>4
  <2> QED BY <2>1, <2>2
<1> QED BY <1>5

(* Without "**", a pattern matches the path that it is name by name.       *)
LEMMA PlainMatch ==
  ASSUME NEW path \in Seq(Names), path # <<>>, NEW names \in Seq(STRING), Stars(names) = {},
         Len(names) = Len(path), \A k \in 1 .. Len(path) : names[k] \in {"*", path[k]}, NEW after
  PROVE  MatchCall(path, names, after)
<1>1. DOMAIN path = 1 .. Len(path) /\ 1 \in 1 .. Len(path) /\ Len(path) \in Nat /\ DOMAIN names = 1 .. Len(path)
  BY SMT
<1>2. CASE "*" \in Range(names)
  <2>1. Glob(names, path)
    BY <1>1 DEF Glob
  <2> QED BY <2>1, <1>2 DEF MatchCall
<1>3. CASE "*" \notin Range(names)
  <2>1. \A k \in 1 .. Len(path) : names[k] # "*"
    BY <1>3, <1>1 DEF Range
  <2>2. 1 + Len(names) - 1 <= Len(path) /\ \A k \in 1 .. Len(names) : 1 + k - 1 = k
    BY SMT, <1>1
  <2>3. OccursAt(1, names, path)
    <3>1. ASSUME NEW k \in 1 .. Len(names) PROVE names[k] = path[1 + k - 1]
      <4>1. k \in 1 .. Len(path) /\ 1 + k - 1 = k
        BY <2>2
      <4>2. names[k] = path[k]
        BY <4>1, <2>1
      <4> QED BY <4>1, <4>2
    <3> QED BY <3>1, <2>2, <1>1, OccursDef
  <2> QED BY <2>3, <1>1, <1>3 DEF MatchCall
<1> QED BY <1>2, <1>3

(* What a pattern says is matched, unless MatchPattern takes part of it    *)
(* literally.                                                              *)
LEMMA MatchIsComplete ==
  ASSUME NEW path \in Seq(Names), path # <<>>, NEW pattern \in Seq(STRING), pattern # <<>>,
         Says(pattern, path), ~Literal(pattern)
  PROVE  MatchPattern(path, pattern)
<1> DEFINE f == Matches(path, pattern)
           L == Len(pattern)
           P == Len(path)
           Rest(n) == RestOf(f, pattern, n)
           After(n, i) == {j \in DOMAIN path : i + j - 1 \in Rest(n)}
<1>1. /\ L \in Nat /\ P \in Nat /\ L # 0 /\ P # 0 /\ L \in 0 .. L /\ 1 \in 1 .. P
      /\ DOMAIN path = 1 .. P /\ DOMAIN pattern = 1 .. L
  BY SMT
<1>2. PICK at \in Placings(pattern, path) : at[0] = 0 /\ at[L] = P
  BY DEF Says
<1>3. /\ at \in [0 .. L -> 0 .. P]
      /\ \A k \in 1 .. L : Fits(at, pattern, path, k)
  BY <1>2, <1>1 DEF Placings, Fits
<1>4. \A n \in 0 .. L : \A i \in 1 .. P :
        MatchCall(PathFrom(path, i), LastNames(pattern, n), After(n, i)) => i \in f[n]
  <2>1. IsMatches(f, path, pattern, L)
    BY MatchesDef
  <2>2. \A n \in 0 .. L : f[n] = Positions(path, pattern, n, Rest(n))
    <3> HIDE DEF f, L
    <3> QED BY <2>1 DEF IsMatches, Rest
  <2> QED BY <2>2, <1>1 DEF Positions
<1>5. LastNames(pattern, L) = pattern /\ PathFrom(path, 1) = path
  BY SMT, <1>1 DEF LastNames, PathFrom
<1> SUFFICES MatchCall(path, pattern, After(L, 1))
  BY <1>1, <1>4, <1>5 DEF MatchPattern
<1> HIDE DEF f, L, P, After, Rest
<1>6. \A k \in 0 .. L : at[k] \in Nat /\ at[k] <= P
  BY SMT, <1>1, <1>3
<1>7. CASE Stars(pattern) = {}
  <2>1. \A k \in 1 .. L : pattern[k] # "**"
    BY <1>7, <1>1 DEF Stars
  <2>2. \A k \in 1 .. L : at[k] = at[k - 1] + 1 /\ pattern[k] \in {"*", path[at[k]]}
    BY <2>1, <1>3 DEF Fits
  <2>3. \A k \in 0 .. L : at[k] = at[0] + (k - 0)
    <3>1. 0 \in Nat /\ 0 <= L /\ 0 + 1 = 1
      BY SMT, <1>1
    <3>2. \A k \in 0 + 1 .. L : at[k] = at[k - 1] + 1
      BY <3>1, <2>2
    <3>3. \A k \in 0 .. L : at[k] \in Nat
      BY <1>6
    <3> QED BY <3>1, <3>2, <3>3, <1>1, Consecutive
  <2>4. L = P /\ \A k \in 1 .. L : at[k] = k
    <3>1. \A k \in 0 .. L : 0 + (k - 0) = k
      BY SMT
    <3>2. \A k \in 1 .. L : k \in 0 .. L
      BY SMT
    <3> QED BY <2>3, <3>1, <3>2, <1>2, <1>1
  <2>5. \A k \in 1 .. Len(path) : pattern[k] \in {"*", path[k]}
    BY <2>2, <2>4 DEF P
  <2> QED BY <2>4, <2>5, <1>7, PlainMatch DEF L, P
<1>8. CASE Stars(pattern) # {}
  <2> DEFINE s == FirstStar(pattern)
             n == L - s
             tail == LastNames(pattern, n)
  <2>1. s \in 1 .. L /\ pattern[s] = "**" /\ \A j \in Stars(pattern) : s <= j
    BY <1>8, FirstStarDef DEF L
  <2> HIDE DEF s
  <2>2. n \in 0 .. L /\ n \in Nat /\ L - n = s /\ s \in 0 .. L /\ s \in Nat
    BY SMT, <2>1, <1>1
  <2>3. ASSUME NEW k \in 1 .. L, k # s PROVE pattern[k] # "**"
    <3>1. CASE k < s
      <4>1. ~(s <= k)
        BY SMT, <3>1, <2>1, <1>1
      <4> QED BY <4>1, <2>1, <1>1 DEF Stars
    <3>2. CASE s < k
      BY <3>2, <2>1, <1>1 DEF Literal
    <3> QED BY SMT, <2>3, <3>1, <3>2, <2>1
  <2>4. ASSUME NEW k \in 1 .. L, k < s PROVE pattern[k] # "*"
    BY <2>4, <2>1, <1>1 DEF Literal
  <2>5. \A k \in 1 .. L : k # s => at[k] = at[k - 1] + 1 /\ pattern[k] \in {"*", path[at[k]]}
    BY <2>3, <1>3 DEF Fits
  <2>6. \A k \in 1 .. L : k < s => at[k] = k /\ pattern[k] = path[k]
    <3>1. \A k \in 0 .. s - 1 : at[k] = at[0] + (k - 0)
      <4>1. /\ 0 \in Nat /\ 0 <= s - 1 /\ 0 + 1 = 1 /\ s - 1 \in Nat
            /\ \A k \in 0 .. s - 1 : k \in 0 .. L
            /\ \A k \in 1 .. s - 1 : k \in 1 .. L /\ k # s
        BY SMT, <2>1, <1>1
      <4>2. \A k \in 0 + 1 .. s - 1 : at[k] = at[k - 1] + 1
        BY <4>1, <2>5
      <4>3. \A k \in 0 .. s - 1 : at[k] \in Nat
        BY <4>1, <1>6
      <4> QED BY <4>1, <4>2, <4>3, Consecutive
    <3>2. \A k \in 1 .. L : k < s => k \in 0 .. s - 1 /\ 0 + (k - 0) = k /\ k # s
      BY SMT, <2>1, <1>1
    <3>3. \A k \in 1 .. L : k < s => at[k] = k
      BY <3>1, <3>2, <1>2
    <3> QED BY <3>2, <3>3, <2>4, <2>5
  <2>7. \A k \in s .. L : at[k] = at[s] + (k - s)
    <3>1. /\ s <= L
          /\ \A k \in s .. L : k \in 0 .. L
          /\ \A k \in s + 1 .. L : k \in 1 .. L /\ k # s
      BY SMT, <2>1, <1>1
    <3>2. \A k \in s + 1 .. L : at[k] = at[k - 1] + 1
      BY <3>1, <2>5
    <3>3. \A k \in s .. L : at[k] \in Nat
      BY <3>1, <1>6
    <3> QED BY <3>1, <3>2, <3>3, <2>2, <1>1, Consecutive
  <2>8. at[s] = P - n /\ s - 1 <= at[s] /\ at[s] \in 0 .. P
    <3>1. at[L] = at[s] + (L - s)
      BY SMT, <2>1, <2>7, <1>1
    <3>2. at[s] \in Nat
      BY <1>6, <2>2
    <3>3. at[s - 1] = s - 1
      <4>1. s = 1 \/ (s - 1 \in 1 .. L /\ s - 1 < s)
        BY SMT, <2>1, <1>1
      <4>2. s = 1 => s - 1 = 0
        BY SMT
      <4> QED BY <4>1, <4>2, <2>6, <1>2
    <3>4. at[s - 1] <= at[s] \/ at[s] = at[s - 1] + 1
      BY <2>1, <1>3 DEF Fits
    <3> QED BY SMT, <3>1, <3>2, <3>3, <3>4, <1>2, <1>1, <2>2
  <2>9. /\ tail \in Seq(STRING) /\ Len(tail) = n
        /\ \A k \in 1 .. n : tail[k] = pattern[s + k]
    BY <2>2, LastNamesDef DEF L
  <2> HIDE DEF tail
  <2>10. Stars(tail) = {}
    <3>1. \A k \in 1 .. n : s + k \in 1 .. L /\ s + k # s
      BY SMT, <2>1, <2>2, <1>1
    <3>2. DOMAIN tail = 1 .. n
      BY SMT, <2>9
    <3> QED BY <3>1, <3>2, <2>3, <2>9 DEF Stars
  <2>11. ASSUME NEW k \in 1 .. n PROVE tail[k] \in {"*", path[at[s] + k]}
    <3>1. s + k \in 1 .. L /\ s + k # s /\ s + k \in s .. L /\ at[s] + ((s + k) - s) = at[s] + k
      BY SMT, <2>1, <2>2, <2>8, <1>1
    <3> QED BY <3>1, <2>5, <2>7, <2>9
  <2>12. Rest(L) = f[n]
    BY <1>5, <1>8 DEF RestOf, Rest, n, s
  <2> HIDE DEF n
  <2>13. CASE pattern = <<"**">>
    BY <2>13 DEF MatchCall
  <2>14. CASE s = 1 /\ pattern # <<"**">>
    <3> DEFINE j == at[s] + 1
    <3>1. n \in 1 .. L
      <4>1. L # 1
        <5> SUFFICES ASSUME L = 1 PROVE FALSE
          OBVIOUS
        <5>1. pattern[1] = "**" /\ Len(pattern) = 1
          BY <2>1, <2>14 DEF L
        <5> QED BY SMT, <5>1, <2>14
      <4> QED BY SMT, <4>1, <2>14, <2>2, <1>1
    <3>2. j \in 1 .. P /\ P - j + 1 = n /\ n # 0
      BY SMT, <3>1, <2>8, <2>2, <1>1
    <3>3. /\ PathFrom(path, j) \in Seq(Names) /\ Len(PathFrom(path, j)) = n
          /\ \A k \in 1 .. n : PathFrom(path, j)[k] = path[j + k - 1]
      BY <3>2, PathFromDef DEF P
    <3>4. \A k \in 1 .. n : tail[k] \in {"*", PathFrom(path, j)[k]}
      <4>1. \A k \in 1 .. n : j + k - 1 = at[s] + k
        BY SMT, <2>8, <2>2, <1>1
      <4> QED BY <4>1, <3>3, <2>11
    <3>5. PathFrom(path, j) # <<>>
      BY SMT, <3>2, <3>3
    <3>6. MatchCall(PathFrom(path, j), tail, After(n, j))
      BY <3>3, <3>4, <3>5, <2>9, <2>10, PlainMatch
    <3>7. j \in f[n]
      BY <3>2, <3>6, <2>2, <1>4 DEF tail
    <3>8. j \in After(L, 1)
      <4>1. 1 + j - 1 = j
        BY SMT, <3>2
      <4> QED BY <4>1, <3>2, <3>7, <2>12, <1>1 DEF After
    <3> QED BY <3>8, <2>14, <1>8 DEF MatchCall, s
  <2>15. CASE s > 1 /\ s = L
    <3> DEFINE names == Front(pattern)
    <3>1. names \in Seq(STRING) /\ Len(names) = L - 1 /\ \A k \in 1 .. L - 1 : names[k] = pattern[k]
      BY SMT, <2>15, <1>1 DEF Front, L
    <3>2. \A k \in 1 .. L - 1 : k \in 1 .. L /\ k < s /\ 1 + k - 1 = k
      BY SMT, <2>15, <1>1
    <3>3. 1 + (L - 1) - 1 <= P
      BY SMT, <2>15, <2>8, <1>1
    <3> HIDE DEF names
    <3>4. OccursAt(1, names, path)
      <4>1. \A k \in 1 .. L - 1 : names[k] = path[1 + k - 1]
        BY <3>1, <3>2, <2>6
      <4> QED BY <4>1, <3>1, <3>3, <1>1, OccursDef DEF P
    <3>5. Last(pattern) = "**"
      BY <2>15, <2>1 DEF Last, L
    <3> QED BY <3>4, <3>5, <2>15, <1>1, <1>8 DEF MatchCall, s, names
  <2>16. CASE s > 1 /\ s # L
    <3> DEFINE i == s - 1
               prefix == SubSeq(pattern, 1, i)
               from == PathFrom(path, s)
    <3>1. /\ i \in 1 .. P - 1 /\ i + 1 = s /\ s \in 1 .. P /\ n \in 1 .. L /\ s + 1 \in 1 .. L
          /\ s < L /\ i < L
      BY SMT, <2>16, <2>1, <2>2, <2>8, <1>1
    <3>2. SubSeq(path, 1, i) = prefix
      <4>1. /\ SubSeq(path, 1, i) \in Seq(Names) /\ Len(SubSeq(path, 1, i)) = i
            /\ \A k \in 1 .. i : SubSeq(path, 1, i)[k] = path[k]
        BY SMT, <3>1 DEF P
      <4>2. /\ prefix \in Seq(STRING) /\ Len(prefix) = i
            /\ \A k \in 1 .. i : prefix[k] = pattern[k]
        BY SMT, <3>1 DEF L
      <4>3. \A k \in 1 .. i : k \in 1 .. L /\ k < s
        BY SMT, <3>1, <2>2, <1>1
      <4>4. \A k \in 1 .. i : SubSeq(path, 1, i)[k] = prefix[k]
        BY <4>1, <4>2, <4>3, <2>6
      <4>5. SubSeq(path, 1, i) \in Seq(Names \cup STRING) /\ prefix \in Seq(Names \cup STRING)
        BY SMT, <4>1, <4>2
      <4> HIDE DEF prefix, i
      <4> QED BY <4>1, <4>2, <4>4, <4>5, SeqEqual
    <3>3. /\ from \in Seq(Names) /\ Len(from) = P - s + 1 /\ from # <<>>
          /\ \A k \in 1 .. P - s + 1 : from[k] = path[s + k - 1]
      <4>1. /\ from \in Seq(Names) /\ Len(from) = P - s + 1
            /\ \A k \in 1 .. P - s + 1 : from[k] = path[s + k - 1]
        BY <3>1, PathFromDef DEF P
      <4> HIDE DEF from
      <4>2. from # <<>>
        BY SMT, <4>1, <3>1, <1>1
      <4> QED BY <4>1, <4>2
    <3> HIDE DEF from
    <3>4. DOMAIN tail = 1 .. n /\ DOMAIN from = 1 .. P - s + 1
      BY SMT, <2>9, <3>3
    <3>5. MatchCall(from, tail, After(n, s))
      <4>1. CASE "*" \in Range(tail)
        <5>1. PICK k \in 1 .. n : tail[k] = "*"
          BY <4>1, <3>4 DEF Range
        <5>2. pattern[s + k] = "*"
          BY <5>1, <2>9
        <5>3. s + k \in 1 .. L /\ s < s + k
          BY SMT, <2>1, <2>2, <1>1
        <5>4. ~(s + 1 < L)
          <6>1. 1 < s /\ s \in DOMAIN pattern /\ s + k \in DOMAIN pattern
            BY SMT, <2>16, <2>1, <5>3, <1>1
          <6> QED BY <6>1, <5>2, <5>3, <2>1 DEF Literal, L
        <5>5. n = 1 /\ k = 1
          BY SMT, <5>4, <3>1, <2>2, <1>1
        <5>6. Glob(tail, <<Last(from)>>)
          <6>1. DOMAIN <<Last(from)>> = {1} /\ Len(<<Last(from)>>) = 1
            BY SMT
          <6> QED BY <6>1, <5>5, <5>1, <2>9 DEF Glob
        <5> QED BY <5>6, <4>1, <2>10 DEF MatchCall
      <4>2. CASE "*" \notin Range(tail)
        <5> DEFINE x == at[s] - i + 1
        <5>1. /\ x \in 1 .. P - s + 1 /\ x + n - 1 <= P - s + 1
              /\ \A k \in 1 .. n : x + k - 1 \in 1 .. P - s + 1 /\ s + (x + k - 1) - 1 = at[s] + k
          BY SMT, <3>1, <2>8, <2>2, <1>1
        <5>2. ASSUME NEW k \in 1 .. n PROVE tail[k] = from[x + k - 1]
          <6>1. tail[k] # "*"
            BY <4>2, <3>4 DEF Range
          <6>2. from[x + k - 1] = path[at[s] + k]
            BY <5>1, <3>3
          <6> QED BY <6>1, <6>2, <2>11
        <5> HIDE DEF x
        <5>3. OccursAt(x, tail, from)
          BY <5>1, <5>2, <3>3, <2>9, OccursDef
        <5> QED BY <5>3, <5>1, <3>4, <4>2, <2>10 DEF MatchCall
      <4> QED BY <4>1, <4>2
    <3>6. s \in f[n]
      BY <3>1, <3>5, <2>2, <1>4 DEF tail, from
    <3>7. i + 1 \in After(L, 1)
      <4>1. 1 + s - 1 = s
        BY SMT, <2>2
      <4> QED BY <4>1, <3>1, <3>6, <2>12, <1>1 DEF After
    <3>8. Last(pattern) # "**"
      <4>1. L \in 1 .. L
        BY SMT, <1>1
      <4> QED BY <4>1, <2>16, <2>3 DEF Last, L
    <3> HIDE DEF prefix
    <3> QED BY <3>1, <3>2, <3>7, <3>8, <2>16, <1>8 DEF MatchCall, s, prefix, P
  <2> QED BY SMT, <2>1, <2>13, <2>14, <2>15, <2>16, <1>1
<1> QED BY <1>7, <1>8

-----------------------------------------------------------------------------
(* What a directory holds                                                  *)

LEMMA AppendDef ==
  ASSUME NEW d \in AllPaths, NEW name \in Names
  PROVE  Front(Append(d, name)) = d /\ Last(Append(d, name)) = name
<1>1. d \in Seq(Names)
  BY PathIsSeq
<1> QED BY SMT, <1>1 DEF Front, Last

LEMMA FrontAndLast ==
  ASSUME NEW p \in Paths
  PROVE  Append(Front(p), Last(p)) = p
<1>1. /\ p \in Seq(Names) /\ Front(p) \in Seq(Names) /\ Last(p) \in Names
      /\ Len(Front(p)) = Len(p) - 1 /\ \A i \in 1 .. Len(p) - 1 : Front(p)[i] = p[i]
      /\ Last(p) = p[Len(p)] /\ Len(p) \in Nat
  BY SMT, PathIsSeq, Root, FrontDef
<1>2. /\ Append(Front(p), Last(p)) \in Seq(Names) /\ Len(Append(Front(p), Last(p))) = Len(p)
      /\ \A i \in 1 .. Len(p) : Append(Front(p), Last(p))[i] = p[i]
  BY SMT, <1>1
<1> QED BY <1>1, <1>2, SeqEqual

LEMMA AppendOnce ==
  ASSUME NEW S, NEW s \in Seq(S), NEW x \in S
  PROVE  /\ Append(s, x) \in Seq(S) /\ Range(Append(s, x)) = Range(s) \cup {x}
         /\ IsInjective(s) /\ x \notin Range(s) => IsInjective(Append(s, x))
<1>1. /\ Append(s, x) \in Seq(S) /\ DOMAIN s = 1 .. Len(s) /\ Len(s) \in Nat
      /\ DOMAIN Append(s, x) = 1 .. Len(s) + 1
      /\ \A i \in 1 .. Len(s) : Append(s, x)[i] = s[i]
      /\ Append(s, x)[Len(s) + 1] = x
      /\ \A i \in 1 .. Len(s) + 1 : i \in 1 .. Len(s) \/ i = Len(s) + 1
      /\ \A i \in 1 .. Len(s) : i \in 1 .. Len(s) + 1
      /\ Len(s) + 1 \in 1 .. Len(s) + 1
  BY SMT
<1>2. Range(Append(s, x)) = Range(s) \cup {x}
  BY <1>1 DEF Range
<1>3. IsInjective(s) /\ x \notin Range(s) => IsInjective(Append(s, x))
  BY <1>1 DEF Range, IsInjective
<1> QED BY <1>1, <1>2, <1>3

EmptySeq(S) == <<>> \in Seq(S) /\ IsInjective(<<>>) /\ Range(<<>>) = {}

LEMMA EmptySeqDef ==
  ASSUME NEW S
  PROVE  EmptySeq(S)
  BY SMT DEF EmptySeq, IsInjective, Range

IsChildren(f, path, N) ==
    f = [i \in 0 .. N |->
           IF i = 0 THEN <<>>
           ELSE LET child == Append(path, SortedNames[i]) IN
                IF child \in DOMAIN tree THEN Append(f[i - 1], child) ELSE f[i - 1]]

LEMMA ChildrenRec ==
  ASSUME NEW path
  PROVE  \E f : IsChildren(f, path, Len(SortedNames)) /\ Children(path) = f[Len(SortedNames)]
<1> DEFINE L == Len(SortedNames)
           T == {N \in 0 .. L : \E f : IsChildren(f, path, N)}
<1>1. L \in Nat /\ L \in 0 .. L /\ 0 \in 0 .. L
  BY SMT, ScanAssumption
<1>2. 0 \in T
  <2> DEFINE f == [i \in 0 .. 0 |-> <<>>]
  <2>1. \A i \in 0 .. 0 : i = 0
    BY SMT
  <2>2. IsChildren(f, path, 0)
    BY <2>1 DEF IsChildren
  <2> QED BY <2>2, <1>1
<1>3. ASSUME NEW N \in 0 .. L - 1, N \in T PROVE N + 1 \in T
  <2>1. PICK f : IsChildren(f, path, N)
    BY <1>3
  <2> DEFINE g == [i \in 0 .. N + 1 |->
                     IF i = 0 THEN <<>>
                     ELSE LET child == Append(path, SortedNames[i]) IN
                          IF child \in DOMAIN tree THEN Append(f[i - 1], child) ELSE f[i - 1]]
  <2>2. /\ \A i \in 0 .. N : i \in 0 .. N + 1
        /\ \A i \in 0 .. N + 1 : i = 0 \/ i - 1 \in 0 .. N
        /\ N + 1 \in 0 .. L
    BY SMT, <1>1
  <2>3. \A i \in 0 .. N : g[i] = f[i]
    BY <2>1, <2>2 DEF IsChildren
  <2>4. IsChildren(g, path, N + 1)
    BY <2>2, <2>3 DEF IsChildren
  <2> QED BY <2>2, <2>4
<1>4. L \in T
  <2> HIDE DEF T, L
  <2> QED BY <1>1, <1>2, <1>3, Induction
<1> DEFINE c == CHOOSE f : IsChildren(f, path, L)
<1>5. IsChildren(c, path, L)
  BY <1>4
<1>6. Children(path) = c[L]
  BY DEF Children, IsChildren
<1> QED BY <1>5, <1>6

LEMMA ChildrenDef ==
  ASSUME NEW path \in AllPaths, DOMAIN tree \subseteq Paths
  PROVE  /\ Children(path) \in Seq(DOMAIN tree) /\ IsInjective(Children(path))
         /\ Range(Children(path)) = {c \in DOMAIN tree : Front(c) = path}
<1> DEFINE L == Len(SortedNames)
           Held(i) == {c \in DOMAIN tree : \E k \in 1 .. i : c = Append(path, SortedNames[k])}
           Good(s, i) == s \in Seq(DOMAIN tree) /\ IsInjective(s) /\ Range(s) = Held(i)
<1>1. /\ L \in Nat /\ L \in 0 .. L /\ DOMAIN SortedNames = 1 .. L
      /\ \A k \in 1 .. L : SortedNames[k] \in Names
      /\ \A j, k \in 1 .. L : SortedNames[j] = SortedNames[k] => j = k
  BY SMT, ScanAssumption DEF IsInjective, Names
<1>2. PICK f : IsChildren(f, path, L) /\ Children(path) = f[L]
  BY ChildrenRec
<1> DEFINE T == {i \in 0 .. L : Good(f[i], i)}
<1>3. \A i \in 0 .. L : f[i] = IF i = 0 THEN <<>>
                               ELSE IF Append(path, SortedNames[i]) \in DOMAIN tree
                                    THEN Append(f[i - 1], Append(path, SortedNames[i]))
                                    ELSE f[i - 1]
  BY <1>2 DEF IsChildren
<1>4. 0 \in T
  <2>1. 0 \in 0 .. L /\ \A k \in 1 .. 0 : FALSE
    BY SMT, <1>1
  <2>2. f[0] = <<>>
    BY <1>3, <2>1
  <2>3. EmptySeq(DOMAIN tree)
    BY EmptySeqDef
  <2>4. Held(0) = {}
    BY <2>1
  <2> QED BY <2>1, <2>2, <2>3, <2>4 DEF EmptySeq
<1>5. ASSUME NEW n \in 0 .. L - 1, n \in T PROVE n + 1 \in T
  <2> DEFINE child == Append(path, SortedNames[n + 1])
  <2>1. /\ n + 1 \in 0 .. L /\ n + 1 # 0 /\ (n + 1) - 1 = n /\ n + 1 \in 1 .. L
        /\ \A k \in 1 .. n : k \in 1 .. L /\ k # n + 1 /\ k \in 1 .. n + 1
        /\ \A k \in 1 .. n + 1 : k \in 1 .. n \/ k = n + 1
        /\ n + 1 \in 1 .. n + 1
    BY SMT, <1>1
  <2>2. f[n + 1] = IF child \in DOMAIN tree THEN Append(f[n], child) ELSE f[n]
    BY <1>3, <2>1
  <2>3. f[n] \in Seq(DOMAIN tree) /\ IsInjective(f[n]) /\ Range(f[n]) = Held(n)
    BY <1>5
  <2>4. child \notin Held(n)
    <3>1. ASSUME NEW k \in 1 .. n, child = Append(path, SortedNames[k]) PROVE FALSE
      <4>1. Last(child) = SortedNames[n + 1] /\ Last(child) = SortedNames[k]
        BY <3>1, <2>1, <1>1, AppendDef
      <4> QED BY <4>1, <2>1, <1>1
    <3> QED BY <3>1
  <2>5. CASE child \in DOMAIN tree
    <3>1. Held(n + 1) = Held(n) \cup {child}
      BY <2>1, <2>5
    <3> HIDE DEF child, Held
    <3>2. f[n + 1] = Append(f[n], child)
      BY <2>2, <2>5
    <3>3. /\ Append(f[n], child) \in Seq(DOMAIN tree) /\ IsInjective(Append(f[n], child))
          /\ Range(Append(f[n], child)) = Range(f[n]) \cup {child}
      <4>1. child \notin Range(f[n])
        BY <2>3, <2>4
      <4>2. f[n] \in Seq(DOMAIN tree) /\ IsInjective(f[n])
        BY <2>3
      <4>3. /\ Append(f[n], child) \in Seq(DOMAIN tree)
            /\ Range(Append(f[n], child)) = Range(f[n]) \cup {child}
        BY SMT, <4>2, <2>5, AppendOnce
      <4>4. IsInjective(Append(f[n], child))
        BY <4>1, <4>2, <2>5, AppendOnce
      <4> QED BY <4>3, <4>4
    <3> QED BY <3>1, <3>2, <3>3, <2>1, <2>3
  <2>6. CASE child \notin DOMAIN tree
    <3>1. Held(n + 1) = Held(n)
      BY <2>1, <2>6
    <3> HIDE DEF child, Held
    <3> QED BY <3>1, <2>1, <2>2, <2>3, <2>6
  <2> QED BY <2>5, <2>6
<1>6. L \in T
  <2> HIDE DEF T, L
  <2> QED BY <1>1, <1>4, <1>5, Induction
<1>7. Held(L) = {c \in DOMAIN tree : Front(c) = path}
  <2>1. ASSUME NEW c \in Held(L) PROVE c \in DOMAIN tree /\ Front(c) = path
    BY <1>1, AppendDef
  <2>2. ASSUME NEW c \in DOMAIN tree, Front(c) = path PROVE c \in Held(L)
    <3>1. c \in Paths
      BY <2>2
    <3>2. Last(c) \in Names /\ c = Append(path, Last(c))
      BY <3>1, <2>2, FrontDef, FrontAndLast
    <3>3. PICK k \in 1 .. L : Last(c) = SortedNames[k]
      BY <3>2, <1>1 DEF Names, Range
    <3> QED BY <3>2, <3>3
  <2> QED BY <2>1, <2>2
<1> QED BY <1>2, <1>6, <1>7

-----------------------------------------------------------------------------
(* The directories of a manifest                                           *)

Empty == [files |-> <<>>, subdirs |-> <<>>]
HasEntries(ds) == \A d \in DOMAIN ds : ds[d] \in Entry /\ IsInjective(ds[d].subdirs)

LEMMA DirOfDef ==
  ASSUME NEW ds, HasEntries(ds), NEW d
  PROVE  /\ DirOf(ds, d) \in Entry /\ IsInjective(DirOf(ds, d).subdirs)
         /\ d \in DOMAIN ds => DirOf(ds, d) = ds[d]
         /\ d \notin DOMAIN ds => /\ DirOf(ds, d) = Empty
                                  /\ Range(DirOf(ds, d).subdirs) = {}
                                  /\ Range(DirOf(ds, d).files) = {} /\ IsInjective(DirOf(ds, d).files)
<1>1. EmptySeq(Names)
  BY EmptySeqDef
<1>2. Empty \in Entry /\ Empty.files = <<>> /\ Empty.subdirs = <<>>
  BY SMT, <1>1 DEF EmptySeq, Empty, Entry
<1>3. DirOf(ds, d) = IF d \in DOMAIN ds THEN ds[d] ELSE Empty
  BY DEF DirOf, Empty
<1> QED BY <1>1, <1>2, <1>3 DEF EmptySeq, HasEntries

LEMMA EntryDef ==
  ASSUME NEW d \in Entry
  PROVE  d.files \in Seq(Names) /\ d.subdirs \in Seq(Names)
  BY SMT DEF Entry

LEMMA EntryWith ==
  ASSUME NEW d \in Entry, NEW s \in Seq(Names)
  PROVE  /\ [d EXCEPT !.subdirs = s] \in Entry /\ [d EXCEPT !.files = s] \in Entry
         /\ [d EXCEPT !.subdirs = s].files = d.files /\ [d EXCEPT !.subdirs = s].subdirs = s
         /\ [d EXCEPT !.files = s].files = s /\ [d EXCEPT !.files = s].subdirs = d.subdirs
         /\ d.files \in Seq(Names) /\ d.subdirs \in Seq(Names)
<1> DEFINE S == Seq(Names)
<1>1. s \in S /\ d \in [files : S, subdirs : S]
  BY DEF Entry
<1> HIDE DEF S
<1>2. /\ [d EXCEPT !.subdirs = s] \in [files : S, subdirs : S]
      /\ [d EXCEPT !.files = s] \in [files : S, subdirs : S]
      /\ [d EXCEPT !.subdirs = s].files = d.files /\ [d EXCEPT !.subdirs = s].subdirs = s
      /\ [d EXCEPT !.files = s].files = s /\ [d EXCEPT !.files = s].subdirs = d.subdirs
      /\ d.files \in S /\ d.subdirs \in S
  BY SMT, <1>1
<1> QED BY <1>2 DEF Entry, S

LEMMA WithDef ==
  ASSUME NEW f, NEW x, NEW v
  PROVE  /\ DOMAIN With(f, x, v) = DOMAIN f \cup {x} /\ With(f, x, v)[x] = v
         /\ \A y \in DOMAIN f : y # x => With(f, x, v)[y] = f[y]
  BY SMT DEF With

(* The directories on the way to p of less than i names.                   *)
On(p, i) == {q \in AllPaths : Below(q, p) /\ Len(q) < i}

(* What the first i rounds of ensureParentDirs make of ds.                 *)
Grown(r, ds, p, i) ==
    /\ DOMAIN r = DOMAIN ds \cup On(p, i)
    /\ HasEntries(r)
    /\ \A d \in DOMAIN r :
          /\ r[d].files = DirOf(ds, d).files
          /\ \A x \in Names : x \in Range(r[d].subdirs) <=>
                \/ x \in Range(DirOf(ds, d).subdirs)
                \/ d \in On(p, i) /\ x = p[Len(d) + 1]

LEMMA OnDef ==
  ASSUME NEW p \in AllPaths, NEW i \in 1 .. Len(p)
  PROVE  /\ SubSeq(p, 1, i - 1) \in AllPaths /\ Len(SubSeq(p, 1, i - 1)) = i - 1
         /\ On(p, i) = On(p, i - 1) \cup {SubSeq(p, 1, i - 1)}
         /\ SubSeq(p, 1, i - 1) \notin On(p, i - 1)
         /\ p[i] \in Names
<1> DEFINE q == SubSeq(p, 1, i - 1)
<1>1. p \in Seq(Names) /\ Len(p) \in Nat /\ Len(p) \in 0 .. MaxDepth
  BY SMT, PathIsSeq
<1>2. q \in Seq(Names) /\ Len(q) = i - 1 /\ p[i] \in Names /\ \A k \in 1 .. i - 1 : q[k] = p[k]
  BY SMT, <1>1
<1> HIDE DEF q
<1>3. q \in AllPaths
  <2>1. CASE i = 1
    <3>1. q = <<>>
      BY SMT, <2>1, <1>2
    <3> QED BY <3>1, Root
  <2>2. CASE i # 1
    <3>1. Len(q) \in 1 .. MaxDepth
      BY SMT, <2>2, <1>1, <1>2, ScanAssumption
    <3> QED BY <3>1, <1>2, MakePath
  <2> QED BY <2>1, <2>2
<1>4. Below(q, p)
  <2>1. Len(q) < Len(p) /\ \A k \in 1 .. Len(q) : q[k] = p[k]
    BY SMT, <1>1, <1>2
  <2> QED BY <2>1, <1>1, <1>2, PrefixDef
<1>5. ASSUME NEW t \in AllPaths, Below(t, p) PROVE Len(t) < i <=> Len(t) < i - 1 \/ t = q
  <2>1. t \in Seq(Names) /\ Len(t) \in Nat
    BY SMT, PathIsSeq
  <2>2. Len(t) < Len(p) /\ \A k \in 1 .. Len(t) : t[k] = p[k]
    BY <2>1, <1>1, <1>5, PrefixDef
  <2>3. Len(t) = i - 1 => t = q
    <3> SUFFICES ASSUME Len(t) = i - 1 PROVE t = q
      OBVIOUS
    <3>1. Len(t) = Len(q) /\ \A k \in 1 .. Len(t) : t[k] = q[k]
      BY <2>2, <1>2
    <3> QED BY <3>1, <2>1, <1>2, SeqEqual
  <2> QED BY SMT, <2>1, <2>3, <1>2
<1>6. On(p, i) = On(p, i - 1) \cup {q}
  <2>1. Len(q) < i
    BY SMT, <1>2
  <2> QED BY <2>1, <1>3, <1>4, <1>5 DEF On
<1>7. q \notin On(p, i - 1)
  BY SMT, <1>2 DEF On
<1> QED BY <1>2, <1>3, <1>6, <1>7 DEF q

(* One round.                                                              *)
LEMMA GrowsByOne ==
  ASSUME NEW ds, HasEntries(ds), NEW p \in AllPaths, NEW i \in 1 .. Len(p), NEW r,
         Grown(r, ds, p, i - 1)
  PROVE  Grown(WithSubDir(r, SubSeq(p, 1, i - 1), p[i]), ds, p, i)
<1> DEFINE q == SubSeq(p, 1, i - 1)
           name == p[i]
           d == DirOf(r, q)
           e == IF name \in Range(d.subdirs) THEN d ELSE [d EXCEPT !.subdirs = Append(@, name)]
           s == With(r, q, e)
<1>1. /\ q \in AllPaths /\ Len(q) = i - 1 /\ name \in Names /\ q \notin On(p, i - 1)
      /\ On(p, i) = On(p, i - 1) \cup {q}
  BY OnDef
<1>2. p[Len(q) + 1] = name
  <2>1. Len(q) + 1 = i
    BY SMT, <1>1
  <2> QED BY <2>1
<1>3. HasEntries(r)
  BY DEF Grown
<1>4. d \in Entry /\ IsInjective(d.subdirs)
  BY <1>3, DirOfDef
<1>5. d.files = DirOf(ds, q).files /\ \A x \in Names : x \in Range(d.subdirs) <=> x \in Range(DirOf(ds, q).subdirs)
  <2>1. CASE q \in DOMAIN r
    <3>1. d = r[q]
      BY <2>1, <1>3, DirOfDef
    <3> HIDE DEF d, q
    <3> QED BY <3>1, <2>1, <1>1 DEF Grown
  <2>2. CASE q \notin DOMAIN r
    <3>1. q \notin DOMAIN ds
      BY <2>2 DEF Grown
    <3>2. d = Empty /\ DirOf(ds, q) = Empty
      BY <3>1, <2>2, <1>3, DirOfDef
    <3> HIDE DEF d, q
    <3> QED BY <3>2
  <2> QED BY <2>1, <2>2
<1> HIDE DEF d, q, name
<1>6. /\ e \in Entry /\ IsInjective(e.subdirs) /\ e.files = d.files
      /\ \A x \in Names : x \in Range(e.subdirs) <=> x \in Range(d.subdirs) \/ x = name
  <2>1. CASE name \in Range(d.subdirs)
    BY <2>1, <1>4
  <2>2. CASE name \notin Range(d.subdirs)
    <3>1. d.files \in Seq(Names) /\ d.subdirs \in Seq(Names)
      BY <1>4, EntryDef
    <3>4. Append(d.subdirs, name) \in Seq(Names)
      BY SMT, <3>1, <1>1
    <3>5. e.files = d.files /\ e.subdirs = Append(d.subdirs, name) /\ e \in Entry
      <4>1. e = [d EXCEPT !.subdirs = Append(d.subdirs, name)]
        BY <2>2
      <4> HIDE DEF e
      <4> QED BY <4>1, <3>4, <1>4, EntryWith
    <3> HIDE DEF e
    <3>6. Range(Append(d.subdirs, name)) = Range(d.subdirs) \cup {name}
      BY SMT, <3>1, <1>1, AppendOnce
    <3>7. IsInjective(Append(d.subdirs, name))
      BY <2>2, <3>1, <1>1, <1>4, AppendOnce
    <3> QED BY <3>5, <3>6, <3>7
  <2> QED BY <2>1, <2>2
<1>7. WithSubDir(r, SubSeq(p, 1, i - 1), p[i]) = s
  BY DEF WithSubDir, q, name, d
<1> HIDE DEF e
<1>8. /\ DOMAIN s = DOMAIN r \cup {q} /\ s[q] = e
      /\ \A y \in DOMAIN r : y # q => s[y] = r[y]
  BY SMT DEF With
<1> HIDE DEF s
<1>9. DOMAIN s = DOMAIN ds \cup On(p, i)
  BY <1>1, <1>8 DEF Grown
<1>10. HasEntries(s)
  BY <1>3, <1>6, <1>8 DEF HasEntries
<1>11. ASSUME NEW c \in DOMAIN s
       PROVE  /\ s[c].files = DirOf(ds, c).files
              /\ \A x \in Names : x \in Range(s[c].subdirs) <=>
                    \/ x \in Range(DirOf(ds, c).subdirs)
                    \/ c \in On(p, i) /\ x = p[Len(c) + 1]
  <2>1. CASE c = q
    <3>1. q \in On(p, i)
      BY <1>1
    <3> QED BY <2>1, <3>1, <1>2, <1>5, <1>6, <1>8
  <2>2. CASE c # q
    <3>1. c \in DOMAIN r /\ s[c] = r[c] /\ (c \in On(p, i) <=> c \in On(p, i - 1))
      BY <2>2, <1>1, <1>8
    <3> QED BY <3>1 DEF Grown
  <2> QED BY <2>1, <2>2
<1>12. Grown(s, ds, p, i)
  BY <1>9, <1>10, <1>11 DEF Grown
<1> QED BY <1>7, <1>12

IsEnsured(f, ds, p, N) ==
    f = [i \in 0 .. N |-> IF i = 0 THEN ds ELSE WithSubDir(f[i - 1], SubSeq(p, 1, i - 1), p[i])]

LEMMA EnsureRec ==
  ASSUME NEW ds, NEW p \in AllPaths
  PROVE  \E f : IsEnsured(f, ds, p, Len(p)) /\ EnsureParentDirs(ds, p) = f[Len(p)]
<1> DEFINE L == Len(p)
           T == {N \in 0 .. L : \E f : IsEnsured(f, ds, p, N)}
<1>1. L \in Nat /\ L \in 0 .. L /\ 0 \in 0 .. L
  BY SMT, PathIsSeq
<1>2. 0 \in T
  <2> DEFINE f == [i \in 0 .. 0 |-> ds]
  <2>1. \A i \in 0 .. 0 : i = 0
    BY SMT
  <2>2. IsEnsured(f, ds, p, 0)
    BY <2>1 DEF IsEnsured
  <2> QED BY <2>2, <1>1
<1>3. ASSUME NEW N \in 0 .. L - 1, N \in T PROVE N + 1 \in T
  <2>1. PICK f : IsEnsured(f, ds, p, N)
    BY <1>3
  <2> DEFINE g == [i \in 0 .. N + 1 |->
                     IF i = 0 THEN ds ELSE WithSubDir(f[i - 1], SubSeq(p, 1, i - 1), p[i])]
  <2>2. /\ \A i \in 0 .. N : i \in 0 .. N + 1
        /\ \A i \in 0 .. N + 1 : i = 0 \/ i - 1 \in 0 .. N
        /\ N + 1 \in 0 .. L
    BY SMT, <1>1
  <2>3. \A i \in 0 .. N : g[i] = f[i]
    BY <2>1, <2>2 DEF IsEnsured
  <2>4. IsEnsured(g, ds, p, N + 1)
    BY <2>2, <2>3 DEF IsEnsured
  <2> QED BY <2>2, <2>4
<1>4. L \in T
  <2> HIDE DEF T, L
  <2> QED BY <1>1, <1>2, <1>3, Induction
<1> DEFINE c == CHOOSE f : IsEnsured(f, ds, p, L)
<1>5. IsEnsured(c, ds, p, L)
  BY <1>4
<1>6. EnsureParentDirs(ds, p) = c[L]
  BY DEF EnsureParentDirs, IsEnsured
<1> QED BY <1>5, <1>6

LEMMA EnsureDef ==
  ASSUME NEW ds, HasEntries(ds), NEW p \in AllPaths
  PROVE  Grown(EnsureParentDirs(ds, p), ds, p, Len(p))
<1> DEFINE L == Len(p)
<1>1. L \in Nat /\ L \in 0 .. L /\ 0 \in 0 .. L
  BY SMT, PathIsSeq
<1>2. PICK f : IsEnsured(f, ds, p, L) /\ EnsureParentDirs(ds, p) = f[L]
  BY EnsureRec
<1> DEFINE T == {i \in 0 .. L : Grown(f[i], ds, p, i)}
<1>3. \A i \in 0 .. L : f[i] = IF i = 0 THEN ds ELSE WithSubDir(f[i - 1], SubSeq(p, 1, i - 1), p[i])
  BY <1>2 DEF IsEnsured
<1>4. 0 \in T
  <2>1. f[0] = ds
    BY <1>1, <1>3
  <2>2. On(p, 0) = {}
    BY SMT, PathIsSeq DEF On
  <2>3. \A d \in DOMAIN ds : DirOf(ds, d) = ds[d]
    BY DirOfDef
  <2>4. Grown(ds, ds, p, 0)
    BY <2>2, <2>3 DEF Grown
  <2> QED BY <2>1, <2>4, <1>1
<1>5. ASSUME NEW n \in 0 .. L - 1, n \in T PROVE n + 1 \in T
  <2>1. n + 1 \in 0 .. L /\ n + 1 # 0 /\ (n + 1) - 1 = n /\ n + 1 \in 1 .. L
    BY SMT, <1>1
  <2>2. f[n + 1] = WithSubDir(f[n], SubSeq(p, 1, (n + 1) - 1), p[n + 1])
    BY <1>3, <2>1
  <2>3. Grown(f[n], ds, p, (n + 1) - 1)
    BY <1>5, <2>1
  <2>4. Grown(f[n + 1], ds, p, n + 1)
    BY <2>1, <2>2, <2>3, GrowsByOne
  <2> QED BY <2>1, <2>4
<1>6. L \in T
  <2> HIDE DEF T, L
  <2> QED BY <1>1, <1>4, <1>5, Induction
<1> QED BY <1>2, <1>6

LEMMA NextLast ==
  ASSUME NEW p \in AllPaths, NEW c \in Paths, Prefix(c, p)
  PROVE  Below(Front(c), p) /\ Last(c) = p[Len(Front(c)) + 1]
<1>1. /\ c \in Seq(Names) /\ p \in Seq(Names) /\ Len(c) \in 1 .. MaxDepth /\ Len(c) \in Nat
      /\ Len(Front(c)) = Len(c) - 1 /\ Last(c) = c[Len(c)] /\ Below(Front(c), c)
      /\ Front(c) \in AllPaths /\ c \in AllPaths
  BY SMT, PathIsSeq, FrontDef, Root
<1>2. \A i \in 1 .. Len(c) : c[i] = p[i]
  BY <1>1, PrefixDef
<1>3. Len(Front(c)) + 1 = Len(c) /\ Len(c) \in 1 .. Len(c)
  BY SMT, <1>1
<1>4. Below(Front(c), p)
  <2>1. Prefix(Front(c), c) /\ Front(c) # c
    BY <1>1, PrefixOrder
  <2>2. Prefix(Front(c), p)
    BY <2>1, <1>1, PrefixOrder
  <2>3. Prefix(c, Front(c)) => Front(c) = c
    BY <2>1, <1>1, PrefixOrder
  <2>4. Front(c) # p
    BY <2>1, <2>3
  <2> QED BY <2>2, <2>4, <1>1, PrefixOrder
<1> QED BY <1>1, <1>2, <1>3, <1>4

(* A directory is set, and listed with its parents.                        *)
Extended(r, ds, p, e) ==
    /\ Listed(r)
    /\ DOMAIN r = DOMAIN ds \cup {q \in AllPaths : Prefix(q, p)}
    /\ r[p].files = e.files
    /\ \A d \in DOMAIN r : d # p => r[d].files = DirOf(ds, d).files

LEMMA StaysListed ==
  ASSUME NEW ds, Listed(ds), NEW p \in AllPaths, NEW e \in Entry, e.subdirs = DirOf(ds, p).subdirs,
         NEW r, r = EnsureParentDirs(With(ds, p, e), p)
  PROVE  Extended(r, ds, p, e)
<1> DEFINE g == With(ds, p, e)
<1>1. HasEntries(ds)
  BY DEF Listed, HasEntries
<1>2. IsInjective(e.subdirs)
  BY <1>1, DirOfDef
<1>3. /\ DOMAIN g = DOMAIN ds \cup {p} /\ g[p] = e
      /\ \A y \in DOMAIN ds : y # p => g[y] = ds[y]
  BY SMT DEF With
<1> HIDE DEF g
<1>4. HasEntries(g)
  BY <1>1, <1>2, <1>3 DEF HasEntries
<1>5. Grown(r, g, p, Len(p))
  BY <1>4, EnsureDef DEF g
<1>6. On(p, Len(p)) = {q \in AllPaths : Below(q, p)}
  BY DEF On, Below
<1>7. DOMAIN r = DOMAIN ds \cup {q \in AllPaths : Prefix(q, p)}
  <2>1. DOMAIN r = DOMAIN ds \cup {p} \cup {q \in AllPaths : Below(q, p)}
    BY <1>3, <1>5, <1>6 DEF Grown
  <2> QED BY <2>1 DEF Prefix
<1>8. /\ DirOf(g, p) = e
      /\ \A d : d # p => DirOf(g, d) = DirOf(ds, d)
  BY <1>3 DEF DirOf
<1>9. \A d : DirOf(g, d).subdirs = DirOf(ds, d).subdirs
  BY <1>8
<1>10. p \in DOMAIN r
  BY <1>7, PrefixOrder
<1>11. r[p].files = e.files /\ \A d \in DOMAIN r : d # p => r[d].files = DirOf(ds, d).files
  BY <1>5, <1>8, <1>10 DEF Grown
<1>12. DOMAIN r \subseteq AllPaths
  BY <1>7 DEF Listed
<1>13. ASSUME NEW d \in DOMAIN r, d # <<>> PROVE Front(d) \in DOMAIN r
  <2>1. CASE d \in DOMAIN ds
    BY <2>1, <1>7, <1>13 DEF Listed
  <2>2. CASE Prefix(d, p)
    <3>1. d \in Paths
      BY <1>12, <1>13, PathIsSeq
    <3>2. Front(d) \in AllPaths
      BY <3>1, FrontDef
    <3>3. Below(Front(d), p)
      BY <2>2, <3>1, NextLast
    <3> QED BY <3>2, <3>3, <1>7 DEF Prefix
  <2> QED BY <2>1, <2>2, <1>7
<1>14. ASSUME NEW d \in DOMAIN r, NEW x \in Names
       PROVE  x \in Range(r[d].subdirs) <=>
                \E c \in DOMAIN r : c # <<>> /\ Front(c) = d /\ Last(c) = x
  <2>0. d \in AllPaths
    BY <1>12
  <2>1. x \in Range(r[d].subdirs) <=>
          x \in Range(DirOf(ds, d).subdirs) \/ (Below(d, p) /\ x = p[Len(d) + 1])
    BY <2>0, <1>5, <1>6, <1>9 DEF Grown
  <2>2. x \in Range(DirOf(ds, d).subdirs) <=>
          \E c \in DOMAIN ds : c # <<>> /\ Front(c) = d /\ Last(c) = x
    <3>1. CASE d \in DOMAIN ds
      <4>1. DirOf(ds, d) = ds[d]
        BY <3>1, <1>1, DirOfDef
      <4> QED BY <4>1, <3>1 DEF Listed
    <3>2. CASE d \notin DOMAIN ds
      <4>1. Range(DirOf(ds, d).subdirs) = {}
        BY <3>2, <1>1, DirOfDef
      <4> QED BY <4>1, <3>2 DEF Listed
    <3> QED BY <3>1, <3>2
  <2>3. ASSUME Below(d, p), x = p[Len(d) + 1]
        PROVE  \E c \in DOMAIN r : c # <<>> /\ Front(c) = d /\ Last(c) = x
    <3>1. p \in Paths
      <4>1. d # p /\ Prefix(d, p)
        BY <2>0, <2>3, PrefixOrder
      <4>2. p # <<>>
        BY <4>1, <2>0, PrefixOrder
      <4> QED BY <4>2, PathIsSeq
    <3>2. PICK c \in Paths : Front(c) = d /\ Prefix(c, p)
      BY <3>1, <2>0, <2>3, NextName
    <3>3. Last(c) = x
      BY <3>2, <2>3, NextLast
    <3>4. c \in DOMAIN r /\ c # <<>>
      BY <3>2, <1>7, Root
    <3> QED BY <3>2, <3>3, <3>4
  <2>4. ASSUME NEW c \in DOMAIN r, c # <<>>, Front(c) = d, Last(c) = x, c \notin DOMAIN ds
        PROVE  Below(d, p) /\ x = p[Len(d) + 1]
    <3>1. Prefix(c, p) /\ c \in Paths
      BY <2>4, <1>7, <1>12, PathIsSeq
    <3> QED BY <3>1, <2>4, NextLast
  <2>5. DOMAIN ds \subseteq DOMAIN r
    BY <1>7
  <2> QED BY <2>1, <2>2, <2>3, <2>4, <2>5
<1>15. HasEntries(r)
  BY <1>5 DEF Grown
<1>16. Listed(r)
  BY <1>12, <1>13, <1>14, <1>15 DEF Listed, HasEntries
<1> QED BY <1>7, <1>11, <1>16 DEF Extended

(* A worker adds a file.                                                   *)
LEMMA AddFileDef ==
  ASSUME NEW ds, NEW done, TreeOf(ds, done), done \subseteq Paths, NEW f \in Paths, f \notin done,
         \A q \in Paths : Below(q, f) => q \in dirs
  PROVE  TreeOf(AddFile(ds, f), done \cup {f}) /\ DOMAIN ds \subseteq DOMAIN AddFile(ds, f)
<1> DEFINE p == Front(f)
           d == DirOf(ds, p)
           e == [d EXCEPT !.files = Append(d.files, Last(f))]
           r == AddFile(ds, f)
<1>1. Listed(ds) /\ HasEntries(ds)
  BY DEF TreeOf, Listed, HasEntries
<1>2. p \in AllPaths /\ Last(f) \in Names /\ d \in Entry
  BY <1>1, DirOfDef, FrontDef
<1>3. d.files \in Seq(Names) /\ Append(d.files, Last(f)) \in Seq(Names)
  BY SMT, <1>2, EntryDef
<1>4. /\ IsInjective(d.files)
      /\ \A x \in Names : x \in Range(d.files) <=> \E g \in done : Front(g) = p /\ Last(g) = x
  <2>1. CASE p \in DOMAIN ds
    <3>1. d = ds[p]
      BY <2>1, <1>1, DirOfDef
    <3> HIDE DEF d, p
    <3> QED BY <3>1, <2>1 DEF TreeOf
  <2>2. CASE p \notin DOMAIN ds
    <3>1. Range(d.files) = {} /\ IsInjective(d.files)
      BY <2>2, <1>1, DirOfDef
    <3> HIDE DEF d, p
    <3> QED BY <3>1, <2>2 DEF TreeOf
  <2> QED BY <2>1, <2>2
<1>5. Last(f) \notin Range(d.files)
  <2>1. ASSUME NEW g \in done, Front(g) = p, Last(g) = Last(f) PROVE FALSE
    BY <2>1, SamePath
  <2> QED BY <2>1, <1>2, <1>4
<1>6. e \in Entry /\ e.subdirs = d.subdirs /\ e.files = Append(d.files, Last(f))
  <2> HIDE DEF d
  <2> QED BY <1>2, <1>3, EntryWith
<1>7. r = EnsureParentDirs(With(ds, p, e), p)
  BY DEF AddFile
<1> HIDE DEF e, r, p
<1>8. /\ Listed(r)
      /\ DOMAIN r = DOMAIN ds \cup {q \in AllPaths : Prefix(q, p)}
      /\ r[p].files = e.files
      /\ \A c \in DOMAIN r : c # p => r[c].files = DirOf(ds, c).files
  <2>1. Extended(r, ds, p, e)
    BY <1>1, <1>2, <1>6, <1>7, StaysListed
  <2> QED BY <2>1 DEF Extended
<1> HIDE DEF d
<1>9. IsInjective(Append(d.files, Last(f)))
  BY <1>2, <1>3, <1>4, <1>5, AppendOnce
<1>10. Range(Append(d.files, Last(f))) = Range(d.files) \cup {Last(f)}
  BY SMT, <1>2, <1>3, AppendOnce
<1>11. DOMAIN r \subseteq dirs \cup {<<>>}
  <2>1. ASSUME NEW q \in AllPaths, Prefix(q, p) PROVE q \in dirs \cup {<<>>}
    <3>1. Below(q, f)
      BY <2>1, BelowFront DEF p
    <3> QED BY <3>1 DEF AllPaths
  <2>2. DOMAIN ds \subseteq dirs \cup {<<>>}
    BY DEF TreeOf
  <2> QED BY <2>1, <2>2, <1>8
<1>12. ASSUME NEW c \in DOMAIN r
       PROVE  /\ IsInjective(r[c].files)
              /\ \A x \in Names : x \in Range(r[c].files) <=>
                    \E g \in done \cup {f} : Front(g) = c /\ Last(g) = x
  <2>1. CASE c = p
    <3>1. r[c].files = Append(d.files, Last(f))
      BY <2>1, <1>6, <1>8
    <3>2. Front(f) = c
      BY <2>1 DEF p
    <3> QED BY <3>1, <3>2, <2>1, <1>4, <1>9, <1>10
  <2>2. CASE c # p
    <3>1. r[c].files = DirOf(ds, c).files /\ Front(f) # c
      BY <2>2, <1>8 DEF p
    <3>2. CASE c \in DOMAIN ds
      <4>1. DirOf(ds, c) = ds[c]
        BY <3>2, <1>1, DirOfDef
      <4> QED BY <3>1, <3>2, <4>1 DEF TreeOf
    <3>3. CASE c \notin DOMAIN ds
      <4>1. Range(DirOf(ds, c).files) = {} /\ IsInjective(DirOf(ds, c).files)
        BY <3>3, <1>1, DirOfDef
      <4> QED BY <3>1, <3>3, <4>1 DEF TreeOf
    <3> QED BY <3>2, <3>3
  <2> QED BY <2>1, <2>2
<1>13. \A g \in done \cup {f} : Front(g) \in DOMAIN r
  <2>1. p \in DOMAIN r
    BY <1>2, <1>8, PrefixOrder
  <2> QED BY <2>1, <1>8 DEF TreeOf, p
<1>14. TreeOf(r, done \cup {f}) /\ DOMAIN ds \subseteq DOMAIN r
  BY <1>8, <1>11, <1>12, <1>13 DEF TreeOf
<1> QED BY <1>14 DEF r

(* A directory that holds nothing is added.                                *)
LEMMA AddEmptyDirDef ==
  ASSUME NEW ds, TreeOf(ds, {}), NEW p \in dirs, p \in Paths, \A q \in Paths : Below(q, p) => q \in dirs
  PROVE  /\ TreeOf(AddEmptyDir(ds, p), {})
         /\ DOMAIN ds \subseteq DOMAIN AddEmptyDir(ds, p) /\ p \in DOMAIN AddEmptyDir(ds, p)
<1> DEFINE e == DirOf(ds, p)
           r == AddEmptyDir(ds, p)
<1>1. Listed(ds) /\ HasEntries(ds) /\ p \in AllPaths
  BY Root DEF TreeOf, Listed, HasEntries
<1>2. e \in Entry
  BY <1>1, DirOfDef
<1>3. r = EnsureParentDirs(With(ds, p, e), p)
  BY DEF AddEmptyDir
<1> HIDE DEF r
<1>4. /\ Listed(r)
      /\ DOMAIN r = DOMAIN ds \cup {q \in AllPaths : Prefix(q, p)}
      /\ r[p].files = e.files
      /\ \A c \in DOMAIN r : c # p => r[c].files = DirOf(ds, c).files
  <2>1. Extended(r, ds, p, e)
    BY <1>1, <1>2, <1>3, StaysListed
  <2> QED BY <2>1 DEF Extended
<1>5. DOMAIN r \subseteq dirs \cup {<<>>}
  <2>1. ASSUME NEW q \in AllPaths, Prefix(q, p) PROVE q \in dirs \cup {<<>>}
    BY <2>1 DEF AllPaths, Prefix
  <2>2. DOMAIN ds \subseteq dirs \cup {<<>>}
    BY DEF TreeOf
  <2> QED BY <2>1, <2>2, <1>4
<1>6. ASSUME NEW c \in DOMAIN r
      PROVE  IsInjective(r[c].files) /\ \A x \in Names : x \notin Range(r[c].files)
  <2>1. r[c].files = DirOf(ds, c).files
    BY <1>4
  <2>2. CASE c \in DOMAIN ds
    <3>1. DirOf(ds, c) = ds[c]
      BY <2>2, <1>1, DirOfDef
    <3> QED BY <2>1, <2>2, <3>1 DEF TreeOf
  <2>3. CASE c \notin DOMAIN ds
    <3>1. Range(DirOf(ds, c).files) = {} /\ IsInjective(DirOf(ds, c).files)
      BY <2>3, <1>1, DirOfDef
    <3> QED BY <2>1, <3>1
  <2> QED BY <2>2, <2>3
<1>7. p \in DOMAIN r
  BY <1>1, <1>4, PrefixOrder
<1>8. TreeOf(r, {})
  BY <1>4, <1>5, <1>6 DEF TreeOf
<1> QED BY <1>4, <1>7, <1>8 DEF r

IsAdded(f, N) ==
    f = [i \in 0 .. N |-> IF i = 0 THEN <<>>
                          ELSE IF HasChildren(dirEntries[i]) THEN f[i - 1]
                               ELSE AddEmptyDir(f[i - 1], dirEntries[i])]

LEMMA AddEmptyDirsRec ==
  ASSUME dirEntries \in Seq(Paths)
  PROVE  \E f : IsAdded(f, Len(dirEntries)) /\ AddEmptyDirs = f[Len(dirEntries)]
<1> DEFINE L == Len(dirEntries)
           T == {N \in 0 .. L : \E f : IsAdded(f, N)}
<1>1. L \in Nat /\ L \in 0 .. L /\ 0 \in 0 .. L
  BY SMT
<1>2. 0 \in T
  <2> DEFINE f == [i \in 0 .. 0 |-> <<>>]
  <2>1. \A i \in 0 .. 0 : i = 0
    BY SMT
  <2>2. IsAdded(f, 0)
    BY <2>1 DEF IsAdded
  <2> QED BY <2>2, <1>1
<1>3. ASSUME NEW N \in 0 .. L - 1, N \in T PROVE N + 1 \in T
  <2>1. PICK f : IsAdded(f, N)
    BY <1>3
  <2> DEFINE g == [i \in 0 .. N + 1 |-> IF i = 0 THEN <<>>
                                        ELSE IF HasChildren(dirEntries[i]) THEN f[i - 1]
                                             ELSE AddEmptyDir(f[i - 1], dirEntries[i])]
  <2>2. /\ \A i \in 0 .. N : i \in 0 .. N + 1
        /\ \A i \in 0 .. N + 1 : i = 0 \/ i - 1 \in 0 .. N
        /\ N + 1 \in 0 .. L
    BY SMT, <1>1
  <2>3. \A i \in 0 .. N : g[i] = f[i]
    BY <2>1, <2>2 DEF IsAdded
  <2>4. IsAdded(g, N + 1)
    BY <2>2, <2>3 DEF IsAdded
  <2> QED BY <2>2, <2>4
<1>4. L \in T
  <2> HIDE DEF T, L
  <2> QED BY <1>1, <1>2, <1>3, Induction
<1> DEFINE c == CHOOSE f : IsAdded(f, L)
<1>5. IsAdded(c, L)
  BY <1>4
<1>6. AddEmptyDirs = c[L]
  BY DEF AddEmptyDirs, IsAdded
<1> QED BY <1>5, <1>6

(* The manifest before the files: what holds nothing, and what it is in.   *)
LEMMA AddEmptyDirsDef ==
  ASSUME dirEntries \in Seq(Paths), \A p \in dirs : \A q \in Paths : Below(q, p) => q \in dirs
  PROVE  /\ TreeOf(AddEmptyDirs, {})
         /\ \A d \in dirs : ~HasChildren(d) => d \in DOMAIN AddEmptyDirs
<1> DEFINE L == Len(dirEntries)
           Good(ds, n) == /\ TreeOf(ds, {})
                          /\ \A k \in 1 .. n : ~HasChildren(dirEntries[k]) => dirEntries[k] \in DOMAIN ds
<1>1. /\ L \in Nat /\ L \in 0 .. L /\ 0 \in 0 .. L /\ DOMAIN dirEntries = 1 .. L
      /\ \A k \in 1 .. L : dirEntries[k] \in Paths
  BY SMT
<1>2. dirs = {dirEntries[k] : k \in 1 .. L}
  BY <1>1 DEF dirs, Range
<1>3. PICK f : IsAdded(f, L) /\ AddEmptyDirs = f[L]
  BY AddEmptyDirsRec
<1> DEFINE T == {n \in 0 .. L : Good(f[n], n)}
<1>4. \A i \in 0 .. L : f[i] = IF i = 0 THEN <<>>
                               ELSE IF HasChildren(dirEntries[i]) THEN f[i - 1]
                                    ELSE AddEmptyDir(f[i - 1], dirEntries[i])
  BY <1>3 DEF IsAdded
<1>5. 0 \in T
  <2>1. f[0] = <<>> /\ DOMAIN <<>> = {} /\ \A k \in 1 .. 0 : FALSE
    BY SMT, <1>1, <1>4
  <2>2. TreeOf(<<>>, {})
    BY <2>1 DEF TreeOf, Listed
  <2> QED BY <2>1, <2>2, <1>1
<1>6. ASSUME NEW n \in 0 .. L - 1, n \in T PROVE n + 1 \in T
  <2> DEFINE p == dirEntries[n + 1]
  <2>1. /\ n + 1 \in 0 .. L /\ n + 1 # 0 /\ (n + 1) - 1 = n /\ n + 1 \in 1 .. L
        /\ \A k \in 1 .. n + 1 : k \in 1 .. n \/ k = n + 1
    BY SMT, <1>1
  <2>2. f[n + 1] = IF HasChildren(p) THEN f[n] ELSE AddEmptyDir(f[n], p)
    BY <1>4, <2>1
  <2>3. Good(f[n], n)
    BY <1>6
  <2>4. CASE HasChildren(p)
    BY <2>1, <2>2, <2>3, <2>4
  <2>5. CASE ~HasChildren(p)
    <3>1. p \in dirs /\ p \in Paths
      BY <1>1, <1>2, <2>1
    <3>2. /\ TreeOf(AddEmptyDir(f[n], p), {})
          /\ DOMAIN f[n] \subseteq DOMAIN AddEmptyDir(f[n], p) /\ p \in DOMAIN AddEmptyDir(f[n], p)
      <4> HIDE DEF p
      <4> QED BY <3>1, <2>3, AddEmptyDirDef
    <3>3. f[n + 1] = AddEmptyDir(f[n], p)
      BY <2>2, <2>5
    <3> QED BY <3>2, <3>3, <2>1, <2>3
  <2> QED BY <2>4, <2>5
<1>7. L \in T
  <2> HIDE DEF T, L
  <2> QED BY <1>1, <1>5, <1>6, Induction
<1> QED BY <1>2, <1>3, <1>7

(* With what is empty and with the files, every directory of the scan is   *)
(* in the manifest: the deepest one recorded below it is.                  *)
LEMMA DirsAreHeld ==
  ASSUME NEW ds, TypeOK, Listed(ds), \A f \in files : Front(f) \in DOMAIN ds,
         \A d \in dirs : ~HasChildren(d) => d \in DOMAIN ds
  PROVE  dirs \subseteq DOMAIN ds
<1>0. dirs \subseteq Paths /\ files \subseteq Paths
  <2>1. dirs \subseteq Paths
    BY SMT DEF TypeOK, dirs, Range
  <2> QED BY <2>1 DEF TypeOK
<1>1. ASSUME NEW q \in AllPaths, NEW p \in DOMAIN ds, Prefix(q, p) PROVE q \in DOMAIN ds
  <2> DEFINE U == {n \in Nat : \E t \in DOMAIN ds : Prefix(q, t) /\ Len(t) = n}
  <2>1. \A t \in DOMAIN ds : t \in AllPaths /\ Len(t) \in Nat
    BY SMT, PathIsSeq DEF Listed
  <2>2. U \in SUBSET Nat /\ U # {}
    BY <1>1, <2>1
  <2>3. PICK m \in U : \A k \in U : m <= k
    BY <2>2, LeastNat
  <2>4. PICK t \in DOMAIN ds : Prefix(q, t) /\ Len(t) = m
    BY <2>3
  <2>5. CASE q = t
    BY <2>5, <2>4
  <2>6. CASE q # t
    <3>1. Below(q, t) /\ t # <<>> /\ t \in Paths
      <4>1. Below(q, t)
        BY <2>6, <2>4 DEF Prefix
      <4>2. Prefix(q, <<>>) => q = <<>>
        BY PrefixOrder
      <4>3. t # <<>>
        BY <4>2, <2>4, <2>6
      <4> QED BY <4>1, <4>3, <2>1, PathIsSeq
    <3>2. Front(t) \in DOMAIN ds /\ Prefix(q, Front(t))
      BY <3>1, <2>4, BelowFront DEF Listed
    <3>3. Len(Front(t)) \in U
      BY <3>2, <2>1
    <3>4. m <= Len(Front(t)) /\ Len(Front(t)) = Len(t) - 1
      BY <3>1, <3>3, <2>3, FrontDef
    <3> QED BY SMT, <3>4, <2>4, <2>1
  <2> QED BY <2>5, <2>6
<1>2. ASSUME NEW d \in dirs PROVE d \in DOMAIN ds
  <2> DEFINE U == {n \in Nat : \E t \in dirs : Prefix(d, t) /\ MaxDepth - Len(t) = n}
  <2>1. \A t \in dirs : t \in Paths /\ t \in AllPaths /\ Len(t) \in Nat /\ MaxDepth - Len(t) \in Nat
    BY SMT, <1>0, PathIsSeq, ScanAssumption, Root
  <2>2. U \in SUBSET Nat /\ U # {}
    BY <2>1, PrefixOrder
  <2>3. PICK m \in U : \A k \in U : m <= k
    BY <2>2, LeastNat
  <2>4. PICK t \in dirs : Prefix(d, t) /\ MaxDepth - Len(t) = m
    BY <2>3
  <2>5. t \in DOMAIN ds
    <3>1. CASE ~HasChildren(t)
      BY <3>1
    <3>2. CASE \E f \in files : Below(t, f)
      <4>1. PICK f \in files : Below(t, f)
        BY <3>2
      <4>2. Prefix(t, Front(f)) /\ f \in Paths
        BY <4>1, <2>1, <1>0, BelowFront
      <4> QED BY <4>2, <2>1, <1>1
    <3>3. CASE \E c \in dirs : Front(c) = t
      <4>1. PICK c \in dirs : Front(c) = t
        BY <3>3
      <4>2. Below(t, c) /\ Len(t) = Len(c) - 1
        BY <4>1, <2>1, FrontDef
      <4>3. Prefix(d, c)
        <5>1. Prefix(t, c)
          BY <4>2 DEF Prefix
        <5> QED BY <5>1, <2>4, <2>1, PrefixOrder
      <4>4. MaxDepth - Len(c) \in U
        BY <4>3, <2>1
      <4>5. m <= MaxDepth - Len(c)
        BY <4>4, <2>3
      <4> QED BY SMT, <4>2, <4>5, <2>1, <2>4, ScanAssumption
    <3> QED BY <3>1, <3>2, <3>3 DEF HasChildren, dirs
  <2> QED BY <2>4, <2>5, <2>1, <1>1
<1> QED BY <1>2

-----------------------------------------------------------------------------
(* The walk                                                                *)

LEMMA HeadTail ==
  ASSUME NEW S, NEW s \in Seq(S), s # <<>>
  PROVE  /\ Head(s) \in S /\ Tail(s) \in Seq(S)
         /\ Head(s) \in Range(s)
         /\ Range(s) = {Head(s)} \cup Range(Tail(s))
         /\ IsInjective(s) => IsInjective(Tail(s)) /\ Head(s) \notin Range(Tail(s))
<1>1. /\ Head(s) \in S /\ Tail(s) \in Seq(S) /\ Len(s) \in Nat /\ Head(s) = s[1]
      /\ DOMAIN s = 1 .. Len(s) /\ DOMAIN Tail(s) = 1 .. Len(s) - 1
      /\ \A i \in 1 .. Len(s) - 1 : Tail(s)[i] = s[i + 1]
  BY SMT
<1>2. /\ 1 \in 1 .. Len(s)
      /\ \A i \in 1 .. Len(s) : i = 1 \/ i - 1 \in 1 .. Len(s) - 1
      /\ \A i \in 1 .. Len(s) : (i - 1) + 1 = i
      /\ \A i \in 1 .. Len(s) - 1 : i + 1 \in 1 .. Len(s) /\ i + 1 # 1
      /\ \A i, j \in 1 .. Len(s) - 1 : i + 1 = j + 1 => i = j
  BY SMT, <1>1
<1>3. Head(s) \in Range(s)
  BY <1>1, <1>2 DEF Range
<1>4. ASSUME NEW x PROVE x \in Range(s) <=> x = Head(s) \/ x \in Range(Tail(s))
  <2>1. ASSUME NEW i \in 1 .. Len(s), x = s[i] PROVE x = Head(s) \/ x \in Range(Tail(s))
    <3>1. CASE i = 1
      BY <3>1, <2>1, <1>1
    <3>2. CASE i - 1 \in 1 .. Len(s) - 1
      <4>1. Tail(s)[i - 1] = x
        BY <3>2, <2>1, <1>1, <1>2
      <4> QED BY <4>1, <3>2, <1>1 DEF Range
    <3> QED BY <3>1, <3>2, <1>2
  <2>2. ASSUME NEW i \in 1 .. Len(s) - 1, x = Tail(s)[i] PROVE x \in Range(s)
    BY <2>2, <1>1, <1>2 DEF Range
  <2> QED BY <2>1, <2>2, <1>1, <1>3 DEF Range
<1>5. ASSUME IsInjective(s) PROVE IsInjective(Tail(s)) /\ Head(s) \notin Range(Tail(s))
  <2>1. \A i, j \in 1 .. Len(s) : s[i] = s[j] => i = j
    BY <1>5, <1>1 DEF IsInjective
  <2>2. ASSUME NEW i \in 1 .. Len(s) - 1, NEW j \in 1 .. Len(s) - 1, Tail(s)[i] = Tail(s)[j]
        PROVE  i = j
    <3>1. s[i + 1] = s[j + 1] /\ i + 1 \in 1 .. Len(s) /\ j + 1 \in 1 .. Len(s)
      BY <2>2, <1>1, <1>2
    <3>2. i + 1 = j + 1
      BY <3>1, <2>1
    <3> QED BY <3>2, <1>2
  <2>3. ASSUME NEW i \in 1 .. Len(s) - 1 PROVE Tail(s)[i] # Head(s)
    <3>1. Tail(s)[i] = s[i + 1] /\ Head(s) = s[1] /\ i + 1 \in 1 .. Len(s) /\ i + 1 # 1
      BY <1>1, <1>2
    <3> QED BY <3>1, <2>1, <1>2
  <2> QED BY <2>2, <2>3, <1>1 DEF IsInjective, Range
<1> QED BY <1>1, <1>3, <1>4, <1>5

LEMMA Concat ==
  ASSUME NEW S, NEW s \in Seq(S), NEW t \in Seq(S)
  PROVE  /\ s \o t \in Seq(S)
         /\ Range(s \o t) = Range(s) \cup Range(t)
         /\ IsInjective(s) /\ IsInjective(t) /\ Range(s) \cap Range(t) = {} => IsInjective(s \o t)
<1> DEFINE m == Len(s)
           n == Len(t)
           c == s \o t
<1>1. /\ c \in Seq(S) /\ m \in Nat /\ n \in Nat
      /\ DOMAIN s = 1 .. m /\ DOMAIN t = 1 .. n /\ DOMAIN c = 1 .. m + n
      /\ \A i \in 1 .. m : c[i] = s[i]
      /\ \A i \in 1 .. n : c[m + i] = t[i]
  BY SMT
<1> HIDE DEF m, n, c
<1>2. /\ \A i \in 1 .. m : i \in 1 .. m + n
      /\ \A i \in 1 .. n : m + i \in 1 .. m + n
      /\ \A i \in 1 .. m + n : i \in 1 .. m \/ (i - m \in 1 .. n /\ m + (i - m) = i)
      /\ \A i, j \in 1 .. m + n : i - m = j - m => i = j
  BY SMT, <1>1
<1>3. \A i \in 1 .. m + n : \/ i \in 1 .. m /\ c[i] = s[i]
                            \/ i - m \in 1 .. n /\ c[i] = t[i - m]
  BY <1>1, <1>2
<1>4. Range(c) = Range(s) \cup Range(t)
  <2>1. ASSUME NEW x \in Range(c) PROVE x \in Range(s) \cup Range(t)
    <3>1. PICK i \in 1 .. m + n : x = c[i]
      BY <1>1 DEF Range
    <3>2. CASE i \in 1 .. m /\ c[i] = s[i]
      BY <3>1, <3>2, <1>1 DEF Range
    <3>3. CASE i - m \in 1 .. n /\ c[i] = t[i - m]
      BY <3>1, <3>3, <1>1 DEF Range
    <3> QED BY <3>2, <3>3, <1>3
  <2>2. ASSUME NEW x \in Range(s) \cup Range(t) PROVE x \in Range(c)
    <3>1. CASE x \in Range(s)
      <4>1. PICK i \in 1 .. m : x = s[i]
        BY <3>1, <1>1 DEF Range
      <4>2. c[i] = x /\ i \in 1 .. m + n
        BY <4>1, <1>1, <1>2
      <4> QED BY <4>2, <1>1 DEF Range
    <3>2. CASE x \in Range(t)
      <4>1. PICK i \in 1 .. n : x = t[i]
        BY <3>2, <1>1 DEF Range
      <4>2. c[m + i] = x /\ m + i \in 1 .. m + n
        BY <4>1, <1>1, <1>2
      <4> QED BY <4>2, <1>1 DEF Range
    <3> QED BY <3>1, <3>2
  <2> QED BY <2>1, <2>2
<1>5. ASSUME IsInjective(s), IsInjective(t), Range(s) \cap Range(t) = {} PROVE IsInjective(c)
  <2>1. \A i, j \in 1 .. m : s[i] = s[j] => i = j
    BY <1>5, <1>1 DEF IsInjective
  <2>2. \A i, j \in 1 .. n : t[i] = t[j] => i = j
    BY <1>5, <1>1 DEF IsInjective
  <2>3. \A i \in 1 .. m, j \in 1 .. n : s[i] # t[j]
    BY <1>5, <1>1 DEF Range
  <2>4. ASSUME NEW i \in 1 .. m + n, NEW j \in 1 .. m + n, c[i] = c[j] PROVE i = j
    <3>1. CASE i \in 1 .. m /\ c[i] = s[i]
      BY <3>1, <2>1, <2>3, <2>4, <1>3
    <3>2. CASE i - m \in 1 .. n /\ c[i] = t[i - m]
      <4>1. CASE j \in 1 .. m /\ c[j] = s[j]
        BY <4>1, <3>2, <2>3, <2>4
      <4>2. CASE j - m \in 1 .. n /\ c[j] = t[j - m]
        BY <4>2, <3>2, <2>2, <2>4, <1>2
      <4> QED BY <4>1, <4>2, <1>3
    <3> QED BY <3>1, <3>2, <1>3
  <2> QED BY <2>4, <1>1 DEF IsInjective
<1> QED BY <1>1, <1>4, <1>5 DEF c

(* What is below something in the source is below a directory of it.       *)
LEMMA TreePrefix ==
  ASSUME TypeOK, Rooted, NEW p \in DOMAIN tree, NEW q \in Paths, Prefix(q, p)
  PROVE  q \in DOMAIN tree /\ (q # p => IsDir(q))
<1>0. \A t \in DOMAIN tree : t \in Paths /\ t \in AllPaths /\ Len(t) \in Nat
  BY SMT, PathIsSeq, Root DEF TypeOK
<1>1. ASSUME NEW c \in Paths, Prefix(c, p) PROVE c \in DOMAIN tree
  <2> DEFINE U == {n \in Nat : \E t \in DOMAIN tree : Prefix(c, t) /\ Len(t) = n}
  <2>1. U \in SUBSET Nat /\ U # {}
    BY <1>0, <1>1
  <2>2. PICK m \in U : \A k \in U : m <= k
    BY <2>1, LeastNat
  <2>3. PICK t \in DOMAIN tree : Prefix(c, t) /\ Len(t) = m
    BY <2>2
  <2>4. CASE c # t
    <3>1. Below(c, t)
      BY <2>3, <2>4 DEF Prefix
    <3>2. Prefix(c, Front(t)) /\ Front(t) \in AllPaths /\ Len(Front(t)) = Len(t) - 1
      BY <3>1, <1>0, Root, BelowFront, FrontDef
    <3>3. Front(t) # <<>>
      <4>1. Prefix(c, <<>>) => c = <<>>
        BY PrefixOrder, Root
      <4> QED BY <4>1, <3>2, Root
    <3>4. Front(t) \in DOMAIN tree
      BY <3>3, <1>0 DEF Rooted, IsDir
    <3>5. Len(Front(t)) \in U
      BY <3>2, <3>4, <1>0
    <3>6. m <= Len(Front(t))
      BY <3>5, <2>2
    <3> QED BY SMT, <3>2, <3>6, <2>3, <1>0
  <2> QED BY <2>3, <2>4
<1>2. ASSUME q # p PROVE IsDir(q)
  <2>1. Below(q, p)
    BY <1>2 DEF Prefix
  <2>2. PICK c \in Paths : Front(c) = q /\ Prefix(c, p)
    BY <2>1, <1>0, Root, NextName
  <2> QED BY <2>2, <1>1 DEF Rooted
<1> QED BY <1>1, <1>2

LEMMA RecordedPaths ==
  ASSUME TypeOK
  PROVE  /\ dirs \subseteq Paths /\ files \subseteq Paths /\ Range(todo) \subseteq AllPaths
         /\ dirs \subseteq AllPaths /\ files \subseteq AllPaths
<1>1. dirs \subseteq Paths
  BY SMT DEF TypeOK, dirs, Range
<1>2. Range(todo) \subseteq AllPaths
  BY SMT DEF TypeOK, Range
<1> QED BY <1>1, <1>2, Root DEF TypeOK

(* What depends on the source and on the configuration alone.              *)
LEMMA Frame ==
  ASSUME tree' = tree, cfg' = cfg, NEW p
  PROVE  /\ IsDir(p)' <=> IsDir(p)
         /\ Skipped(p)' <=> Skipped(p)
         /\ TakesFile(p)' <=> TakesFile(p)
         /\ TakesDir(p)' <=> TakesDir(p)
  BY DEF IsDir, Skipped, IsSkipped, TakesFile, TakesDir, Entered

LEMMA TakesFrame ==
  ASSUME tree' = tree, NEW p, NEW c
  PROVE  Takes(p, c)' <=> Takes(p, c)
  BY DEF Takes, KeptOut, IsDir, IsSkipped

(* Of what others leave alone, they change nothing.                        *)
LEMMA Untouched ==
  ASSUME cfg' = cfg, NEW p \in Paths, p \in DOMAIN tree' <=> p \in DOMAIN tree,
         p \in DOMAIN tree => tree'[p] = tree[p]
  PROVE  /\ IsDir(p)' <=> IsDir(p)
         /\ TakesFile(p)' <=> TakesFile(p)
         /\ TakesDir(p)' <=> TakesDir(p)
<1>1. IsDir(p)' <=> IsDir(p)
  BY Root DEF IsDir
<1>2. \A q : Skipped(q)' <=> Skipped(q)
  BY DEF Skipped, IsSkipped
<1>3. Entered(p)' <=> Entered(p)
  BY <1>2 DEF Entered
<1>4. TakesDir(p)' <=> TakesDir(p)
  BY <1>1, <1>2, <1>3 DEF TakesDir
<1>5. p \in DOMAIN tree => tree'[p].size = tree[p].size
  OBVIOUS
<1>6. TakesFile(p)' <=> TakesFile(p)
  BY <1>1, <1>3, <1>5 DEF TakesFile
<1> QED BY <1>1, <1>4, <1>6

LEMMA TakesUntouched ==
  ASSUME NEW p \in Paths, NEW c, p \in DOMAIN tree' <=> p \in DOMAIN tree,
         p \in DOMAIN tree => tree'[p] = tree[p]
  PROVE  Takes(p, c)' <=> Takes(p, c)
<1>1. IsDir(p)' <=> IsDir(p)
  BY Root DEF IsDir
<1>2. p \in DOMAIN tree => tree'[p].size = tree[p].size
  OBVIOUS
<1>3. p \in DOMAIN tree => (KeptOut(p, c)' <=> KeptOut(p, c))
  BY <1>2 DEF KeptOut, IsSkipped
<1> QED BY <1>1, <1>3 DEF Takes

(* Another program changes the source.                                     *)
LEMMA ChangeKeeps ==
  ASSUME ScanInv, phase = "scan",
         UNCHANGED <<src, cfg, runs, phase, prevFiles, scan, waiting, Dirs, latest>>,
         touched \subseteq touched', touched' \subseteq Paths, DOMAIN tree' \subseteq Paths, Rooted',
         \A p \in Paths \ touched' : /\ p \in DOMAIN tree' <=> p \in DOMAIN tree
                                     /\ p \in DOMAIN tree => tree'[p] = tree[p]
  PROVE  ScanInv'
<1> DEFINE U == Paths \ touched'
<1>0. /\ src' = src /\ cfg' = cfg /\ phase' = phase /\ prevFiles' = prevFiles /\ todo' = todo /\ files' = files
      /\ dirEntries' = dirEntries /\ scanErrs' = scanErrs /\ waiting' = waiting /\ Dirs' = Dirs
      /\ latest' = latest /\ dirs' = dirs
  BY DEF scan, dirs
<1>1. \A p \in U : /\ IsDir(p)' <=> IsDir(p)
                   /\ TakesFile(p)' <=> TakesFile(p)
                   /\ TakesDir(p)' <=> TakesDir(p)
  BY <1>0, Untouched
<1>2. TypeOK'
  BY <1>0 DEF ScanInv, TypeOK
<1>3. Reached' /\ MetOnce'
  BY <1>0 DEF ScanInv, WalkInv, Reached, MetOnce
<1>4. Allowed'
  BY <1>0 DEF ScanInv, WalkInv, Allowed, Skipped, IsSkipped
<1>5. Lasting'
  <2>1. ASSUME NEW p \in files \ touched'
        PROVE  p \in DOMAIN tree' /\ ~IsDir(p)' /\ ~IsSizeExcluded(tree'[p].size, cfg')
    <3>1. p \in U /\ p \in files \ touched
      BY DEF ScanInv, TypeOK
    <3>2. p \in DOMAIN tree /\ ~IsDir(p) /\ ~IsSizeExcluded(tree[p].size, cfg)
      BY <3>1 DEF ScanInv, WalkInv, Lasting
    <3>3. p \in DOMAIN tree' /\ tree'[p] = tree[p]
      BY <3>1, <3>2
    <3> QED BY <3>1, <3>2, <3>3, <1>0, <1>1
  <2>2. ASSUME NEW p \in dirs \ touched' PROVE IsDir(p)'
    <3>1. p \in U /\ p \in dirs \ touched
      BY RecordedPaths DEF ScanInv
    <3> QED BY <3>1, <1>1 DEF ScanInv, WalkInv, Lasting
  <2> QED BY <2>1, <2>2, <1>0 DEF Lasting
<1>6. NothingMissed'
  BY <1>0, <1>1 DEF ScanInv, WalkInv, NothingMissed
<1>7. ManifestInv'
  BY <1>0 DEF ManifestInv
<1>8. BaselineInv'
  <2>1. \A p \in U : \A c : Takes(p, c)' <=> Takes(p, c)
    BY TakesUntouched
  <2> QED BY <1>0, <2>1 DEF ScanInv, BaselineInv, Complete
<1> QED BY <1>2, <1>3, <1>4, <1>5, <1>6, <1>7, <1>8 DEF ScanInv, WalkInv

LEMMA CreatePathKeeps ==
  ASSUME ScanInv, NEW path \in Paths, CreatePath(path)
  PROVE  ScanInv'
<1>1. PICK entry \in {File(1), Directory} : Change(path, With(tree, path, entry))
  BY DEF CreatePath
<1>2. /\ path \notin DOMAIN tree /\ IsDir(Front(path)) /\ phase = "scan"
      /\ UNCHANGED <<src, cfg, runs, phase, prevFiles, scan, waiting, Dirs, latest>>
      /\ touched' = touched \cup {p \in Paths : p = path \/ Below(path, p)}
      /\ tree' = With(tree, path, entry)
  BY <1>1 DEF CreatePath, Change
<1>3. /\ DOMAIN tree' = DOMAIN tree \cup {path}
      /\ \A p \in DOMAIN tree : p # path => tree'[p] = tree[p]
  BY SMT, <1>2 DEF With
<1>4. TypeOK /\ Rooted
  BY DEF ScanInv, WalkInv
<1>5. touched \subseteq touched' /\ touched' \subseteq Paths /\ path \in touched'
  BY <1>2, <1>4 DEF TypeOK
<1>6. DOMAIN tree' \subseteq Paths
  BY <1>3, <1>4 DEF TypeOK
<1>7. \A q : IsDir(q) => IsDir(q)'
  BY <1>2, <1>3 DEF IsDir
<1>8. Rooted'
  BY <1>2, <1>3, <1>4, <1>7 DEF Rooted
<1>9. ASSUME NEW p \in Paths \ touched'
      PROVE  /\ p \in DOMAIN tree' <=> p \in DOMAIN tree
             /\ p \in DOMAIN tree => tree'[p] = tree[p]
  BY <1>3, <1>5
<1> QED BY <1>2, <1>5, <1>6, <1>8, <1>9, ChangeKeeps

LEMMA RemovePathKeeps ==
  ASSUME ScanInv, NEW path \in Paths, RemovePath(path)
  PROVE  ScanInv'
<1> DEFINE kept == {q \in DOMAIN tree : q # path /\ ~Below(path, q)}
<1>1. /\ path \in DOMAIN tree /\ phase = "scan"
      /\ UNCHANGED <<src, cfg, runs, phase, prevFiles, scan, waiting, Dirs, latest>>
      /\ touched' = touched \cup {p \in Paths : p = path \/ Below(path, p)}
      /\ tree' = [p \in kept |-> tree[p]]
  BY DEF RemovePath, Change
<1>2. DOMAIN tree' = kept /\ \A p \in kept : tree'[p] = tree[p]
  BY <1>1
<1>3. TypeOK /\ Rooted
  BY DEF ScanInv, WalkInv
<1>4. touched \subseteq touched' /\ touched' \subseteq Paths
  BY <1>1, <1>3 DEF TypeOK
<1>5. DOMAIN tree' \subseteq Paths
  BY <1>2, <1>3 DEF TypeOK
<1>6. ASSUME NEW p \in kept PROVE IsDir(Front(p))'
  <2>1. p \in DOMAIN tree /\ p \in Paths /\ p # path /\ ~Below(path, p)
    BY <1>3 DEF TypeOK
  <2>2. IsDir(Front(p)) /\ Front(p) \in AllPaths
    BY <2>1, <1>3, FrontDef DEF Rooted
  <2>3. Front(p) # path /\ ~Below(path, Front(p))
    BY <2>1, Root, BelowFront DEF Prefix
  <2>4. CASE Front(p) = <<>>
    BY <2>4 DEF IsDir
  <2>5. CASE Front(p) \in DOMAIN tree /\ tree[Front(p)] = Directory
    <3>1. Front(p) \in kept
      BY <2>3, <2>5
    <3>2. Front(p) \in DOMAIN tree' /\ tree'[Front(p)] = Directory
      BY <3>1, <2>5, <1>2
    <3> QED BY <3>2 DEF IsDir, Directory
  <2> QED BY <2>2, <2>4, <2>5 DEF IsDir
<1>7. Rooted'
  BY <1>2, <1>6 DEF Rooted
<1>8. ASSUME NEW p \in Paths \ touched'
      PROVE  /\ p \in DOMAIN tree' <=> p \in DOMAIN tree
             /\ p \in DOMAIN tree => tree'[p] = tree[p]
  <2>1. p # path /\ ~Below(path, p)
    BY <1>1
  <2> QED BY <2>1, <1>2
<1> QED BY <1>1, <1>4, <1>5, <1>7, <1>8, ChangeKeeps

(* One call of the function given to filepath.Walk.                        *)
LEMMA WalkStep ==
  ASSUME ScanInv, phase = "scan", UNCHANGED <<source, cfg, runs, phase, prevFiles, waiting, Dirs, latest>>,
         todo' \in Seq(AllPaths), files \subseteq files', files' \subseteq Paths,
         dirEntries' \in Seq(Paths), scanErrs' \in Nat,
         Reached', MetOnce', Allowed', Lasting', NothingMissed'
  PROVE  ScanInv'
<1>0. /\ tree' = tree /\ touched' = touched /\ cfg' = cfg /\ phase' = phase /\ prevFiles' = prevFiles
      /\ waiting' = waiting /\ latest' = latest /\ src' = src
  BY DEF source
<1>1. \A p : (IsDir(p)' <=> IsDir(p)) /\ (TakesFile(p)' <=> TakesFile(p))
  BY <1>0, Frame
<1>2. TypeOK'
  BY <1>0 DEF ScanInv, TypeOK
<1>3. Rooted'
  BY <1>0, <1>1 DEF ScanInv, WalkInv, Rooted
<1>4. ManifestInv'
  BY <1>0 DEF ManifestInv
<1>5. BaselineInv'
  <2>1. \A p, c : Takes(p, c)' <=> Takes(p, c)
    BY <1>0, TakesFrame
  <2> QED BY <1>0, <2>1 DEF ScanInv, BaselineInv, Complete
<1> QED BY <1>2, <1>3, <1>4, <1>5 DEF ScanInv, WalkInv

(* What is left of the walk when its next path is visited.                 *)
LEMMA VisitNext ==
  ASSUME ScanInv, todo # <<>>
  PROVE  /\ Head(todo) \in Range(todo) /\ Head(todo) \in AllPaths /\ Tail(todo) \in Seq(AllPaths)
         /\ IsInjective(Tail(todo))
         /\ \A t : t \in Range(Tail(todo)) <=> t \in Range(todo) /\ t # Head(todo)
<1>1. todo \in Seq(AllPaths) /\ IsInjective(todo)
  BY DEF ScanInv, TypeOK, WalkInv, MetOnce
<1>2. /\ Head(todo) \in AllPaths /\ Tail(todo) \in Seq(AllPaths) /\ Head(todo) \in Range(todo)
      /\ IsInjective(Tail(todo)) /\ Head(todo) \notin Range(Tail(todo))
  BY <1>1, HeadTail
<1>3. Range(todo) = {Head(todo)} \cup Range(Tail(todo))
  BY SMT, <1>1, HeadTail
<1> QED BY <1>2, <1>3

LEMMA VisitErrorKeeps ==
  ASSUME ScanInv, VisitError
  PROVE  ScanInv'
<1>0. /\ phase = "scan" /\ todo # <<>> /\ todo' = Tail(todo) /\ scanErrs' = scanErrs + 1
      /\ UNCHANGED <<source, cfg, runs, phase, prevFiles, waiting, Dirs, latest>>
      /\ tree' = tree /\ cfg' = cfg /\ touched' = touched
      /\ files' = files /\ dirEntries' = dirEntries /\ dirs' = dirs
  BY DEF VisitError, source, dirs
<1>1. scanErrs' \in Nat /\ scanErrs' # 0
  BY SMT, <1>0 DEF ScanInv, TypeOK
<1>2. /\ todo' \in Seq(AllPaths) /\ IsInjective(todo')
      /\ \A t : t \in Range(todo') => t \in Range(todo)
  BY <1>0, VisitNext
<1>3. \A p : (IsDir(p)' <=> IsDir(p)) /\ (Skipped(p)' <=> Skipped(p))
  BY <1>0, Frame
<1>4. Reached'
  BY <1>0, <1>2 DEF ScanInv, WalkInv, Reached
<1>5. MetOnce'
  BY <1>0, <1>2 DEF ScanInv, WalkInv, MetOnce
<1>6. Allowed'
  BY <1>0, <1>3 DEF ScanInv, WalkInv, Allowed
<1>7. Lasting'
  BY <1>0, <1>3 DEF ScanInv, WalkInv, Lasting
<1>8. NothingMissed'
  BY <1>1 DEF NothingMissed
<1>9. files \subseteq files' /\ files' \subseteq Paths /\ dirEntries' \in Seq(Paths)
  BY <1>0 DEF ScanInv, TypeOK
<1> QED BY <1>0, <1>1, <1>2, <1>4, <1>5, <1>6, <1>7, <1>8, <1>9, WalkStep

LEMMA VisitFileKeeps ==
  ASSUME ScanInv, VisitFile
  PROVE  ScanInv'
<1> DEFINE h == Head(todo)
<1>0. /\ phase = "scan" /\ todo # <<>> /\ todo' = Tail(todo) /\ scanErrs' = scanErrs
      /\ UNCHANGED <<source, cfg, runs, phase, prevFiles, waiting, Dirs, latest>>
      /\ tree' = tree /\ cfg' = cfg /\ touched' = touched /\ phase' = phase
      /\ dirEntries' = dirEntries /\ dirs' = dirs
      /\ h \in DOMAIN tree /\ ~IsDir(h)
      /\ files' = IF IsExcluded(h, cfg) \/ IsSizeExcluded(tree[h].size, cfg)
                  THEN files ELSE files \cup {h}
  BY DEF VisitFile, source, dirs
<1>1. /\ h \in Range(todo) /\ todo' \in Seq(AllPaths) /\ IsInjective(todo')
      /\ \A t : t \in Range(todo') <=> t \in Range(todo) /\ t # h
  BY <1>0, VisitNext
<1>2. TypeOK /\ Rooted /\ Reached /\ MetOnce /\ Allowed /\ Lasting /\ NothingMissed
  BY DEF ScanInv, WalkInv
<1>3. h \in Paths /\ h \in AllPaths
  BY <1>0, <1>2, Root DEF TypeOK
<1> HIDE DEF h
<1>4. \A p : /\ IsDir(p)' <=> IsDir(p)
             /\ Skipped(p)' <=> Skipped(p)
             /\ TakesFile(p)' <=> TakesFile(p)
             /\ TakesDir(p)' <=> TakesDir(p)
  BY <1>0, Frame
<1>5. files \subseteq files' /\ files' \subseteq files \cup {h} /\ files' \subseteq Paths
  BY <1>0, <1>2, <1>3 DEF TypeOK
<1>6. Reached'
  BY <1>0, <1>1, <1>2, <1>5 DEF Reached
<1>7. MetOnce'
  <2>1. Prefix(h, h)
    BY DEF Prefix
  <2>2. h \notin dirs
    BY <2>1, <1>1, <1>2 DEF MetOnce
  <2>3. \A s \in Range(todo') : ~Prefix(s, h)
    BY <1>1, <1>2 DEF MetOnce
  <2>4. \A s \in Range(todo') : s \in Range(todo)
    BY <1>1
  <2>5. \A s, t \in Range(todo') : s # t => ~Prefix(s, t)
    BY <2>4, <1>2 DEF MetOnce
  <2>6. \A t \in Range(todo') : \A p \in files' \cup dirs : ~Prefix(t, p)
    BY <2>3, <2>4, <1>2, <1>5 DEF MetOnce
  <2>7. files' \cap dirs = {}
    BY <2>2, <1>2, <1>5 DEF MetOnce
  <2> QED BY <2>5, <2>6, <2>7, <1>0, <1>1 DEF MetOnce
<1>8. Allowed'
  <2>1. \A f \in files' : ~IsExcluded(f, cfg)
    BY <1>0, <1>2 DEF Allowed
  <2> QED BY <2>1, <1>0, <1>2, <1>4 DEF Allowed
<1>9. Lasting'
  <2>1. \A p \in files' \ touched :
          p \in DOMAIN tree /\ ~IsDir(p) /\ ~IsSizeExcluded(tree[p].size, cfg)
    BY <1>0, <1>2 DEF Lasting
  <2> QED BY <2>1, <1>0, <1>2, <1>4 DEF Lasting
<1>10. NothingMissed'
  <2>1. ASSUME scanErrs = 0, NEW p \in Paths \ touched, TakesFile(p) \/ TakesDir(p)
        PROVE  p \in files' \cup dirs \/ \E t \in Range(todo') : Prefix(t, p)
    <3>1. p \in files \cup dirs \/ \E t \in Range(todo) : Prefix(t, p)
      BY <2>1, <1>0, <1>2 DEF NothingMissed, Scanning
    <3>2. CASE p \in files \cup dirs
      BY <3>2, <1>5
    <3>3. CASE \E t \in Range(todo) : Prefix(t, p)
      <4>1. PICK t \in Range(todo) : Prefix(t, p)
        BY <3>3
      <4>2. CASE t # h
        BY <4>1, <4>2, <1>1
      <4>3. CASE t = h
        <5>1. p = h
          <6>1. p \in DOMAIN tree
            BY <2>1 DEF TakesFile, TakesDir
          <6> QED BY <6>1, <4>1, <4>3, <1>0, <1>2, <1>3, TreePrefix
        <5>2. ~IsExcluded(h, cfg) /\ ~IsSizeExcluded(tree[h].size, cfg)
          BY <5>1, <2>1, <1>0 DEF TakesFile, TakesDir
        <5> QED BY <5>1, <5>2, <1>0
      <4> QED BY <4>2, <4>3
    <3> QED BY <3>1, <3>2, <3>3
  <2> QED BY <2>1, <1>0, <1>4 DEF NothingMissed
<1>11. dirEntries' \in Seq(Paths) /\ scanErrs' \in Nat
  BY <1>0, <1>2 DEF TypeOK
<1> QED BY <1>0, <1>1, <1>5, <1>6, <1>7, <1>8, <1>9, <1>10, <1>11, WalkStep

(* A directory that is skipped: nothing the walk takes is below it.         *)
LEMMA SkipDirKeeps ==
  ASSUME ScanInv, VisitDir, Skipped(Head(todo))
  PROVE  ScanInv'
<1> DEFINE h == Head(todo)
<1>0. /\ phase = "scan" /\ todo # <<>> /\ todo' = Tail(todo) /\ scanErrs' = scanErrs
      /\ UNCHANGED <<source, cfg, runs, phase, prevFiles, waiting, Dirs, latest>>
      /\ tree' = tree /\ cfg' = cfg /\ touched' = touched /\ phase' = phase
      /\ dirEntries' = dirEntries /\ dirs' = dirs /\ files' = files
      /\ IsDir(h) /\ Skipped(h)
  BY DEF VisitDir, source, dirs, Skipped
<1>1. /\ h \in Range(todo) /\ h \in AllPaths /\ todo' \in Seq(AllPaths) /\ IsInjective(todo')
      /\ \A t : t \in Range(todo') <=> t \in Range(todo) /\ t # h
  BY <1>0, VisitNext
<1>2. TypeOK /\ Rooted /\ Reached /\ MetOnce /\ Allowed /\ Lasting /\ NothingMissed
  BY DEF ScanInv, WalkInv
<1>3. h \in Paths
  BY <1>0, <1>1 DEF Skipped, IsSkipped, AllPaths
<1> HIDE DEF h
<1>4. \A p : /\ IsDir(p)' <=> IsDir(p)
             /\ Skipped(p)' <=> Skipped(p)
             /\ TakesFile(p)' <=> TakesFile(p)
             /\ TakesDir(p)' <=> TakesDir(p)
  BY <1>0, Frame
<1>6. Reached'
  BY <1>0, <1>1, <1>2 DEF Reached
<1>7. MetOnce'
  BY <1>0, <1>1, <1>2 DEF MetOnce
<1>8. Allowed'
  BY <1>0, <1>2, <1>4 DEF Allowed
<1>9. Lasting'
  BY <1>0, <1>2, <1>4 DEF Lasting
<1>10. NothingMissed'
  <2>1. ASSUME scanErrs = 0, NEW p \in Paths \ touched, TakesFile(p) \/ TakesDir(p)
        PROVE  p \in files \cup dirs \/ \E t \in Range(todo') : Prefix(t, p)
    <3>1. p \in files \cup dirs \/ \E t \in Range(todo) : Prefix(t, p)
      BY <2>1, <1>0, <1>2 DEF NothingMissed, Scanning
    <3>2. ~Prefix(h, p)
      <4>1. h # p
        BY <2>1, <1>0 DEF TakesFile, TakesDir
      <4>2. ~Below(h, p)
        BY <2>1, <1>0, <1>3 DEF TakesFile, TakesDir, Entered
      <4> QED BY <4>1, <4>2 DEF Prefix
    <3> QED BY <3>1, <3>2, <1>1
  <2> QED BY <2>1, <1>0, <1>4 DEF NothingMissed
<1>11. /\ dirEntries' \in Seq(Paths) /\ scanErrs' \in Nat
       /\ files \subseteq files' /\ files' \subseteq Paths
  BY <1>0, <1>2 DEF TypeOK
<1> QED BY <1>0, <1>1, <1>6, <1>7, <1>8, <1>9, <1>10, <1>11, WalkStep

(* A directory that is entered: what it holds takes its place.             *)
LEMMA EnterDirKeeps ==
  ASSUME ScanInv, VisitDir, ~Skipped(Head(todo))
  PROVE  ScanInv'
<1> DEFINE h == Head(todo)
<1>0. /\ phase = "scan" /\ todo # <<>> /\ todo' = Children(h) \o Tail(todo) /\ scanErrs' = scanErrs
      /\ UNCHANGED <<source, cfg, runs, phase, prevFiles, waiting, Dirs, latest>>
      /\ tree' = tree /\ cfg' = cfg /\ touched' = touched /\ phase' = phase /\ files' = files
      /\ dirEntries' = (IF h = <<>> THEN dirEntries ELSE Append(dirEntries, h))
      /\ IsDir(h) /\ ~Skipped(h)
  BY DEF VisitDir, source, Skipped
<1>1. /\ h \in Range(todo) /\ h \in AllPaths /\ Tail(todo) \in Seq(AllPaths) /\ IsInjective(Tail(todo))
      /\ \A t : t \in Range(Tail(todo)) <=> t \in Range(todo) /\ t # h
  BY <1>0, VisitNext
<1>2. TypeOK /\ Rooted /\ Reached /\ MetOnce /\ Allowed /\ Lasting /\ NothingMissed
  BY DEF ScanInv, WalkInv
<1>3. DOMAIN tree \subseteq Paths /\ DOMAIN tree \subseteq AllPaths
  BY <1>2, Root DEF TypeOK
<1> HIDE DEF h
<1>4. \A p : /\ IsDir(p)' <=> IsDir(p)
             /\ Skipped(p)' <=> Skipped(p)
             /\ TakesFile(p)' <=> TakesFile(p)
             /\ TakesDir(p)' <=> TakesDir(p)
  BY <1>0, Frame
<1>5. /\ Children(h) \in Seq(DOMAIN tree) /\ IsInjective(Children(h))
      /\ \A c : c \in Range(Children(h)) <=> c \in DOMAIN tree /\ Front(c) = h
  <2>1. /\ Children(h) \in Seq(DOMAIN tree) /\ IsInjective(Children(h))
    BY <1>1, <1>3, ChildrenDef
  <2>2. Range(Children(h)) = {c \in DOMAIN tree : Front(c) = h}
    BY SMT, <1>1, <1>3, ChildrenDef
  <2> QED BY <2>1, <2>2
<1>6. ASSUME NEW c \in Range(Children(h))
      PROVE  c \in Paths /\ c \in AllPaths /\ c \in DOMAIN tree /\ Front(c) = h /\ Below(h, c) /\ h # c
  <2>1. c \in Paths /\ c \in DOMAIN tree /\ Front(c) = h /\ c \in AllPaths
    BY <1>3, <1>5
  <2>2. Below(h, c)
    BY <2>1, FrontDef
  <2> QED BY <2>1, <2>2, <1>1, PrefixOrder
<1>7. Range(Children(h)) \cap Range(Tail(todo)) = {}
  <2>1. ASSUME NEW c \in Range(Children(h)), c \in Range(Tail(todo)) PROVE FALSE
    <3>1. Prefix(h, c) /\ h # c
      BY <1>6 DEF Prefix
    <3> QED BY <3>1, <2>1, <1>1, <1>2 DEF MetOnce
  <2> QED BY <2>1
<1>8. /\ todo' \in Seq(AllPaths) /\ IsInjective(todo')
      /\ \A t : t \in Range(todo') <=> t \in Range(Children(h)) \/ t \in Range(Tail(todo))
  <2>1. Children(h) \in Seq(AllPaths)
    BY SMT, <1>3, <1>5
  <2>2. todo' \in Seq(AllPaths) /\ IsInjective(todo')
    BY <2>1, <1>0, <1>1, <1>5, <1>7, Concat
  <2>3. ASSUME NEW s \in Seq(AllPaths), NEW t \in Seq(AllPaths)
        PROVE  \A x : x \in Range(s \o t) <=> x \in Range(s) \/ x \in Range(t)
    <3>1. Range(s \o t) = Range(s) \cup Range(t)
      BY SMT, Concat
    <3> QED BY <3>1
  <2>4. \A t : t \in Range(Children(h) \o Tail(todo)) <=> t \in Range(Children(h)) \/ t \in Range(Tail(todo))
    BY <2>1, <2>3, <1>1
  <2> QED BY <2>2, <2>4, <1>0
<1>9. /\ dirEntries' \in Seq(Paths) /\ dirs' \subseteq Paths
      /\ \A d : d \in dirs' <=> d \in dirs \/ (d = h /\ h \in Paths)
  <2>1. CASE h = <<>>
    BY <2>1, <1>0, <1>2, Root, RecordedPaths DEF dirs, TypeOK
  <2>2. CASE h # <<>>
    <3>1. h \in Paths
      BY <2>2, <1>1 DEF AllPaths
    <3>2. dirEntries' = Append(dirEntries, h) /\ dirEntries \in Seq(Paths)
      BY <2>2, <1>0, <1>2 DEF TypeOK
    <3>3. dirEntries' \in Seq(Paths)
      BY <3>1, <3>2, AppendOnce
    <3>4. Range(dirEntries') = Range(dirEntries) \cup {h}
      BY SMT, <3>1, <3>2, AppendOnce
    <3> QED BY <3>1, <3>3, <3>4, <1>2, RecordedPaths DEF dirs
  <2> QED BY <2>1, <2>2
<1>10. Reached'
  <2>1. ASSUME NEW p, p \in Range(todo') \/ p \in files \/ p \in dirs', NEW q \in Paths, Below(q, p)
        PROVE  q \in dirs'
    <3>1. CASE p \in Range(Children(h))
      <4>1. Prefix(q, h)
        BY <3>1, <2>1, <1>6, Root, BelowFront
      <4>2. CASE q = h
        BY <4>2, <1>9
      <4>3. CASE Below(q, h)
        BY <4>3, <1>1, <1>2, <1>9 DEF Reached
      <4> QED BY <4>1, <4>2, <4>3 DEF Prefix
    <3>2. CASE p \in Range(todo) \cup files \cup dirs
      BY <3>2, <2>1, <1>2, <1>9 DEF Reached
    <3>3. CASE p = h
      BY <3>3, <2>1, <1>1, <1>2, <1>9 DEF Reached
    <3> QED BY <3>1, <3>2, <3>3, <2>1, <1>1, <1>8, <1>9
  <2> QED BY <2>1, <1>0 DEF Reached
<1>11. MetOnce'
  <2>0. Range(todo) \subseteq AllPaths /\ dirs \subseteq AllPaths /\ files \subseteq AllPaths
    BY <1>2, RecordedPaths
  <2>1. ASSUME NEW c \in Range(Children(h)), NEW p \in AllPaths, Prefix(c, p)
        PROVE  Prefix(h, p) /\ h # p
    <3>1. Prefix(h, c) /\ c \in AllPaths /\ h # c
      BY <1>6 DEF Prefix
    <3>2. Prefix(h, p)
      BY <3>1, <2>1, <1>1, PrefixOrder
    <3>3. Prefix(c, h) => c = h
      BY <3>1, <1>1, PrefixOrder
    <3> QED BY <3>1, <3>2, <3>3, <2>1
  <2>2. ASSUME NEW s \in Range(todo'), NEW t \in Range(todo'), s # t PROVE ~Prefix(s, t)
    <3>1. CASE s \in Range(Children(h)) /\ t \in Range(Children(h))
      <4>1. Below(s, t) => Prefix(s, h)
        BY <3>1, <1>6, BelowFront
      <4>2. Prefix(s, h) => s = h
        BY <3>1, <1>1, <1>6, PrefixOrder DEF Prefix
      <4>3. s # h
        BY <3>1, <1>6
      <4> QED BY <4>1, <4>2, <4>3, <2>2 DEF Prefix
    <3>2. CASE s \in Range(Children(h)) /\ t \in Range(Tail(todo))
      <4>1. t \in Range(todo) /\ t \in AllPaths
        BY <3>2, <2>0, <1>1
      <4>2. ~Prefix(h, t) \/ h = t
        BY <4>1, <1>1, <1>2 DEF MetOnce
      <4> QED BY <4>1, <4>2, <3>2, <2>1
    <3>3. CASE s \in Range(Tail(todo)) /\ t \in Range(Children(h))
      <4>1. s \in Range(todo) /\ s \in AllPaths /\ s # h
        BY <3>3, <2>0, <1>1
      <4>2. ~Prefix(s, h)
        BY <4>1, <1>1, <1>2 DEF MetOnce
      <4>3. Below(s, t) => Prefix(s, h)
        BY <4>1, <3>3, <1>6, BelowFront
      <4> QED BY <4>2, <4>3, <2>2 DEF Prefix
    <3>4. CASE s \in Range(Tail(todo)) /\ t \in Range(Tail(todo))
      BY <3>4, <2>2, <1>1, <1>2 DEF MetOnce
    <3> QED BY <3>1, <3>2, <3>3, <3>4, <1>8
  <2>3. ASSUME NEW t \in Range(todo'), NEW p, p \in files \/ p \in dirs' PROVE ~Prefix(t, p)
    <3>0. p \in AllPaths /\ (p \in files \cup dirs \/ p = h)
      <4>1. CASE p \in files
        BY <4>1, <2>0
      <4>2. CASE p \in dirs'
        <5>1. p \in dirs \/ p = h
          BY <4>2, <1>9
        <5> QED BY <5>1, <2>0, <1>1
      <4> QED BY <4>1, <4>2, <2>3
    <3>1. p \in files \cup dirs => ~Prefix(h, p)
      BY <1>1, <1>2 DEF MetOnce
    <3>2. CASE t \in Range(Children(h))
      BY <3>0, <3>1, <3>2, <2>1
    <3>3. CASE t \in Range(Tail(todo))
      <4>1. t \in Range(todo) /\ t # h
        BY <3>3, <1>1
      <4> QED BY <4>1, <3>0, <1>1, <1>2 DEF MetOnce
    <3> QED BY <3>2, <3>3, <1>8
  <2>4. h \notin files
    BY <1>1, <1>2 DEF MetOnce, Prefix
  <2>5. files \cap dirs' = {}
    BY <2>4, <1>2, <1>9 DEF MetOnce
  <2> QED BY <2>2, <2>3, <2>5, <1>0, <1>8 DEF MetOnce
<1>12. Allowed'
  <2>1. ASSUME NEW d \in dirs' PROVE ~Skipped(d)
    <3>1. d \in dirs \/ d = h
      BY <1>9
    <3> QED BY <3>1, <1>0, <1>2 DEF Allowed
  <2> QED BY <2>1, <1>0, <1>2, <1>4 DEF Allowed
<1>13. Lasting'
  <2>1. \A p \in dirs' \ touched : IsDir(p)
    BY <1>0, <1>2, <1>9 DEF Lasting
  <2> QED BY <2>1, <1>0, <1>2, <1>4 DEF Lasting
<1>14. NothingMissed'
  <2>1. ASSUME scanErrs = 0, NEW p \in Paths \ touched, TakesFile(p) \/ TakesDir(p)
        PROVE  p \in files \/ p \in dirs' \/ \E t \in Range(todo') : Prefix(t, p)
    <3>1. p \in files \cup dirs \/ \E t \in Range(todo) : Prefix(t, p)
      BY <2>1, <1>0, <1>2 DEF NothingMissed, Scanning
    <3>2. CASE p \in files \cup dirs
      BY <3>2, <1>9
    <3>3. CASE \E t \in Range(todo) : Prefix(t, p)
      <4>1. PICK t \in Range(todo) : Prefix(t, p)
        BY <3>3
      <4>2. CASE t # h
        BY <4>1, <4>2, <1>1, <1>8
      <4>3. CASE t = h /\ p = h
        BY <4>3, <1>9
      <4>4. CASE t = h /\ p # h
        <5>1. Below(h, p)
          BY <4>1, <4>4 DEF Prefix
        <5>2. PICK c \in Paths : Front(c) = h /\ Prefix(c, p)
          BY <5>1, <1>1, NextName
        <5>3. c \in DOMAIN tree
          <6>1. p \in DOMAIN tree
            BY <2>1 DEF TakesFile, TakesDir
          <6> QED BY <6>1, <5>2, <1>2, TreePrefix
        <5> QED BY <5>2, <5>3, <1>5, <1>8
      <4> QED BY <4>2, <4>3, <4>4
    <3> QED BY <3>1, <3>2, <3>3
  <2> QED BY <2>1, <1>0, <1>4 DEF NothingMissed
<1>15. scanErrs' \in Nat /\ files \subseteq files' /\ files' \subseteq Paths
  BY <1>0, <1>2 DEF TypeOK
<1> QED BY <1>0, <1>8, <1>9, <1>10, <1>11, <1>12, <1>13, <1>14, <1>15, WalkStep

LEMMA VisitDirKeeps ==
  ASSUME ScanInv, VisitDir
  PROVE  ScanInv'
BY SkipDirKeeps, EnterDirKeeps

(* Run begins: the walk has all of the source in front of it.              *)
LEMMA StartRunKeeps ==
  ASSUME ScanInv, StartRun
  PROVE  ScanInv'
<1>0. /\ phase' = "scan" /\ tree' = tree /\ touched' = touched /\ latest' = latest
      /\ todo' = <<<<>>>> /\ files' = {} /\ dirEntries' = <<>> /\ scanErrs' = 0 /\ waiting' = {}
      /\ prevFiles' \in {LoadPreviousFiles, nil} /\ src' = src
  BY DEF StartRun, source
<1>1. TypeOK /\ Rooted /\ BaselineInv
  BY DEF ScanInv, WalkInv
<1>2. \A p : IsDir(p)' <=> IsDir(p)
  BY <1>0 DEF IsDir
<1>3. todo' \in Seq(AllPaths) /\ IsInjective(todo')
  <2>1. <<<<>>>> \in Seq(AllPaths)
    BY SMT, Root
  <2>2. IsInjective(<<<<>>>>)
    BY SMT DEF IsInjective
  <2> QED BY <2>1, <2>2, <1>0
<1>4. \A t : t \in Range(todo') <=> t = <<>>
  <2>1. \A t : t \in Range(<<<<>>>>) <=> t = <<>>
    BY SMT DEF Range
  <2> QED BY <2>1, <1>0
<1>5. dirEntries' \in Seq(Paths) /\ \A d : d \notin dirs'
  <2>1. EmptySeq(Paths)
    BY EmptySeqDef
  <2> QED BY <2>1, <1>0 DEF EmptySeq, dirs
<1>6. scanErrs' \in Nat
  BY SMT, <1>0
<1>7. TypeOK'
  <2>1. PICK c \in src.configs, ignored \in LoadIgnoreFile : cfg' = MergeExcludes(c, ignored)
    BY DEF StartRun
  <2>2. /\ c.positives \cup c.negatives \subseteq Seq(STRING) \ {<<>>}
        /\ ignored.positives \cup ignored.negatives \subseteq Seq(STRING) \ {<<>>}
    <3>1. src \in Sources
      BY <1>1 DEF TypeOK
    <3>2. CASE ignored = NoPatterns
      BY <3>1, <3>2, PatternAssumption DEF NoPatterns
    <3>3. CASE ignored \in src.ignoreFiles
      BY <3>1, <3>3, PatternAssumption
    <3> QED BY <3>2, <3>3 DEF LoadIgnoreFile
  <2>3. /\ cfg'.positives \subseteq c.positives \cup ignored.positives
        /\ cfg'.negatives \subseteq c.negatives \cup ignored.negatives
    BY SMT, <2>1 DEF MergeExcludes
  <2> QED BY <1>0, <1>1, <1>3, <1>5, <1>6, <2>2, <2>3 DEF TypeOK, Scanning
<1>8. Rooted'
  BY <1>0, <1>1, <1>2 DEF Rooted
<1>9. Reached'
  <2>1. ASSUME NEW q \in Paths PROVE ~Below(q, <<>>)
    BY Root, PrefixOrder
  <2> QED BY <2>1, <1>0, <1>4, <1>5 DEF Reached
<1>10. MetOnce'
  <2>1. files' \cap dirs' = {}
    BY <1>0
  <2>2. \A p : p \notin files' \cup dirs'
    BY <1>0, <1>5
  <2>3. ASSUME NEW s \in Range(todo'), NEW t \in Range(todo') PROVE s = t
    <3>1. s = <<>> /\ t = <<>>
      BY <1>4
    <3> QED BY <3>1
  <2> QED BY <2>1, <2>2, <2>3, <1>3 DEF MetOnce
<1>11. Allowed' /\ Lasting'
  BY <1>0, <1>5 DEF Allowed, Lasting
<1>12. NothingMissed'
  <2>1. ASSUME NEW p \in Paths PROVE Prefix(<<>>, p)
    BY Root, PrefixOrder
  <2> QED BY <2>1, <1>0, <1>4 DEF NothingMissed
<1>13. ManifestInv'
  BY <1>0 DEF ManifestInv
<1>14. BaselineInv'
  <2>1. prevFiles'.exists => latest.exists /\ latest.scanErrs = 0 
                            /\ prevFiles'.files = latest.files /\ prevFiles'.cfg = latest.cfg
    BY SMT, <1>0 DEF LoadPreviousFiles, Baseline, nil
  <2>2. latest.exists /\ latest.scanErrs = 0 => Complete(latest.files, latest.cfg)
    BY <1>1 DEF BaselineInv
  <2>3. \A p, c : Takes(p, c)' <=> Takes(p, c)
    BY <1>0, TakesFrame
  <2> QED BY <2>1, <2>2, <2>3, <1>0 DEF BaselineInv, Complete
<1> QED BY <1>7, <1>8, <1>9, <1>10, <1>11, <1>12, <1>13, <1>14 DEF ScanInv, WalkInv

(* The steps after the walk change neither the source nor what was met.    *)
LEMMA LaterStep ==
  ASSUME ScanInv, UNCHANGED <<source, cfg, prevFiles, scan>>,
         phase' \in Scanning \cup {"idle", "failed"}, phase' \in Scanning => phase \in Scanning,
         waiting' \subseteq files, ManifestInv',
         latest'.exists /\ latest'.scanErrs = 0 => Complete(latest'.files, latest'.cfg)
  PROVE  ScanInv'
<1>0. /\ tree' = tree /\ touched' = touched /\ cfg' = cfg /\ prevFiles' = prevFiles
      /\ todo' = todo /\ files' = files /\ dirEntries' = dirEntries /\ scanErrs' = scanErrs
      /\ dirs' = dirs /\ src' = src
  BY DEF source, scan, dirs
<1>1. TypeOK /\ WalkInv /\ BaselineInv
  BY DEF ScanInv
<1>2. \A p : /\ IsDir(p)' <=> IsDir(p)
             /\ Skipped(p)' <=> Skipped(p)
             /\ TakesFile(p)' <=> TakesFile(p)
             /\ TakesDir(p)' <=> TakesDir(p)
  BY <1>0, Frame
<1>3. TypeOK'
  BY <1>0, <1>1 DEF TypeOK
<1>4. Rooted'
  BY <1>0, <1>1, <1>2 DEF WalkInv, Rooted
<1>5. Reached' /\ MetOnce'
  BY <1>0, <1>1 DEF WalkInv, Reached, MetOnce
<1>6. Allowed' /\ Lasting'
  BY <1>0, <1>1, <1>2 DEF WalkInv, Allowed, Lasting
<1>7. NothingMissed'
  BY <1>0, <1>1, <1>2 DEF WalkInv, NothingMissed
<1>8. BaselineInv'
  <2>1. \A p, c : Takes(p, c)' <=> Takes(p, c)
    BY <1>0, TakesFrame
  <2> QED BY <1>0, <1>1, <2>1 DEF BaselineInv, Complete
<1> QED BY <1>3, <1>4, <1>5, <1>6, <1>7, <1>8 DEF ScanInv, WalkInv

LEMMA EndScanKeeps ==
  ASSUME ScanInv, EndScan
  PROVE  ScanInv'
<1>0. /\ phase = "scan" /\ todo = <<>> /\ todo' = todo /\ files' = files /\ dirEntries' = dirEntries
      /\ UNCHANGED <<source, cfg, prevFiles, scan>> /\ latest' = latest
  BY DEF EndScan, scan
<1>1. TypeOK /\ Reached /\ BaselineInv
  BY DEF ScanInv, WalkInv
<1>2. latest'.exists /\ latest'.scanErrs = 0 => Complete(latest'.files, latest'.cfg)
  BY <1>0, <1>1 DEF BaselineInv
<1>3. CASE phase' = "failed" /\ UNCHANGED <<waiting, Dirs>>
  <2>1. ManifestInv'
    BY <1>3 DEF ManifestInv
  <2>2. waiting' \subseteq files
    BY <1>3, <1>1 DEF TypeOK
  <2> QED BY <2>1, <2>2, <1>0, <1>2, <1>3, LaterStep DEF Scanning
<1>4. CASE phase' = "upload" /\ waiting' = files /\ Dirs' = AddEmptyDirs
  <2>1. /\ TreeOf(AddEmptyDirs, {})
        /\ \A d \in dirs : ~HasChildren(d) => d \in DOMAIN AddEmptyDirs
    BY <1>1, AddEmptyDirsDef DEF TypeOK, Reached
  <2>2. files \ files = {}
    OBVIOUS
  <2>3. TreeOf(Dirs, files \ waiting)'
    BY <2>1, <2>2, <1>0, <1>4 DEF TreeOf, Listed, dirs
  <2>4. (\A d \in dirs : ~HasChildren(d) => d \in DOMAIN Dirs)'
    BY <2>1, <1>0, <1>4 DEF HasChildren, dirs
  <2>5. ManifestInv'
    BY <2>3, <2>4, <1>0, <1>4 DEF ManifestInv
  <2> QED BY <2>5, <1>0, <1>2, <1>4, LaterStep DEF Scanning
<1> QED BY <1>3, <1>4 DEF EndScan

(* A worker is done with a file: the manifest holds it from then on.       *)
LEMMA RecordKeeps ==
  ASSUME ScanInv, NEW path \in waiting, Record(path)
  PROVE  ScanInv'
<1>0. /\ phase = "upload" /\ phase' = phase /\ waiting' = waiting \ {path} /\ Dirs' = AddFile(Dirs, path)
      /\ UNCHANGED <<source, cfg, prevFiles, scan>> /\ latest' = latest
      /\ todo' = todo /\ files' = files /\ dirEntries' = dirEntries
  BY DEF Record, scan
<1>1. TypeOK /\ Reached /\ BaselineInv /\ ManifestInv
  BY DEF ScanInv, WalkInv
<1>2. latest'.exists /\ latest'.scanErrs = 0 => Complete(latest'.files, latest'.cfg)
  BY <1>0, <1>1 DEF BaselineInv
<1>3. /\ todo = <<>> /\ TreeOf(Dirs, files \ waiting)
      /\ \A d \in dirs : ~HasChildren(d) => d \in DOMAIN Dirs
  BY <1>0, <1>1 DEF ManifestInv
<1>4. path \in files /\ path \in Paths /\ waiting \subseteq files /\ files \subseteq Paths
  BY <1>1 DEF TypeOK
<1>5. \A q \in Paths : Below(q, path) => q \in dirs
  BY <1>1, <1>4 DEF Reached
<1>6. TreeOf(AddFile(Dirs, path), (files \ waiting) \cup {path}) /\ DOMAIN Dirs \subseteq DOMAIN AddFile(Dirs, path)
  <2>1. files \ waiting \subseteq Paths /\ path \notin files \ waiting
    BY <1>4
  <2> QED BY <2>1, <1>3, <1>4, <1>5, AddFileDef
<1>7. (files \ waiting) \cup {path} = files \ (waiting \ {path})
  BY <1>4
<1>8. TreeOf(AddFile(Dirs, path), files \ (waiting \ {path}))
  BY <1>6, <1>7
<1>9. TreeOf(Dirs, files \ waiting)'
  BY <1>8, <1>0 DEF TreeOf, Listed, dirs
<1>10. (\A d \in dirs : ~HasChildren(d) => d \in DOMAIN Dirs)'
  BY <1>3, <1>6, <1>0 DEF HasChildren, dirs
<1>11. ManifestInv'
  BY <1>3, <1>9, <1>10, <1>0 DEF ManifestInv
<1>12. waiting' \subseteq files
  BY <1>0, <1>4
<1> QED BY <1>0, <1>2, <1>11, <1>12, LaterStep DEF Scanning

LEMMA CancelKeeps ==
  ASSUME ScanInv, Cancel
  PROVE  ScanInv'
<1>1. TypeOK /\ BaselineInv
  BY DEF ScanInv
<1>2. /\ phase' = "failed" /\ UNCHANGED <<source, cfg, prevFiles, scan>>
      /\ latest' = latest /\ waiting' = waiting
  BY DEF Cancel
<1>3. ManifestInv'
  BY <1>2 DEF ManifestInv
<1>4. waiting' \subseteq files
  BY <1>1, <1>2 DEF TypeOK
<1>5. latest'.exists /\ latest'.scanErrs = 0 => Complete(latest'.files, latest'.cfg)
  BY <1>1, <1>2 DEF BaselineInv
<1> QED BY <1>2, <1>3, <1>4, <1>5, LaterStep DEF Scanning

(* The files of the manifest are those the workers are done with.          *)
LEMMA FileMap ==
  ASSUME NEW done, done \subseteq Paths, TreeOf(Dirs, done)
  PROVE  BuildFileMap = done
<1>1. ASSUME NEW d \in DOMAIN Dirs, NEW name \in Range(Dirs[d].files)
      PROVE  Append(d, name) \in done
  <2>1. name \in Names
    <3>1. Dirs[d].files \in Seq(Names)
      BY EntryDef DEF TreeOf, Listed
    <3> QED BY SMT, <3>1 DEF Range
  <2>2. PICK f \in done : Front(f) = d /\ Last(f) = name
    BY <2>1 DEF TreeOf
  <2>3. Append(d, name) = f
    BY <2>2, FrontAndLast
  <2> QED BY <2>2, <2>3
<1>2. ASSUME NEW f \in done
      PROVE  \E d \in DOMAIN Dirs : \E name \in Range(Dirs[d].files) : f = Append(d, name)
  <2>1. Front(f) \in DOMAIN Dirs /\ Last(f) \in Names /\ Append(Front(f), Last(f)) = f
    BY FrontDef, FrontAndLast DEF TreeOf
  <2>2. Last(f) \in Range(Dirs[Front(f)].files)
    BY <2>1 DEF TreeOf
  <2> QED BY <2>1, <2>2
<1>3. ASSUME NEW f \in BuildFileMap PROVE f \in done
  <2>1. PICK d \in DOMAIN Dirs : f \in {Append(d, name) : name \in Range(Dirs[d].files)}
    BY DEF BuildFileMap
  <2>2. PICK name \in Range(Dirs[d].files) : f = Append(d, name)
    BY <2>1
  <2> QED BY <2>2, <1>1
<1>4. ASSUME NEW f \in done PROVE f \in BuildFileMap
  <2>1. PICK d \in DOMAIN Dirs : \E name \in Range(Dirs[d].files) : f = Append(d, name)
    BY <1>2
  <2>2. f \in {Append(d, n) : n \in Range(Dirs[d].files)}
    BY <2>1
  <2> QED BY <2>2 DEF BuildFileMap
<1> QED BY <1>3, <1>4

(* At the end of a walk without errors it has recorded all there is to.    *)
LEMMA WalkIsComplete ==
  ASSUME ScanInv, phase \in Scanning, todo = <<>>, scanErrs = 0
  PROVE  /\ Complete(files, cfg)
         /\ \A p \in Paths \ touched : /\ TakesFile(p) => p \in files
                                       /\ TakesDir(p) => p \in dirs
<1>1. TypeOK /\ Reached /\ Allowed /\ Lasting /\ NothingMissed
  BY DEF ScanInv, WalkInv
<1>2. \A t : t \notin Range(todo)
  <2>1. EmptySeq(Paths)
    BY EmptySeqDef
  <2> QED BY <2>1 DEF EmptySeq
<1>3. \A p \in Paths \ touched : TakesFile(p) \/ TakesDir(p) => p \in files \cup dirs
  BY <1>1, <1>2 DEF NothingMissed
<1>4. ASSUME NEW p \in Paths \ touched, p \in files PROVE TakesFile(p)
  <2>1. p \in DOMAIN tree /\ ~IsDir(p) /\ ~IsSizeExcluded(tree[p].size, cfg) /\ ~IsExcluded(p, cfg)
    BY <1>1, <1>4 DEF Lasting, Allowed
  <2>2. Entered(p)
    BY <1>1, <1>4 DEF Reached, Allowed, Entered
  <2> QED BY <2>1, <2>2 DEF TakesFile
<1>5. ASSUME NEW p \in Paths \ touched, TakesFile(p) PROVE p \in files
  <2>1. p \notin dirs
    BY <1>1, <1>5 DEF TakesFile, Lasting
  <2> QED BY <2>1, <1>3, <1>5
<1>6. ASSUME NEW p \in Paths \ touched, TakesDir(p) PROVE p \in dirs
  <2>1. p \notin files
    BY <1>1, <1>6 DEF TakesDir, Lasting
  <2> QED BY <2>1, <1>3, <1>6
<1>7. files \subseteq Paths
  BY <1>1 DEF TypeOK
<1>8. ASSUME NEW p \in Paths PROVE TakesFile(p) <=> Takes(p, cfg)
  BY DEF TakesFile, Takes, KeptOut, Entered, Skipped
<1> QED BY <1>4, <1>5, <1>6, <1>7, <1>8 DEF Complete

LEMMA SaveManifestKeeps ==
  ASSUME ScanInv, SaveManifest
  PROVE  ScanInv'
<1>0. /\ phase = "upload" /\ phase' = "saved" /\ waiting = {} /\ waiting' = waiting /\ Dirs' = Dirs
      /\ latest' = [files |-> BuildFileMap, scanErrs |-> scanErrs, exists |-> TRUE, cfg |-> cfg]
      /\ UNCHANGED <<source, cfg, prevFiles, scan>>
      /\ todo' = todo /\ files' = files /\ dirEntries' = dirEntries
  BY DEF SaveManifest, scan
<1>1. TypeOK /\ ManifestInv
  BY DEF ScanInv
<1>2. /\ todo = <<>> /\ TreeOf(Dirs, files \ waiting)
      /\ \A d \in dirs : ~HasChildren(d) => d \in DOMAIN Dirs
  BY <1>0, <1>1 DEF ManifestInv
<1>3. BuildFileMap = files
  <2>1. files \ waiting = files /\ files \subseteq Paths
    BY <1>0, <1>1 DEF TypeOK
  <2>2. TreeOf(Dirs, files)
    BY <2>1, <1>2
  <2> QED BY <2>1, <2>2, FileMap
<1>4. latest'.files = files /\ latest'.scanErrs = scanErrs /\ latest'.cfg = cfg
  BY <1>0, <1>3
<1>5. latest'.exists /\ latest'.scanErrs = 0 => Complete(latest'.files, latest'.cfg)
  BY <1>0, <1>2, <1>4, WalkIsComplete DEF Scanning
<1>6. TreeOf(Dirs, files \ waiting)'
  <2>1. Dirs' = Dirs /\ files' = files /\ waiting' = waiting /\ dirEntries' = dirEntries
    BY <1>0
  <2> QED BY <2>1, <1>2 DEF TreeOf, Listed, dirs
<1>7. (\A d \in dirs : ~HasChildren(d) => d \in DOMAIN Dirs)'
  BY <1>0, <1>2 DEF HasChildren, dirs
<1>8. ManifestInv'
  BY <1>0, <1>2, <1>6, <1>7 DEF ManifestInv
<1>9. waiting' \subseteq files
  BY <1>0
<1> QED BY <1>0, <1>5, <1>8, <1>9, LaterStep DEF Scanning

LEMMA InitHolds ==
  ASSUME Init
  PROVE  ScanInv
<1>0. /\ src \in Sources /\ tree = src.tree /\ touched = {} /\ cfg = NoPatterns /\ phase = "idle" /\ prevFiles = nil
      /\ todo = <<>> /\ files = {} /\ dirEntries = <<>> /\ scanErrs = 0 /\ waiting = {} /\ latest = NoManifest
  BY DEF Init
<1>1. EmptySeq(Paths) /\ EmptySeq(AllPaths)
  BY EmptySeqDef
<1>2. /\ todo \in Seq(AllPaths) /\ IsInjective(todo) /\ dirEntries \in Seq(Paths)
      /\ \A t : t \notin Range(todo)
      /\ \A d : d \notin dirs
  BY <1>0, <1>1 DEF EmptySeq, dirs
<1>3. DOMAIN tree \subseteq Paths
  BY <1>0, TreeAssumption
<1>4. TypeOK
  <2>1. scanErrs \in Nat
    BY SMT, <1>0
  <2> QED BY <2>1, <1>0, <1>2, <1>3 DEF TypeOK, NoPatterns
<1>5. Rooted
  BY <1>0, TreeAssumption DEF Rooted, IsDir
<1>6. Reached /\ Allowed /\ Lasting
  BY <1>0, <1>2 DEF Reached, Allowed, Lasting
<1>7. MetOnce
  <2>1. files \cap dirs = {}
    BY <1>0
  <2> QED BY <2>1, <1>2 DEF MetOnce
<1>8. NothingMissed
  BY <1>0 DEF NothingMissed, Scanning
<1>9. ManifestInv
  BY <1>0 DEF ManifestInv
<1>10. ~latest.exists /\ ~prevFiles.exists
  BY SMT, <1>0 DEF NoManifest, nil
<1>11. BaselineInv
  BY <1>10 DEF BaselineInv
<1> QED BY <1>4, <1>5, <1>6, <1>7, <1>8, <1>9, <1>11 DEF ScanInv, WalkInv

LEMMA StutterKeeps ==
  ASSUME ScanInv, UNCHANGED vars
  PROVE  ScanInv'
<1>0. /\ UNCHANGED <<source, cfg, prevFiles, scan>> /\ phase' = phase /\ waiting' = waiting /\ latest' = latest
      /\ Dirs' = Dirs /\ todo' = todo /\ files' = files /\ dirEntries' = dirEntries
  BY DEF vars, scan
<1>1. TypeOK /\ ManifestInv /\ BaselineInv
  BY DEF ScanInv
<1>2. ManifestInv'
  BY <1>0, <1>1 DEF ManifestInv, TreeOf, Listed, HasChildren, dirs
<1>3. waiting' \subseteq files
  BY <1>0, <1>1 DEF TypeOK
<1>4. latest'.exists /\ latest'.scanErrs = 0 => Complete(latest'.files, latest'.cfg)
  BY <1>0, <1>1 DEF BaselineInv
<1>5. phase' \in Scanning \cup {"idle", "failed"}
  BY <1>0, <1>1 DEF TypeOK
<1> QED BY <1>0, <1>2, <1>3, <1>4, <1>5, LaterStep

(* The inductive invariant: what the walk has recorded, has in front of it *)
(* and has left out, what the tree of the manifest holds, and what the     *)
(* manifests that may serve as a baseline hold (scanSourceTree, AddFile,   *)
(* AddEmptyDir, loadPreviousFiles).                                        *)
THEOREM ScanInvariant == Spec => []ScanInv
<1>1. Init => ScanInv
  BY InitHolds
<1>2. ScanInv /\ [Next]_vars => ScanInv'
  <2> SUFFICES ASSUME ScanInv, [Next]_vars PROVE ScanInv'
    OBVIOUS
  <2>1. ASSUME NEW path \in Paths, CreatePath(path) PROVE ScanInv'
    BY <2>1, CreatePathKeeps
  <2>2. ASSUME NEW path \in Paths, RemovePath(path) PROVE ScanInv'
    BY <2>2, RemovePathKeeps
  <2>3. CASE StartRun
    BY <2>3, StartRunKeeps
  <2>4. CASE VisitError
    BY <2>4, VisitErrorKeeps
  <2>5. CASE VisitDir
    BY <2>5, VisitDirKeeps
  <2>6. CASE VisitFile
    BY <2>6, VisitFileKeeps
  <2>7. CASE EndScan
    BY <2>7, EndScanKeeps
  <2>8. ASSUME NEW path \in waiting, Record(path) PROVE ScanInv'
    BY <2>8, RecordKeeps
  <2>9. CASE Cancel
    BY <2>9, CancelKeeps
  <2>10. CASE SaveManifest
    BY <2>10, SaveManifestKeeps
  <2>11. CASE UNCHANGED vars
    BY <2>11, StutterKeeps
  <2> QED BY <2>1, <2>2, <2>3, <2>4, <2>5, <2>6, <2>7, <2>8, <2>9, <2>10, <2>11 DEF Next
<1> QED BY <1>1, <1>2, PTL DEF Spec

-----------------------------------------------------------------------------
(* What follows of a manifest that is saved                                *)

LEMMA SavedTree ==
  ASSUME ScanInv, phase = "saved"
  PROVE  /\ todo = <<>> /\ BuildFileMap = files /\ TreeOf(Dirs, files)
         /\ files \subseteq Paths /\ dirs \subseteq Paths /\ dirs \subseteq DOMAIN Dirs
         /\ \A p \in InManifest : p \in files \cup dirs
<1>1. TypeOK /\ ManifestInv
  BY DEF ScanInv
<1>2. /\ todo = <<>> /\ waiting = {} /\ TreeOf(Dirs, files \ waiting)
      /\ \A d \in dirs : ~HasChildren(d) => d \in DOMAIN Dirs
  BY <1>1 DEF ManifestInv
<1>3. files \subseteq Paths /\ dirs \subseteq Paths
  BY <1>1, RecordedPaths
<1>4. TreeOf(Dirs, files)
  <2>1. files \ waiting = files
    BY <1>2
  <2> QED BY <2>1, <1>2
<1>5. BuildFileMap = files
  BY <1>3, <1>4, FileMap
<1>6. dirs \subseteq DOMAIN Dirs
  BY <1>1, <1>2, <1>4, DirsAreHeld DEF TreeOf
<1>7. \A p \in InManifest : p \in files \cup dirs
  BY <1>4, <1>5 DEF InManifest, TreeOf
<1> QED BY <1>2, <1>3, <1>4, <1>5, <1>6, <1>7

(* Every manifest saved lists each file and each directory of its scan     *)
(* once, in the directory it is in, and nothing else, in whatever order    *)
(* the workers call AddFile (AddFile, AddEmptyDir, ensureParentDirs).      *)
THEOREM TreesAreWhole == Spec => []TreeIsWhole
<1>1. ScanInv => TreeIsWhole
  <2> SUFFICES ASSUME ScanInv, phase = "saved" PROVE TreeIsWhole
    BY DEF TreeIsWhole
  <2>1. /\ BuildFileMap = files /\ TreeOf(Dirs, files) /\ files \subseteq Paths
        /\ dirs \subseteq Paths /\ dirs \subseteq DOMAIN Dirs
    BY SavedTree
  <2>2. files \cap dirs = {}
    BY DEF ScanInv, WalkInv, MetOnce
  <2>3. \A c \in DOMAIN Dirs : c # <<>> => c \in dirs /\ c \in Paths
    BY <2>1 DEF TreeOf
  <2>4. ASSUME NEW d \in DOMAIN Dirs
        PROVE  /\ IsInjective(Dirs[d].files \o Dirs[d].subdirs)
               /\ Range(Dirs[d].subdirs) = {Last(c) : c \in {e \in DOMAIN Dirs : e # <<>> /\ Front(e) = d}}
               /\ d = <<>> \/ Front(d) \in DOMAIN Dirs
    <3>1. /\ Dirs[d].files \in Seq(Names) /\ Dirs[d].subdirs \in Seq(Names)
          /\ IsInjective(Dirs[d].files) /\ IsInjective(Dirs[d].subdirs)
          /\ d = <<>> \/ Front(d) \in DOMAIN Dirs
      BY <2>1, EntryDef DEF TreeOf, Listed
    <3>2. /\ Range(Dirs[d].files) \subseteq Names /\ Range(Dirs[d].subdirs) \subseteq Names
      BY SMT, <3>1 DEF Range
    <3>3. \A x \in Names : /\ x \in Range(Dirs[d].files) <=> \E f \in files : Front(f) = d /\ Last(f) = x
                           /\ x \in Range(Dirs[d].subdirs) <=>
                                 \E c \in DOMAIN Dirs : c # <<>> /\ Front(c) = d /\ Last(c) = x
      BY <2>1 DEF TreeOf, Listed
    <3>4. ASSUME NEW x \in Range(Dirs[d].files), x \in Range(Dirs[d].subdirs) PROVE FALSE
      <4>1. PICK f \in files : Front(f) = d /\ Last(f) = x
        BY <3>2, <3>3
      <4>2. PICK c \in DOMAIN Dirs : c # <<>> /\ Front(c) = d /\ Last(c) = x
        BY <3>2, <3>3, <3>4
      <4>3. f = c
        BY <4>1, <4>2, <2>1, <2>3, SamePath
      <4> QED BY <4>2, <4>3, <2>2, <2>3
    <3>5. Range(Dirs[d].files) \cap Range(Dirs[d].subdirs) = {}
      BY <3>4
    <3>6. IsInjective(Dirs[d].files \o Dirs[d].subdirs)
      BY <3>1, <3>5, Concat
    <3>7. ASSUME NEW x
          PROVE  x \in Range(Dirs[d].subdirs) <=>
                    x \in {Last(c) : c \in {e \in DOMAIN Dirs : e # <<>> /\ Front(e) = d}}
      <4>1. \A c \in DOMAIN Dirs : c # <<>> => Last(c) \in Names
        BY <2>3, FrontDef
      <4> QED BY <4>1, <3>2, <3>3
    <3>8. Range(Dirs[d].subdirs) = {Last(c) : c \in {e \in DOMAIN Dirs : e # <<>> /\ Front(e) = d}}
      BY <3>7
    <3> QED BY <3>1, <3>6, <3>8
  <2> QED BY <2>1, <2>4 DEF TreeIsWhole, dirs
<1> QED BY <1>1, ScanInvariant, PTL

(* Every file that a complete backup reports as new or deleted was created *)
(* or removed since the first walk, or is left out under the patterns of   *)
(* one of the two backups that are compared and not under the other's,     *)
(* however many backups failed, were cancelled or saved with errors in     *)
(* between, and whatever the users set and the ignore file held for each   *)
(* (loadPreviousFiles, loadExcludePatterns, countDeletedFiles).            *)
THEOREM ReportsAreTrue == Spec => []ReportedHasChanged
<1>1. ScanInv => ReportedHasChanged
  <2> SUFFICES ASSUME ScanInv, phase = "saved", scanErrs = 0, prevFiles.exists,
                      NEW path \in (DeletedFiles \cup NewFiles) \ touched
               PROVE  KeptOut(path, cfg) # KeptOut(path, prevFiles.cfg)
    BY DEF ReportedHasChanged
  <2>1. Complete(prevFiles.files, prevFiles.cfg)
    BY DEF ScanInv, BaselineInv
  <2>2. Complete(files, cfg)
    BY SavedTree, WalkIsComplete DEF Scanning
  <2>3. \/ path \in prevFiles.files /\ path \notin files
        \/ path \in files /\ path \notin prevFiles.files
    <3>1. CASE path \in DeletedFiles
      BY <3>1 DEF DeletedFiles
    <3>2. CASE path \in NewFiles
      BY <3>2 DEF NewFiles
    <3> QED BY <3>1, <3>2
  <2> QED BY <2>1, <2>2, <2>3 DEF Complete, Takes
<1> QED BY <1>1, ScanInvariant, PTL

LEMMA PatternsAreSeqs ==
  ASSUME TypeOK
  PROVE  /\ \A pattern \in cfg.positives : pattern \in Seq(STRING) /\ pattern # <<>>
         /\ \A pattern \in cfg.negatives : pattern \in Seq(STRING) /\ pattern # <<>>
BY DEF TypeOK

(* What a walk without errors leaves out of what is there throughout is    *)
(* what some pattern or size filter speaks of, or what a restore left      *)
(* behind: MatchPattern finds nothing else, ParseSizeFilter makes nothing  *)
(* else of a filter, and scanSourceTree, addEmptyDirs and AddFile lose     *)
(* nothing (scanSourceTree, MatchPattern, IsSizeExcluded).                 *)
THEOREM NothingIsOmitted == Spec => []NothingOmitted
<1>1. ScanInv => NothingOmitted
  <2> SUFFICES ASSUME ScanInv, phase = "saved", scanErrs = 0, NEW path \in DOMAIN tree \ touched,
                      \A n \in Range(path) : n \notin TmpNames \cup {IgnoreFileName},
                      \A pattern \in cfg.positives : ~SaysOf(pattern, path) /\ ~Loose(pattern),
                      ~IsDir(path) => \A f \in cfg.sizes : ~SizeSays(f, tree[path].size)
               PROVE  path \in InManifest
    BY DEF NothingOmitted
  <2>1. TypeOK /\ path \in Paths /\ path \in AllPaths
    BY Root DEF ScanInv, TypeOK
  <2>2. /\ todo = <<>> /\ BuildFileMap = files /\ dirs \subseteq DOMAIN Dirs /\ dirs \subseteq Paths
    BY SavedTree
  <2>3. /\ TakesFile(path) => path \in files
        /\ TakesDir(path) => path \in dirs
    <3>1. path \in Paths \ touched
      BY <2>1
    <3>2. phase \in Scanning
      BY DEF Scanning
    <3>3. \A p \in Paths \ touched : (TakesFile(p) => p \in files) /\ (TakesDir(p) => p \in dirs)
      BY <2>2, <3>2, WalkIsComplete
    <3> QED BY <3>1, <3>3
  <2>4. ASSUME NEW q \in Paths, Prefix(q, path) PROVE ~IsExcluded(q, cfg) /\ ~Skipped(q)
    <3>1. Last(q) \in Range(path)
      <4>1. q \in Seq(Names) /\ path \in Seq(Names) /\ Len(q) # 0 /\ q \in AllPaths
        BY <2>1, Root, PathIsSeq
      <4>2. Len(q) <= Len(path) /\ \A i \in 1 .. Len(q) : q[i] = path[i]
        BY <4>1, <2>4, PrefixDef
      <4> QED BY SMT, <4>1, <4>2 DEF Last, Range
    <3>2. ASSUME NEW pattern \in cfg.positives PROVE ~MatchPattern(q, pattern)
      <4>1. pattern \in Seq(STRING) /\ q \in AllPaths /\ q \in Seq(Names)
        BY <2>1, Root, PathIsSeq, PatternsAreSeqs
      <4>2. ~SaysOf(pattern, q)
        BY <4>1, <2>1, <2>4, SaysOfBelow
      <4> QED BY <4>1, <4>2, MatchIsSound
    <3>3. ~IsExcluded(q, cfg)
      BY <3>1, <3>2 DEF IsExcluded
    <3> QED BY <3>1, <3>3 DEF Skipped, IsSkipped, ShouldSkipDir
  <2>5. Entered(path)
    BY <2>4 DEF Entered, Prefix
  <2>6. CASE IsDir(path)
    <3>1. TakesDir(path)
      BY <2>4, <2>5, <2>6, <2>1 DEF TakesDir, Prefix
    <3>2. path \in DOMAIN Dirs /\ path # <<>>
      BY <3>1, <2>1, <2>2, <2>3, Root
    <3> QED BY <3>2 DEF InManifest
  <2>7. CASE ~IsDir(path)
    <3>1. ~IsSizeExcluded(tree[path].size, cfg)
      BY <2>7 DEF IsSizeExcluded, SizeFilters, SizeSays
    <3>2. TakesFile(path)
      BY <3>1, <2>4, <2>5, <2>7, <2>1 DEF TakesFile, Prefix
    <3> QED BY <3>2, <2>2, <2>3 DEF InManifest
  <2> QED BY <2>6, <2>7
<1> QED BY <1>1, ScanInvariant, PTL

(* Nothing that a pattern speaks of and no "!" pattern does, and no file   *)
(* that a restore left behind, is in any manifest, and neither is anything *)
(* below such a directory (IsExcluded, ShouldSkipDir, MatchPattern).       *)
THEOREM ExcludedIsOut == Spec => []ExcludedStaysOut
<1>1. ScanInv => ExcludedStaysOut
  <2> SUFFICES ASSUME ScanInv, phase = "saved" PROVE ExcludedStaysOut
    BY DEF ExcludedStaysOut
  <2>1. /\ BuildFileMap = files /\ files \subseteq Paths /\ dirs \subseteq Paths
        /\ \A p \in InManifest : p \in files \cup dirs
    BY SavedTree
  <2>2. TypeOK /\ Reached /\ Allowed
    BY DEF ScanInv, WalkInv
  <2>3. ASSUME NEW path \in BuildFileMap PROVE Last(path) \notin TmpNames
    BY <2>1, <2>2 DEF Allowed, IsExcluded
  <2>4. ASSUME NEW path \in InManifest, NEW above \in UpTo(path), NEW pattern \in cfg.positives,
               Says(pattern, above), ~Literal(pattern)
        PROVE  \E kept \in cfg.negatives : SaysOf(kept, above) \/ Loose(kept)
    <3>1. path \in files \cup dirs /\ path \in Paths /\ path \in AllPaths
      BY <2>1, Root
    <3>2. above \in Paths /\ Prefix(above, path)
      <4>1. path \in Seq(Names) /\ Len(path) \in 1 .. MaxDepth
        BY SMT, <3>1, PathIsSeq, ScanAssumption
      <4>2. PICK i \in 1 .. Len(path) : above = SubSeq(path, 1, i)
        BY DEF UpTo
      <4>3. above \in Seq(Names) /\ Len(above) = i /\ \A k \in 1 .. i : above[k] = path[k]
        BY SMT, <4>1, <4>2
      <4>4. Len(above) \in 1 .. MaxDepth /\ Len(above) <= Len(path)
        BY SMT, <4>1, <4>3, ScanAssumption
      <4> QED BY <4>1, <4>3, <4>4, MakePath, PrefixDef
    <3>3. above \in files \cup dirs
      BY <3>1, <3>2, <2>2 DEF Prefix, Reached
    <3>4. /\ pattern \in Seq(STRING) /\ pattern # <<>> /\ above \in Seq(Names) /\ above # <<>>
          /\ \A kept \in cfg.negatives : kept \in Seq(STRING)
      BY <3>2, <2>2, Root, PathIsSeq, PatternsAreSeqs
    <3>5. MatchPattern(above, pattern)
      BY <3>4, <2>4, MatchIsComplete
    <3>6. ASSUME NEW kept \in cfg.negatives, MatchPattern(above, kept) \/ kept = above \/ Below(kept, above)
          PROVE  SaysOf(kept, above) \/ Loose(kept)
      BY <3>6, <3>4, MatchIsSound, SaysOfItself
    <3>7. CASE ~IsExcluded(above, cfg)
      BY <3>5, <3>6, <3>7 DEF IsExcluded
    <3>8. CASE \E kept \in cfg.negatives : kept = above \/ Below(kept, above)
      BY <3>6, <3>8
    <3> QED BY <3>3, <3>4, <3>7, <3>8, <2>2 DEF Allowed, Skipped, IsSkipped, ShouldSkipDir
  <2> QED BY <2>3, <2>4 DEF ExcludedStaysOut
<1> QED BY <1>1, ScanInvariant, PTL
=============================================================================
