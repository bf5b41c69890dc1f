----------------------------- MODULE SourceScan -----------------------------
(***************************************************************************)
(* From a source directory to the tree of a manifest, backup after backup: *)
(* the exclude patterns and size filters (fsutil/ignore.go), the walk that *)
(* applies them (scanSourceTree, simple/pipeline.go) while other programs  *)
(* change the directory, the directories of the manifest that the empty    *)
(* directories and then, from the workers, the files are added to          *)
(* (simple/manifest.go), and the previous manifest it is compared with.    *)
(*                                                                         *)
(* A path is the sequence of its names, relative to the source directory;  *)
(* so is a pattern, in which "*" stands for any one name and "**" for any  *)
(* number of them.                                                         *)
(***************************************************************************)
EXTENDS Integers, Sequences, Functions

CONSTANTS SortedNames,     \* names of files and directories, in the order
                           \* in which filepath.Walk visits them
          MaxDepth,        \* names in a path
          TmpNames,        \* names that end in RestoreTmpSuffix
          IgnoreFileName,
          StartsWith(_, _),\* whether a name starts with another
          Sources,         \* directories to back up: what one holds at first
                           \* (tree), the patterns, size filters and
                           \* AllowScanErrors its pipelines may be given
                           \* (configs), what its ignore file may hold
                           \* (ignoreFiles)
          MaxInt64,
          MaxChanges,      \* changes by other programs
          MaxRuns          \* backups of the source

ASSUME ScanAssumption ==
    /\ SortedNames \in Seq(Range(SortedNames)) /\ IsInjective(SortedNames)
    /\ MaxDepth \in Nat /\ MaxInt64 \in Nat /\ MaxChanges \in Nat /\ MaxRuns \in Nat

Names == Range(SortedNames)
Paths == UNION {[1 .. n -> Names] : n \in 1 .. MaxDepth}
Front(p) == SubSeq(p, 1, Len(p) - 1)
Last(p) == p[Len(p)]
Below(d, p) == Len(d) < Len(p) /\ SubSeq(p, 1, Len(d)) = d

(* A map with one entry set.                                               *)
With(f, x, v) == [y \in DOMAIN f \cup {x} |-> IF y = x THEN v ELSE f[y]]

-----------------------------------------------------------------------------
(* Patterns                                                                *)

(* path.Match, name by name.                                               *)
Glob(pattern, path) ==
    /\ Len(pattern) = Len(path)
    /\ \A i \in DOMAIN path : pattern[i] \in {"*", path[i]}

OccursAt(i, names, path) ==
    /\ i + Len(names) - 1 <= Len(path)
    /\ SubSeq(path, i, i + Len(names) - 1) = names

(* strings.Contains with "/" in front only: the last name may be longer.   *)
BeginsAt(i, names, path) ==
    LET j == i + Len(names) - 1 IN
    /\ j <= Len(path)
    /\ SubSeq(path, i, j - 1) = Front(names)
    /\ StartsWith(path[j], Last(names))

(* The "**" of a pattern, and the first of them.                           *)
Stars(pattern) == {i \in DOMAIN pattern : pattern[i] = "**"}
FirstStar(pattern) == CHOOSE i \in Stars(pattern) : \A j \in Stars(pattern) : i <= j

(* One call of MatchPattern and matchGlobstar: a pattern without wildcards *)
(* matches what it names and all below it, wherever it occurs; one with    *)
(* "*" the whole path or its last name.  What follows the first "**" is    *)
(* left to the next call, which matches the path from one of the positions *)
(* in after on.                                                            *)
MatchCall(path, pattern, after) ==
    LET stars == Stars(pattern)
        first == FirstStar(pattern)
        prefix == SubSeq(pattern, 1, first - 1)
        names == Front(pattern) IN
    \/ /\ stars = {} /\ "*" \notin Range(pattern)
       /\ \E i \in DOMAIN path : OccursAt(i, pattern, path)
    \/ /\ stars = {} /\ "*" \in Range(pattern)
       /\ Glob(pattern, <<Last(path)>>) \/ Glob(pattern, path)
    \/ pattern = <<"**">>
    \/ /\ stars # {} /\ first = 1
       /\ after # {}
    \/ /\ stars # {} /\ first > 1 /\ Last(pattern) = "**"
       /\ \E i \in DOMAIN path :
             /\ OccursAt(i, names, path)
             /\ i = 1 \/ i + Len(names) - 1 < Len(path)
    \/ /\ stars # {} /\ first > 1 /\ Last(pattern) # "**"
       /\ \E i \in 1 .. Len(path) - 1 :
             /\ \/ SubSeq(path, 1, i) = prefix
                \/ \E j \in 2 .. i : BeginsAt(j, prefix, SubSeq(path, 1, i))
             /\ i + 1 \in after

LastNames(pattern, n) == SubSeq(pattern, Len(pattern) - n + 1, Len(pattern))
PathFrom(path, i) == SubSeq(path, i, Len(path))

(* From which positions on a path matches the last n names of a pattern.   *)
Matches(path, pattern) ==
    LET match[n \in 0 .. Len(pattern)] ==
          LET last == LastNames(pattern, n)
              rest == IF Stars(last) = {} THEN {} ELSE match[n - FirstStar(last)] IN
          {i \in DOMAIN path :
              MatchCall(PathFrom(path, i), last, {j \in DOMAIN path : i + j - 1 \in rest})}
    IN match

MatchPattern(path, pattern) == 1 \in Matches(path, pattern)[Len(pattern)]

(* IsExcluded: what a restore left behind always is.                       *)
IsExcluded(path, excl) ==
    \/ Last(path) \in TmpNames
    \/ /\ \E pattern \in excl.positives : MatchPattern(path, pattern)
       /\ ~\E pattern \in excl.negatives : MatchPattern(path, pattern)

(* Mutant: every directory is entered.                                     *)
ShouldSkipDirNever(path, excl) == FALSE

(* ShouldSkipDir.                                                          *)
ShouldSkipDir(path, excl) ==
    /\ IsExcluded(path, excl)
    /\ ~\E kept \in excl.negatives : kept = path \/ Below(kept, path)

(* Mutant: the product wraps around.                                       *)
SizeFiltersWrapped(excl) ==
    {[op |-> f.op, unit |-> 1,
      value |-> ((f.value * f.unit + MaxInt64 + 1) % (2 * (MaxInt64 + 1))) - (MaxInt64 + 1)] :
        f \in excl.sizes}

(* ParseSizeFilter refuses a product that does not fit 64 bits, which then *)
(* is a pattern that no path matches.                                      *)
SizeFilters(excl) == {f \in excl.sizes : f.value <= MaxInt64 \div f.unit}

IsSizeExcluded(size, excl) ==
    \E f \in SizeFilters(excl) : LET bytes == f.value * f.unit IN
        CASE f.op = ">" -> size > bytes
          [] f.op = ">=" -> size >= bytes
          [] f.op = "<" -> size < bytes
          [] f.op = "<=" -> size <= bytes

-----------------------------------------------------------------------------
VARIABLES src,       \* the source that is backed up
          tree,      \* path -> a file of some size, or a directory
          changes,   \* how often it was changed
          touched,   \* what was changed, and what was below it
          cfg,       \* the configuration that the last backup goes by
          runs,      \* backups begun
          phase,     \* where the last one is
          prevFiles, \* its baseline: the files of a manifest, or nil
          todo,      \* what filepath.Walk visits next, in order
          files,     \* the files it recorded
          dirEntries,\* and the directories, in order
          scanErrs,  \* scanErrCount
          waiting,   \* files that no worker has added yet
          Dirs,      \* Manifest.Dirs: path -> its files and subdirectories
          latest     \* the last manifest saved: its files, Stats.ScanErrors and
                     \* the configuration of its run

scan == <<todo, files, dirEntries, scanErrs>>
source == <<src, tree, changes, touched>>
vars == <<source, cfg, runs, phase, prevFiles, scan, waiting, Dirs, latest>>

File(size) == [kind |-> "file", size |-> size]
Directory == [kind |-> "dir"]
IsDir(path) == path = <<>> \/ (path \in DOMAIN tree /\ tree[path] = Directory)

(* What a directory holds, in order.                                       *)
Children(path) ==
    LET upTo[i \in 0 .. Len(SortedNames)] ==
          IF i = 0 THEN <<>>
          ELSE LET child == Append(path, SortedNames[i]) IN
               IF child \in DOMAIN tree THEN Append(upTo[i - 1], child) ELSE upTo[i - 1]
    IN upTo[Len(SortedNames)]

(* What is there is in a directory; a pattern has at least one name.       *)
ASSUME TreeAssumption ==
    \A s \in Sources : LET t == s.tree IN
        /\ DOMAIN t \subseteq Paths
        /\ \A p \in DOMAIN t : Front(p) # <<>> => Front(p) \in DOMAIN t /\ t[Front(p)] = Directory

ASSUME PatternAssumption ==
    \A s \in Sources : \A c \in s.configs \cup s.ignoreFiles :
        c.positives \cup c.negatives \subseteq Seq(STRING) \ {<<>>}

NoPatterns == [positives |-> {}, negatives |-> {}, sizes |-> {}]
NoManifest == [files |-> {}, scanErrs |-> 0, exists |-> FALSE]
nil == [exists |-> FALSE]

Init ==
    /\ src \in Sources
    /\ tree = src.tree
    /\ changes = 0 /\ touched = {}
    /\ cfg = NoPatterns
    /\ runs = 0 /\ phase = "idle" /\ prevFiles = nil
    /\ todo = <<>> /\ files = {} /\ dirEntries = <<>> /\ scanErrs = 0
    /\ waiting = {} /\ Dirs = <<>> /\ latest = NoManifest

(* Another program creates or removes something while the source is walked.*)
Change(path, now) ==
    /\ changes < MaxChanges
    /\ phase = "scan"
    /\ changes' = changes + 1
    /\ touched' = touched \cup {p \in Paths : p = path \/ Below(path, p)}
    /\ tree' = now
    /\ UNCHANGED <<src, cfg, runs, phase, prevFiles, scan, waiting, Dirs, latest>>

CreatePath(path) ==
    /\ path \notin DOMAIN tree
    /\ IsDir(Front(path))
    /\ \E entry \in {File(1), Directory} : Change(path, With(tree, path, entry))

RemovePath(path) ==
    /\ path \in DOMAIN tree
    /\ Change(path, [p \in {q \in DOMAIN tree : q # path /\ ~Below(path, q)} |-> tree[p]])

-----------------------------------------------------------------------------
(* LoadIgnoreFile: what the ignore file of the source holds by then, or    *)
(* nothing when there is none or it cannot be read.                        *)
LoadIgnoreFile == src.ignoreFiles \cup {NoPatterns}

(* MergeExcludes and SplitExcludePatterns.                                 *)
MergeExcludes(c, ignored) ==
    [c EXCEPT !.positives = @ \cup ignored.positives,
              !.negatives = @ \cup ignored.negatives,
              !.sizes = @ \cup ignored.sizes]

(* The baseline that a manifest makes.  What its run went by is remembered *)
(* with it; the code does not record it.                                   *)
Baseline == [exists |-> TRUE, files |-> latest.files, cfg |-> latest.cfg]

(* Mutant: an incomplete manifest is compared with like any other.         *)
LoadAnyPreviousFiles == IF latest.exists THEN Baseline ELSE nil

(* loadPreviousFiles: an incomplete manifest is no baseline, and a full    *)
(* backup has none.                                                        *)
LoadPreviousFiles == IF latest.exists /\ latest.scanErrs = 0 THEN Baseline ELSE nil

(* Run, until the walk of the source directory begins: by whatever its     *)
(* pipeline is given and loadExcludePatterns reads this time.              *)
StartRun ==
    /\ runs < MaxRuns
    /\ phase \in {"idle", "saved", "failed"}
    /\ runs' = runs + 1
    /\ phase' = "scan"
    /\ \E c \in src.configs, ignored \in LoadIgnoreFile : cfg' = MergeExcludes(c, ignored)
    /\ prevFiles' \in {LoadPreviousFiles, nil}
    /\ todo' = <<<<>>>> /\ files' = {} /\ dirEntries' = <<>> /\ scanErrs' = 0
    /\ waiting' = {} /\ Dirs' = <<>>
    /\ UNCHANGED <<source, latest>>

(* scanSourceTree: one call of the function given to filepath.Walk.  What  *)
(* is gone, and a directory that cannot be read (excluded or not: its      *)
(* names are read first), is counted and passed over.                      *)
VisitError ==
    /\ phase = "scan" /\ todo # <<>>
    /\ Head(todo) \notin DOMAIN tree \/ IsDir(Head(todo))
    /\ todo' = Tail(todo)
    /\ scanErrs' = scanErrs + 1
    /\ UNCHANGED <<source, cfg, runs, phase, prevFiles, files, dirEntries, waiting, Dirs, latest>>

IsSkipped(path, excl) ==
    path # <<>> /\ (Last(path) = IgnoreFileName \/ ShouldSkipDir(path, excl))

VisitDir ==
    LET path == Head(todo) IN
    /\ phase = "scan" /\ todo # <<>>
    /\ IsDir(path)
    /\ \/ /\ IsSkipped(path, cfg)
          /\ todo' = Tail(todo) /\ UNCHANGED dirEntries
       \/ /\ ~IsSkipped(path, cfg)
          /\ todo' = Children(path) \o Tail(todo)
          /\ dirEntries' = IF path = <<>> THEN dirEntries ELSE Append(dirEntries, path)
    /\ UNCHANGED <<source, cfg, runs, phase, prevFiles, files, scanErrs, waiting, Dirs, latest>>

VisitFile ==
    LET path == Head(todo) IN
    /\ phase = "scan" /\ todo # <<>>
    /\ path \in DOMAIN tree /\ ~IsDir(path)
    /\ files' = IF IsExcluded(path, cfg) \/ IsSizeExcluded(tree[path].size, cfg)
                THEN files ELSE files \cup {path}
    /\ todo' = Tail(todo)
    /\ UNCHANGED <<source, cfg, runs, phase, prevFiles, dirEntries, scanErrs, waiting, Dirs, latest>>

-----------------------------------------------------------------------------
(* The tree of the manifest.                                               *)
DirOf(ds, path) ==
    IF path \in DOMAIN ds THEN ds[path] ELSE [files |-> <<>>, subdirs |-> <<>>]

WithSubDir(ds, parent, name) ==
    LET d == DirOf(ds, parent) IN
    With(ds, parent, IF name \in Range(d.subdirs) THEN d
                        ELSE [d EXCEPT !.subdirs = Append(@, name)])

(* Mutant: only the directory itself is listed.                            *)
EnsureParentDir(ds, path) ==
    IF path = <<>> THEN ds ELSE WithSubDir(ds, Front(path), Last(path))

(* ensureParentDirs: every directory of a path is listed in its parent.    *)
EnsureParentDirs(ds, path) ==
    LET upTo[i \in 0 .. Len(path)] ==
          IF i = 0 THEN ds ELSE WithSubDir(upTo[i - 1], SubSeq(path, 1, i - 1), path[i])
    IN upTo[Len(path)]

AddFile(ds, path) ==
    LET d == DirOf(ds, Front(path)) IN
    EnsureParentDirs(With(ds, Front(path), [d EXCEPT !.files = Append(@, Last(path))]),
                     Front(path))

AddEmptyDir(ds, path) == EnsureParentDirs(With(ds, path, DirOf(ds, path)), path)

(* addEmptyDirs: a directory is empty when neither a file below it nor a   *)
(* directory in it was recorded.                                           *)
HasChildren(path) ==
    \/ \E f \in files : Below(path, f)
    \/ \E d \in Range(dirEntries) : Front(d) = path

AddEmptyDirs ==
    LET upTo[i \in 0 .. Len(dirEntries)] ==
          IF i = 0 THEN <<>>
          ELSE IF HasChildren(dirEntries[i]) THEN upTo[i - 1]
               ELSE AddEmptyDir(upTo[i - 1], dirEntries[i])
    IN upTo[Len(dirEntries)]

(* The end of the walk: a run that met errors stops here unless they are   *)
(* allowed.                                                                *)
EndScan ==
    /\ phase = "scan" /\ todo = <<>>
    /\ \/ /\ scanErrs > 0 /\ ~cfg.allowScanErrors
          /\ phase' = "failed"
          /\ UNCHANGED <<waiting, Dirs>>
       \/ /\ scanErrs = 0 \/ cfg.allowScanErrors
          /\ phase' = "upload"
          /\ waiting' = files
          /\ Dirs' = AddEmptyDirs
    /\ UNCHANGED <<source, cfg, runs, prevFiles, scan, latest>>

(* A worker adds a file, as saved or with its error, when it is done with  *)
(* it: in any order.                                                       *)
Record(path) ==
    /\ phase = "upload" /\ path \in waiting
    /\ waiting' = waiting \ {path}
    /\ Dirs' = AddFile(Dirs, path)
    /\ UNCHANGED <<source, cfg, runs, phase, prevFiles, scan, latest>>

(* The context is cancelled, which the walk, the workers and Run notice.   *)
Cancel ==
    /\ phase \in {"scan", "upload"}
    /\ phase' = "failed"
    /\ UNCHANGED <<source, cfg, runs, prevFiles, scan, waiting, Dirs, latest>>

(* BuildFileMap, AllFiles: the files of every directory.                   *)
BuildFileMap == UNION {{Append(d, name) : name \in Range(Dirs[d].files)} : d \in DOMAIN Dirs}

SaveManifest ==
    /\ phase = "upload" /\ waiting = {}
    /\ phase' = "saved"
    /\ latest' = [files |-> BuildFileMap, scanErrs |-> scanErrs, exists |-> TRUE, cfg |-> cfg]
    /\ UNCHANGED <<source, cfg, runs, prevFiles, scan, waiting, Dirs>>

(* countDeletedFiles, and what processFile finds no previous entry of.     *)
DeletedFiles == IF prevFiles.exists THEN prevFiles.files \ files ELSE {}
NewFiles == IF prevFiles.exists THEN files \ prevFiles.files ELSE files

Next ==
    \/ \E path \in Paths : CreatePath(path) \/ RemovePath(path)
    \/ StartRun \/ VisitError \/ VisitDir \/ VisitFile \/ EndScan
    \/ \E path \in waiting : Record(path)
    \/ Cancel \/ SaveManifest

Spec == Init /\ [][Next]_vars

-----------------------------------------------------------------------------
(* What a pattern says, whichever way MatchPattern goes about it: "*" is   *)
(* one name, "**" any number of them.  A placing tells how much of a path  *)
(* the first names of a pattern reach.                                     *)
Placings(pattern, path) ==
    {at \in [0 .. Len(pattern) -> 0 .. Len(path)] :
        \A i \in DOMAIN pattern :
            \/ pattern[i] = "**" /\ at[i - 1] <= at[i]
            \/ at[i] = at[i - 1] + 1 /\ pattern[i] \in {"*", path[at[i]]}}

Says(pattern, path) ==
    \E at \in Placings(pattern, path) : at[0] = 0 /\ at[Len(pattern)] = Len(path)

(* Anywhere in a path, or of something it is in.                           *)
SaysOf(pattern, path) == Placings(pattern, path) # {}

(* Patterns that MatchPattern takes literally in part: with "*" in front   *)
(* of "**", with "**" twice, or with "*" among several names after a "**"  *)
(* in the middle.                                                          *)
Literal(pattern) ==
    \E i, j \in DOMAIN pattern : i < j /\
        \/ pattern[i] \in {"*", "**"} /\ pattern[j] = "**"
        \/ 1 < i /\ i + 1 < Len(pattern) /\ pattern[i] = "**" /\ pattern[j] = "*"

(* Patterns whose names before a "**" in the middle begin a longer name.   *)
Loose(pattern) ==
    \E i \in 2 .. Len(pattern) - 1 : /\ pattern[i] = "**"
                                    /\ \E n \in Names : n # pattern[i - 1] /\ StartsWith(n, pattern[i - 1])

SizeSays(f, size) ==
    CASE f.op = ">" -> size > f.value * f.unit
      [] f.op = ">=" -> size >= f.value * f.unit
      [] f.op = "<" -> size < f.value * f.unit
      [] f.op = "<=" -> size <= f.value * f.unit

UpTo(path) == {SubSeq(path, 1, i) : i \in 1 .. Len(path)}
InManifest == BuildFileMap \cup (DOMAIN Dirs \ {<<>>})

(* Nothing is omitted: what was there throughout, which no pattern speaks  *)
(* of, whose size no filter speaks of and which no restore left behind, is *)
(* in every manifest saved without scan errors, directories that hold      *)
(* nothing else included, whatever else came and went during the walk      *)
(* (scanSourceTree, addEmptyDirs, MatchPattern, ParseSizeFilter).  The     *)
(* source path is a directory: filepath.Walk visits a symbolic link that   *)
(* it is given once and does not follow it (simple/pipeline.go:407).       *)
NothingOmitted ==
    phase = "saved" /\ scanErrs = 0 =>
        \A path \in DOMAIN tree \ touched :
            \/ path \in InManifest
            \/ \E n \in Range(path) : n \in TmpNames \cup {IgnoreFileName}
            \/ \E pattern \in cfg.positives : SaysOf(pattern, path) \/ Loose(pattern)
            \/ ~IsDir(path) /\ \E f \in cfg.sizes : SizeSays(f, tree[path].size)

(* What is excluded stays out: nothing is in a manifest that is, or is in, *)
(* something a pattern speaks of and no "!" pattern does, and no file a    *)
(* restore left behind, even when it appeared during the walk (IsExcluded, *)
(* ShouldSkipDir).                                                         *)
ExcludedStaysOut ==
    phase = "saved" =>
        /\ \A path \in BuildFileMap : Last(path) \notin TmpNames
        /\ \A path \in InManifest : \A above \in UpTo(path) :
               \A pattern \in cfg.positives :
                   \/ ~Says(pattern, above) \/ Literal(pattern)
                   \/ \E kept \in cfg.negatives : SaysOf(kept, above) \/ Loose(kept)

(* The tree of a manifest is whole: every file of the scan is in it once,  *)
(* every directory of the scan is in it, and every directory is listed     *)
(* once in its parent and nothing else is, in whatever order the workers   *)
(* finish (AddFile, AddEmptyDir, ensureParentDirs).                        *)
TreeIsWhole ==
    phase = "saved" =>
        /\ BuildFileMap = files
        /\ Range(dirEntries) \subseteq DOMAIN Dirs
        /\ \A d \in DOMAIN Dirs :
               LET names == Dirs[d].files \o Dirs[d].subdirs IN
               /\ IsInjective(names)
               /\ Range(Dirs[d].subdirs) = {Last(c) : c \in {e \in DOMAIN Dirs : e # <<>> /\ Front(e) = d}}
               /\ d = <<>> \/ Front(d) \in DOMAIN Dirs

(* Whether a file that is there is left out by a configuration.            *)
KeptOut(path, c) ==
    \/ \E d \in Paths : Below(d, path) /\ IsSkipped(d, c)
    \/ IsExcluded(path, c) \/ IsSizeExcluded(tree[path].size, c)

(* What a complete backup reports as new or deleted against its baseline   *)
(* has come or gone, or one of the two backups left it out and the other   *)
(* did not: a baseline that missed files would make them new               *)
(* (loadPreviousFiles, countDeletedFiles).  Between two backups that went  *)
(* by the same patterns, only what came or went is reported; the patterns  *)
(* are other ones when the user, or whoever writes the ignore file, has    *)
(* changed them, and when the ignore file cannot be read (LoadIgnoreFile). *)
ReportedHasChanged ==
    phase = "saved" /\ scanErrs = 0 /\ prevFiles.exists =>
        \A path \in (DeletedFiles \cup NewFiles) \ touched :
            KeptOut(path, cfg) # KeptOut(path, prevFiles.cfg)
=============================================================================
