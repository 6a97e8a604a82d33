----------------------------- MODULE DatabaseTree -----------------------------
(***************************************************************************)
(* The database outside the browser. An archive holds db.json and the      *)
(* files of the ECUs; it is read in place (packages/db/src/archive.ts) or  *)
(* split into a tree of files (packages/dbimport/src/split.ts, run by      *)
(* tools/db-split), which may be killed between two files and inside one,  *)
(* and run again over what it left. A tree that was copied elsewhere, file *)
(* by file in no known order, is inspected by a sample                     *)
(* (packages/dbimport/src/inspect.ts).                                     *)
(***************************************************************************)
EXTENDS Integers, Sequences, SequencesExt, FiniteSets, FiniteSetsExt

CONSTANTS
    Snapshots,      \* the archives
    Entries,        \* the entries of each in order: [kind, slug, bytes]; the bytes of db.json are the slugs it names
    MaxSplits,      \* bound: runs of db-split
    SampleSize,     \* inspectTree's sampleSize
    MaxIndexed      \* bound: ECUs of the tree that is inspected

\* Every caller takes the default sample of 12.
ASSUME SampleAssumption == SampleSize \in Nat /\ SampleSize >= 2 /\ MaxIndexed \in Nat

\* An archive is kept as a list of names (archive.ts:87), and the name of a file is its kind and its slug.
ASSUME EntriesAssumption ==
    \A z \in Snapshots :
        /\ Len(Entries[z]) \in Nat /\ DOMAIN Entries[z] = 1..Len(Entries[z])
        /\ \A m, n \in DOMAIN Entries[z] :
              /\ Entries[z][m].kind = Entries[z][n].kind /\ Entries[z][m].slug = Entries[z][n].slug
              /\ Entries[z][m].kind \in {"ecu", "layout"}
              => m = n

VARIABLES
    disk,           \* the output directory: a file [of, whole] for every path that is there
    split,          \* the run: at, the archive, the next entry, and what was collected of the entries before
    begun,          \* history: the archives split into the directory, in order
    died,           \* history: a run ended before its end
    copied,         \* a tree being copied: the number of ECUs in its index, and those of which the definition
                    \* and the layout are there, by their place in the index
    report          \* what inspectTree said of it, as it is

treeVars == <<disk, split, begun, died, copied, report>>

Path(kind, slug) == [kind |-> kind, slug |-> slug]
Single(kind) == Path(kind, "")
Whole(bytes) == [of |-> bytes, whole |-> TRUE]
Torn(bytes) == [of |-> bytes, whole |-> FALSE]

------------------------------------------------------------------------------
(* What an archive holds. *)

SlugsOf(entries, kind) == {entries[n].slug : n \in {m \in DOMAIN entries : entries[m].kind = kind}}

\* A wrong build of it: the ECUs of db.json, shipped or not.
EveryNamed(named, slugs) == named

\* buildIndex: db.json names ECUs that were never shipped.
buildIndex(named, slugs) == named \cap slugs

HasIndex(entries) == \E n \in DOMAIN entries : entries[n].kind = "db"
Named(entries) == UNION {entries[n].bytes : n \in {m \in DOMAIN entries : entries[m].kind = "db"}}
IndexOf(z) == buildIndex(Named(Entries[z]), SlugsOf(Entries[z], "ecu"))

\* archiveDbSource refuses what has no index, and an index without ECUs.
archiveDbSource(z) == HasIndex(Entries[z]) /\ IndexOf(z) # {}

\* The source's read: the archive's own names are behind those of a tree.
ArchiveRead(z, path) ==
    {Entries[z][n].bytes : n \in {m \in DOMAIN Entries[z] :
        Entries[z][m].kind = path.kind /\ Entries[z][m].slug = path.slug}}

\* The same of a tree: nothing, or the bytes.
TreeRead(path) == IF path \in DOMAIN disk /\ disk[path].whole THEN {disk[path].of} ELSE {}

------------------------------------------------------------------------------
(* inspectTree: the index, and a sample of the ECUs spread over it. *)

Step(n) == Max({1, n \div Max({1, SampleSize})})

\* A wrong build of it: the first few.
SampleOfFirst(n) == 1..Min({n, SampleSize})

\* Every Step-th one, and no more than SampleSize of them.
Sample(n) == {i \in 1..n : (i - 1) % Step(n) = 0 /\ (i - 1) \div Step(n) < SampleSize}

\* The index is there but declares nothing, or it is not there, or the files of the sample are looked for.
inspectTree(tree) ==
    LET sample == Sample(tree.indexed)
        missing(present) == Cardinality(sample \ present)
        errors == (IF tree.index # "fine" THEN {tree.index} ELSE {})
                  \cup (IF tree.index = "fine" /\ tree.indexed = 0 THEN {"declares no ECUs"} ELSE {})
                  \cup (IF missing(tree.ecus) > 0 THEN {"definitions missing"} ELSE {})
        warnings == IF missing(tree.layouts) = 0 THEN {}
                    ELSE IF missing(tree.layouts) = Cardinality(sample) THEN {"no layouts"} ELSE {"layouts missing"}
    IN [ok |-> errors = {}, errors |-> errors,
        warnings |-> IF tree.index \in {"absent", "not JSON"} THEN {} ELSE warnings, of |-> tree]

TreeInit ==
    /\ disk = <<>>
    /\ split = [at |-> "idle", zip |-> "none", next |-> 1, written |-> <<>>]
    /\ begun = <<>> /\ died = FALSE
    /\ copied \in [index : {"absent", "not JSON", "no ecus", "fine"}, indexed : {0}, ecus : {{}}, layouts : {{}}]
                  \cup [index : {"fine"}, indexed : 1..MaxIndexed, ecus : {{}}, layouts : {{}}]
    /\ report = <<>>

\* Where nothing is split or copied.
TreeRest == TreeInit /\ copied.index = "absent"

------------------------------------------------------------------------------
(* db-split. *)

\* --if-needed: the archive the manifest records is this one, and there is an index.
isUpToDate(z) ==
    /\ TreeRead(Single("manifest")) = {z}
    /\ Single("index") \in DOMAIN disk

SplitBegins(z, ifNeeded) ==
    /\ split.at = "idle" /\ Len(begun) < MaxSplits
    /\ ~(ifNeeded /\ isUpToDate(z))
    /\ split' = [at |-> "streaming", zip |-> z, next |-> 1, written |-> <<>>]
    /\ begun' = Append(begun, z)
    /\ UNCHANGED <<disk, died, copied, report>>

\* A file is written whole, or the process is killed in the middle of it.
Writes(path, bytes, goesOn) ==
    \/ /\ disk' = [p \in DOMAIN disk \cup {path} |-> IF p = path THEN Whole(bytes) ELSE disk[p]]
       /\ goesOn /\ UNCHANGED died
    \/ /\ disk' = [p \in DOMAIN disk \cup {path} |-> IF p = path THEN Torn(bytes) ELSE disk[p]]
       /\ split' = [split EXCEPT !.at = "idle"] /\ died' = TRUE

\* The entry handler: definitions and layouts are written as they come, db.json is kept, graphics and what
\* is unknown are left out.
EntryEmitted ==
    /\ split.at = "streaming" /\ split.next <= Len(Entries[split.zip])
    /\ LET e == Entries[split.zip][split.next]
           next == [split EXCEPT !.next = @ + 1, !.written = Append(@, e)]
       IN IF e.kind \in {"ecu", "layout"}
          THEN Writes(Path(e.kind, e.slug), e.bytes, split' = next)
          ELSE split' = next /\ UNCHANGED <<disk, died>>
    /\ UNCHANGED <<begun, copied, report>>

\* The index comes after the last entry, of the entries that came. Without db.json the split throws.
IndexWritten ==
    /\ split.at = "streaming" /\ split.next > Len(Entries[split.zip])
    /\ IF HasIndex(split.written)
       THEN Writes(Single("index"), buildIndex(Named(split.written), SlugsOf(split.written, "ecu")),
                   split' = [split EXCEPT !.at = "indexed"])
       ELSE split' = [split EXCEPT !.at = "idle"] /\ died' = TRUE /\ UNCHANGED disk
    /\ UNCHANGED <<begun, copied, report>>

\* The manifest of the archive comes last, after the index's own listing and a validation of the tree.
ManifestWritten ==
    /\ split.at = "indexed"
    /\ Writes(Single("manifest"), split.zip, split' = [split EXCEPT !.at = "idle"])
    /\ UNCHANGED <<begun, copied, report>>

\* The process is killed between two files, or what it reads is corrupt.
Dies ==
    /\ split.at # "idle"
    /\ split' = [split EXCEPT !.at = "idle"] /\ died' = TRUE
    /\ UNCHANGED <<disk, begun, copied, report>>

------------------------------------------------------------------------------
(* A copy of a tree, and its inspection at any moment. *)

\* The next file of a copy is any that is not there yet.
FileCopied ==
    /\ \E i \in 1..copied.indexed :
          \/ i \notin copied.ecus /\ copied' = [copied EXCEPT !.ecus = @ \cup {i}]
          \/ i \notin copied.layouts /\ copied' = [copied EXCEPT !.layouts = @ \cup {i}]
    /\ report' = <<>>
    /\ UNCHANGED <<disk, split, begun, died>>

Inspected ==
    /\ report' = <<inspectTree(copied)>>
    /\ UNCHANGED <<disk, split, begun, died, copied>>

SplitNext ==
    \/ \E z \in Snapshots, ifNeeded \in BOOLEAN : SplitBegins(z, ifNeeded)
    \/ EntryEmitted \/ IndexWritten \/ ManifestWritten \/ Dies

CopyNext == FileCopied \/ Inspected

\* One at a time: a directory that is being copied is not the one that is split.
TreeNext ==
    \/ copied.index = "absent" /\ SplitNext
    \/ begun = <<>> /\ CopyNext

------------------------------------------------------------------------------
\* The tree serves what the archive serves: the same ECUs, and of each the same definitions and layout.
SameDatabase(z) ==
    /\ TreeRead(Single("index")) = {IndexOf(z)}
    /\ \A s \in IndexOf(z), kind \in {"ecu", "layout"} : TreeRead(Path(kind, s)) = ArchiveRead(z, Path(kind, s))

\* "a tree and an archive are interchangeable behind DbSource" (archive.ts:20): whenever an index can be read,
\* the files of the ECUs it names are there, wherever runs were killed; and of a directory that has only
\* ever seen one archive, by one run or by runs that ended, it is the archive's database.
TreeIsTheArchive ==
    TreeRead(Single("index")) # {} =>
        /\ \A s \in disk[Single("index")].of : Path("ecu", s) \in DOMAIN disk
        /\ Len(begun) = 1 \/ (~died /\ split.at = "idle") =>
               (Range(begun) = {begun[1]} /\ archiveDbSource(begun[1]) => SameDatabase(begun[1]))

\* "Spread the sample across the index rather than taking the first few" (inspect.ts:97): a tree that passes
\* misses no stretch of half its index or more, wherever that begins, and a whole one is not refused.
MissingStretchCaught ==
    \A n \in DOMAIN report : LET t == report[n].of IN
        /\ report[n].ok =>
               /\ t.index = "fine"
               /\ \A i, j \in 1..t.indexed :
                      i <= j /\ 2 * (j - i + 1) >= t.indexed => \E k \in i..j : k \in t.ecus
        /\ t.index = "fine" /\ t.indexed > 0 /\ 1..t.indexed \subseteq t.ecus => report[n].ok

\* "so a tree whose import died half-way is caught" (inspect.ts:98): no tree passes that has half of its ECUs
\* or fewer. One does that has those of the sample: a copy need not follow the index.
HalfTreeCaught ==
    \A n \in DOMAIN report : report[n].ok => 2 * Cardinality(report[n].of.ecus) > report[n].of.indexed

\* --if-needed skips only what is there: "a run killed part-way leaves a manifest-less tree"
\* (tools/db-split/src/index.ts:111). Not so of a run over a tree.
CurrentIsWhole == split.at = "idle" => \A z \in Snapshots : isUpToDate(z) /\ archiveDbSource(z) => SameDatabase(z)
=============================================================================
