----------------------------- MODULE BoundedScan -----------------------------
(***************************************************************************)
(* The bounded scanners (internal/scanner): SecretScanner.Scan walks       *)
(* directories and reads text files, ExecutableScanner.Triage hashes       *)
(* executables.  Both go through their entries in order under the same     *)
(* kinds of limits and record a coverage finding for what they leave out.  *)
(* Other processes resize, replace and remove files between any two system *)
(* calls of the scanner, once the directories have been listed, as often   *)
(* as they like.                                                           *)
(***************************************************************************)
EXTENDS Naturals, Sequences, FiniteSets, FiniteSetsExt

CONSTANTS
    Paths,
    Walks,         \* what a scan may be asked to visit: walks of roots, or candidates
    Sizes,         \* sizes a file may have
    MaxFileBytes, MaxTotalBytes, MaxDepth, MaxFiles, MaxFindings,
    Chunk,         \* bytes of one read
    Shared         \* bound: the files other processes work on

Entry == [path : Paths, depth : Nat]

ASSUME WalkAssumption == Walks \subseteq Seq(Entry) /\ Shared \subseteq Paths
ASSUME LimitsAssumption ==
    /\ {MaxFileBytes, MaxTotalBytes, MaxFiles, MaxFindings, Chunk} \subseteq Nat \ {0}
    /\ MaxDepth \in Nat
    /\ Sizes \subseteq Nat

Codes == {"max_file_bytes", "max_total_bytes", "max_depth", "max_files", "max_findings"}
Types == {"regular", "symlink", "fifo", "other", "missing"}
Reasons == {"symlink", "other", "missing", "not_executable", "binary", "oversize"}

\* listed: the type ReadDir reported.  inode: what SameFile compares; a number is
\* used again once nobody has the file.  usable: executable, or text.  matches: how many secrets the rules find in it.
File == [ listed : Types, type : Types, inode : 0..1, size : Sizes,
          usable : BOOLEAN, matches : Nat ]

VARIABLES
    kind,      \* "secret" or "executable": which of the two scanners runs
    walk,      \* the entries this scan visits, in order; never changes
    disk,      \* disk[p]: the file at path p
    scan,      \* the scanner's state: position, statistics, coverage, findings
    touched,   \* history: the files somebody has changed since the scan began
    inspected, \* history: files read to their end, and every match in them kept
    excused    \* history: files skipped for what they are, or replaced after
               \* they were looked at

vars == <<kind, walk, disk, scan, touched, inspected, excused>>

\* inode, handle, limit, total: the file being read, its size as the open handle
\* sees it, the bytes it may take and has taken.
Scan == [ pc : {"next", "open", "blocked", "read", "finish", "done"}, pos : 1 .. Len(walk) + 1,
          seen : SUBSET Paths, considered : 0 .. MaxFiles, scanned : Nat,
          skipped : [Reasons -> Nat], bytes : Nat, found : Nat,
          cover : [Codes -> [count : Nat, observed : Nat]],
          inode : 0..1, handle : Nat, limit : Nat, total : Nat, failed : BOOLEAN ]

Here == walk[scan.pos].path
Limit(code) == CASE code = "max_file_bytes" -> MaxFileBytes
                 [] code = "max_total_bytes" -> MaxTotalBytes
                 [] code = "max_depth" -> MaxDepth
                 [] code = "max_files" -> MaxFiles
                 [] code = "max_findings" -> MaxFindings

-----------------------------------------------------------------------------
(***************************************************************************)
(* What a step does to the scanner's state                                 *)
(***************************************************************************)
Advance(s) == [s EXCEPT !.pos = @ + 1, !.pc = "next"]
Stop(s) == [s EXCEPT !.pc = "done"]
Abort(s) == [s EXCEPT !.pc = "done", !.failed = TRUE]
Skip(s, why) == Advance([s EXCEPT !.skipped[why] = @ + 1])

\* coverageAccumulator.add
Cover(s, code, observed) ==
    [s EXCEPT !.cover[code] = [count |-> @.count + 1, observed |-> Max({@.observed, observed})]]

\* Bytes the whole scan may still read.
Remaining == MaxTotalBytes - scan.bytes

Excuse(p) == excused' = excused \cup {p}

-----------------------------------------------------------------------------
(***************************************************************************)
(* Before a file is opened                                                 *)
(***************************************************************************)
AtEntry == scan.pc = "next" /\ scan.pos <= Len(walk)

TooDeep ==
    /\ AtEntry
    /\ kind = "secret"
    /\ walk[scan.pos].depth > MaxDepth
    /\ scan' = Advance(Cover(scan, "max_depth", walk[scan.pos].depth))
    /\ UNCHANGED <<kind, walk, disk, touched, inspected, excused>>

\* A symbolic link of the walk is not even considered.
WalkedLink ==
    /\ kind = "secret"
    /\ walk[scan.pos].depth <= MaxDepth
    /\ disk[Here].listed = "symlink"

SkipLink ==
    /\ AtEntry
    /\ WalkedLink
    /\ scan' = Skip(scan, "symlink")
    /\ Excuse(Here)
    /\ UNCHANGED <<kind, walk, disk, touched, inspected>>

\* seenPaths, or normalizeCandidates: overlapping roots visit a file once.
Reached == (kind = "secret" => walk[scan.pos].depth <= MaxDepth) /\ ~WalkedLink

SeenBefore ==
    /\ AtEntry
    /\ Reached
    /\ Here \in scan.seen
    /\ scan' = Advance(scan)
    /\ UNCHANGED <<kind, walk, disk, touched, inspected, excused>>

Room == scan.considered < MaxFiles

FileLimit ==
    /\ AtEntry
    /\ Reached
    /\ Here \notin scan.seen
    /\ ~Room
    /\ scan' = Stop(Cover(scan, "max_files", scan.considered + 1))
    /\ UNCHANGED <<kind, walk, disk, touched, inspected, excused>>

\* The file counts from here on.
Considered == [scan EXCEPT !.seen = @ \cup {Here}, !.considered = @ + 1]

Considering ==
    /\ AtEntry
    /\ Reached
    /\ Here \notin scan.seen
    /\ Room

\* Lstat fails: a walked file is an error, a candidate is skipped.
Missing ==
    /\ Considering
    /\ disk[Here].type = "missing"
    /\ scan' = IF kind = "secret" THEN Abort(Considered) ELSE Skip(Considered, "missing")
    /\ Excuse(Here)
    /\ UNCHANGED <<kind, walk, disk, touched, inspected>>

\* Links among the candidates, devices, files without an executable bit.
SkipType ==
    /\ Considering
    /\ \/ /\ disk[Here].type \in {"symlink", "fifo", "other"}
          /\ scan' = Skip(Considered, IF kind = "executable" /\ disk[Here].type = "symlink"
                                      THEN "symlink" ELSE "other")
       \/ /\ disk[Here].type = "regular"
          /\ kind = "executable"
          /\ ~disk[Here].usable
          /\ scan' = Skip(Considered, "not_executable")
    /\ Excuse(Here)
    /\ UNCHANGED <<kind, walk, disk, touched, inspected>>

Wanted ==
    /\ Considering
    /\ disk[Here].type = "regular"
    /\ kind = "executable" => disk[Here].usable

Oversize ==
    /\ Wanted
    /\ disk[Here].size > MaxFileBytes
    /\ scan' = Skip(Cover(Considered, "max_file_bytes", disk[Here].size), "oversize")
    /\ UNCHANGED <<kind, walk, disk, touched, inspected, excused>>

\* Variant: a file that would use up the total does not fit.
FitsWithRoom == disk[Here].size < Remaining

Fits == Remaining > 0 /\ disk[Here].size <= Remaining

OverBudget ==
    /\ Wanted
    /\ disk[Here].size <= MaxFileBytes
    /\ ~Fits
    /\ scan' = Stop(Cover(Considered, "max_total_bytes", scan.bytes + disk[Here].size))
    /\ UNCHANGED <<kind, walk, disk, touched, inspected, excused>>

\* Variant: only the size before the read is held against the total.
ReadLimitOfFile == MaxFileBytes

ReadLimit == Min({MaxFileBytes, Remaining})

Admit ==
    /\ Wanted
    /\ disk[Here].size <= MaxFileBytes
    /\ Fits
    /\ scan' = [Considered EXCEPT !.pc = "open", !.inode = disk[Here].inode,
                                 !.limit = ReadLimit, !.total = 0]
    /\ UNCHANGED <<kind, walk, disk, touched, inspected, excused>>

-----------------------------------------------------------------------------
(***************************************************************************)
(* readRegularFileBounded and hashExecutableBounded                        *)
(***************************************************************************)
\* os.Open follows a link that was put in the file's place: to any other file.
\* It fails when there is none, and for a socket.
OpenFails ==
    /\ scan.pc = "open"
    /\ disk[Here].type \in {"missing", "symlink", "other"}
    /\ scan' = Abort(scan)
    /\ UNCHANGED <<kind, walk, disk, touched, inspected, excused>>

\* It waits for a writer of a FIFO, and asks no context meanwhile.
OpenBlocks ==
    /\ scan.pc = "open"
    /\ disk[Here].type \in {"fifo", "symlink"}
    /\ scan' = [scan EXCEPT !.pc = "blocked"]
    /\ UNCHANGED <<kind, walk, disk, touched, inspected, excused>>

\* The opened file is not the one that was looked at: nothing is read.  The secret
\* scanner counts it as scanned, the triage as not regular.
Disregard ==
    /\ scan' = IF kind = "secret" THEN Advance([scan EXCEPT !.scanned = @ + 1])
               ELSE Skip(scan, "other")
    /\ Excuse(Here)
    /\ UNCHANGED <<kind, walk, disk, touched, inspected>>

\* IsRegular and SameFile, and for the triage the executable bit once more.
SameAsBefore ==
    /\ disk[Here].type = "regular"
    /\ disk[Here].inode = scan.inode
    /\ kind = "executable" => disk[Here].usable

Opens == scan.pc = "open" /\ disk[Here].type \notin {"missing", "fifo"}

\* Variant: the triage does not count it either.
ReplacedUncounted ==
    /\ Opens
    /\ ~SameAsBefore
    /\ scan' = Advance(scan)
    /\ Excuse(Here)
    /\ UNCHANGED <<kind, walk, disk, touched, inspected>>

\* Variant: another file in its place is looked at and opened instead.
ReplacedRetried ==
    /\ Opens
    /\ ~SameAsBefore
    /\ IF disk[Here].type = "regular"
       THEN /\ scan' = [scan EXCEPT !.inode = disk[Here].inode]
            /\ UNCHANGED <<kind, walk, disk, touched, inspected, excused>>
       ELSE Disregard

Replaced ==
    /\ Opens
    /\ ~SameAsBefore
    /\ Disregard

\* Somebody opens the FIFO for writing.
Unblocked ==
    /\ scan.pc = "blocked"
    /\ Disregard

Open ==
    /\ Opens
    /\ SameAsBefore
    /\ scan' = [scan EXCEPT !.pc = "read", !.handle = disk[Here].size]
    /\ UNCHANGED <<kind, walk, disk, touched, inspected, excused>>

\* The file turned out to be larger than its limit, or the triage saw it change:
\* blamed on the total when that was the smaller limit, which ends the scan.
Exceeded(s) ==
    IF Remaining < MaxFileBytes
    THEN Stop(Cover(s, "max_total_bytes", s.bytes + 1))
    ELSE Skip(Cover(s, "max_file_bytes", s.total + 1), "oversize")

\* The bytes count whatever becomes of the file.
Counted == [scan EXCEPT !.bytes = @ + scan.total]

ReadChunk ==
    /\ scan.pc = "read"
    /\ scan.total < scan.limit
    /\ scan.handle > scan.total
    /\ scan' = [scan EXCEPT !.total =
                   @ + Min({Chunk, scan.limit - scan.total, scan.handle - scan.total})]
    /\ UNCHANGED <<kind, walk, disk, touched, inspected, excused>>

\* Variant: a file that fills its limit is taken to be whole.
StillMoreUnasked == FALSE

\* Stat, once the limit is used up.
StillMore == scan.handle > scan.total

ReadWhole == inspected' = IF scan.handle > scan.total THEN inspected ELSE inspected \cup {Here}

LimitReached ==
    /\ scan.pc = "read"
    /\ scan.total = scan.limit
    /\ scan' = IF StillMore THEN Exceeded(Counted) ELSE [scan EXCEPT !.pc = "finish"]
    /\ ReadWhole
    /\ UNCHANGED <<kind, walk, disk, touched, excused>>

EndOfFile ==
    /\ scan.pc = "read"
    /\ scan.total < scan.limit
    /\ scan.handle <= scan.total
    /\ scan' = [scan EXCEPT !.pc = "finish"]
    /\ ReadWhole
    /\ UNCHANGED <<kind, walk, disk, touched, excused>>

-----------------------------------------------------------------------------
(***************************************************************************)
(* What is done with the content                                           *)
(***************************************************************************)
SkipBinary ==
    /\ scan.pc = "finish"
    /\ kind = "secret"
    /\ ~disk[Here].usable
    /\ scan' = Skip(Counted, "binary")
    /\ Excuse(Here)
    /\ UNCHANGED <<kind, walk, disk, touched, inspected>>

\* inspectText looks for one match more than may be kept.
Kept == Min({disk[Here].matches, MaxFindings - scan.found})

\* A match too many stops the scan.
AfterMatches(s) ==
    IF disk[Here].matches > Kept
    THEN Stop(Cover(s, "max_findings", MaxFindings + 1))
    ELSE Advance(s)

InspectText ==
    /\ scan.pc = "finish"
    /\ kind = "secret"
    /\ disk[Here].usable
    /\ scan' = AfterMatches([Counted EXCEPT !.scanned = @ + 1, !.found = @ + Kept])
    /\ inspected' = IF disk[Here].matches > Kept THEN inspected \ {Here} ELSE inspected
    /\ UNCHANGED <<kind, walk, disk, touched, excused>>

\* The size is compared once more after the last byte.
SizeChanged == scan.handle # scan.total

Triaged ==
    /\ scan.pc = "finish"
    /\ kind = "executable"
    /\ scan' = IF SizeChanged THEN Exceeded(Counted)
               ELSE Advance([Counted EXCEPT !.scanned = @ + 1])
    /\ UNCHANGED <<kind, walk, disk, touched, inspected, excused>>

\* All entries have been visited.
Done ==
    /\ scan.pc = "next"
    /\ scan.pos > Len(walk)
    /\ scan' = Stop(scan)
    /\ UNCHANGED <<kind, walk, disk, touched, inspected, excused>>

\* The context ends, or a read fails: the result so far and an error.
Cancel ==
    /\ scan.pc \notin {"blocked", "done"}
    /\ scan' = Abort(IF scan.pc \in {"read", "finish"} THEN Counted ELSE scan)
    /\ UNCHANGED <<kind, walk, disk, touched, inspected, excused>>

-----------------------------------------------------------------------------
(***************************************************************************)
(* Other processes                                                         *)
(***************************************************************************)
Change(p) == scan.pc # "done" /\ p \in Shared /\ touched' = touched \cup {p}

\* The scanner has the file open that is, or was, at p.
Held(p) == scan.pc \in {"read", "finish"} /\ p = Here

Resize(p, n) ==
    /\ Change(p)
    /\ disk[p].type = "regular"
    /\ disk' = [disk EXCEPT ![p].size = n]
    /\ scan' = IF Held(p) /\ disk[p].inode = scan.inode THEN [scan EXCEPT !.handle = n] ELSE scan
    /\ UNCHANGED <<kind, walk, inspected, excused>>

\* The executable bit.
Chmod(p) ==
    /\ Change(p)
    /\ kind = "executable"
    /\ disk[p].type = "regular"
    /\ disk' = [disk EXCEPT ![p].usable = ~@]
    /\ UNCHANGED <<kind, walk, scan, inspected, excused>>

\* A file of any type comes in its place, also where one was removed.
Replace(p, type, inode) ==
    /\ Change(p)
    /\ type # "missing"
    /\ Held(p) => inode # scan.inode
    /\ disk' = [disk EXCEPT ![p].type = type, ![p].inode = inode]
    /\ UNCHANGED <<kind, walk, scan, inspected, excused>>

Remove(p) ==
    /\ Change(p)
    /\ disk[p].type # "missing"
    /\ disk' = [disk EXCEPT ![p].type = "missing"]
    /\ UNCHANGED <<kind, walk, scan, inspected, excused>>

-----------------------------------------------------------------------------
Start ==
    [ pc |-> "next", pos |-> 1, seen |-> {}, considered |-> 0, scanned |-> 0,
      skipped |-> [r \in Reasons |-> 0], bytes |-> 0, found |-> 0,
      cover |-> [c \in Codes |-> [count |-> 0, observed |-> 0]],
      inode |-> 0, handle |-> 0, limit |-> 0, total |-> 0, failed |-> FALSE ]

Init ==
    /\ kind \in {"secret", "executable"}
    /\ walk \in Walks
    /\ disk \in [Paths -> {f \in File : f.type = f.listed /\ f.type # "missing" /\ f.inode = 0}]
    /\ scan = Start
    /\ touched = {}
    /\ inspected = {}
    /\ excused = {}

Scanning ==
    \/ TooDeep \/ SkipLink \/ SeenBefore \/ FileLimit \/ Missing \/ SkipType \/ Oversize
    \/ OverBudget \/ Admit \/ OpenFails \/ OpenBlocks \/ Replaced \/ Open \/ ReadChunk \/ LimitReached
    \/ EndOfFile \/ SkipBinary \/ InspectText \/ Triaged \/ Done

Others ==
    \E p \in Paths :
        \/ Remove(p)
        \/ Chmod(p)
        \/ \E n \in Sizes : Resize(p, n)
        \/ \E t \in Types, i \in 0..1 : Replace(p, t, i)

Next == Scanning \/ Cancel \/ Unblocked \/ Others

Spec == Init /\ [][Next]_vars /\ WF_vars(Scanning)

-----------------------------------------------------------------------------
\* The types of the scanner's state and of the files.
TypeOK ==
    /\ kind \in {"secret", "executable"}
    /\ walk \in Walks
    /\ disk \in [Paths -> File]
    /\ scan \in Scan
    /\ touched \subseteq Paths
    /\ inspected \subseteq Paths
    /\ excused \subseteq Paths

\* The limits hold at every moment, although files grow while they are read:
\* the bytes of the file being read and of all files before it, the number of
\* files, and the number of findings.
BudgetsHold ==
    /\ scan.bytes + (IF scan.pc \in {"read", "finish"} THEN scan.total ELSE 0) <= MaxTotalBytes
    /\ scan.total <= MaxFileBytes
    /\ scan.considered <= MaxFiles
    /\ scan.found <= MaxFindings

Covered == \E c \in Codes : scan.cover[c].count > 0
Ended == scan.pc = "done" /\ ~scan.failed

\* No silent gaps: a scan that ends without an error and without a coverage
\* finding has read every file to its end and kept every match, but for files
\* skipped for what they are, or replaced between Lstat and open.
SilenceMeansInspected ==
    Ended /\ ~Covered => \A i \in DOMAIN walk : walk[i].path \in inspected \cup excused

\* The statistics account for every file considered: read, skipped for a
\* reason, or the one that ended the scan.
StatsAddUp ==
    Ended =>
        scan.considered =
            scan.scanned
            + (IF kind = "executable" THEN scan.skipped["symlink"] ELSE 0)
            + scan.skipped["other"] + scan.skipped["missing"] + scan.skipped["not_executable"]
            + scan.skipped["binary"] + scan.skipped["oversize"]
            + scan.cover["max_total_bytes"].count

\* No false alarms on files nobody touches: every coverage finding then tells
\* of more than its limit, or of a file that came when the total was used up.
AlarmsAreReal ==
    touched = {} =>
        \A c \in Codes :
            scan.cover[c].count > 0 =>
                \/ scan.cover[c].observed > Limit(c)
                \/ c = "max_total_bytes" /\ scan.bytes = MaxTotalBytes

\* Every scan ends, although files are resized, replaced and removed under it for
\* ever.  The one exception is a FIFO that came in the place of a file after its
\* Lstat: os.Open waits for its writer.
Terminates == <>[](scan.pc = "done" \/ (scan.pc = "blocked" /\ Here \in touched))
=============================================================================
