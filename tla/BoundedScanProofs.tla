-------------------------- MODULE BoundedScanProofs --------------------------
(***************************************************************************)
(* Proofs about BoundedScan for any walk, any files and any limits, while  *)
(* other processes change the files: the limits hold, the statistics add   *)
(* up, a scan without alarm has looked at everything, and there is no      *)
(* alarm without a reason.                                                 *)
(***************************************************************************)
EXTENDS BoundedScan, TLAPS

-----------------------------------------------------------------------------
(***************************************************************************)
(* The inductive invariant                                                 *)
(***************************************************************************)
State == [ pc : {"next", "open", "blocked", "read", "finish", "done"}, pos : Nat,
           seen : SUBSET Paths, considered : Nat, scanned : Nat,
           skipped : [Reasons -> Nat], bytes : Nat, found : Nat,
           cover : [Codes -> [count : Nat, observed : Nat]],
           inode : 0..1, handle : Nat, limit : Nat, total : Nat, failed : BOOLEAN ]

\* A file is being read: it is considered and not yet accounted for.
Reading(s) == s.pc \in {"open", "blocked", "read", "finish"}

ScanTypes ==
    /\ kind \in {"secret", "executable"}
    /\ walk \in Walks
    /\ disk \in [Paths -> File]
    /\ scan \in State
    /\ scan.pos \in 1..(Len(walk) + 1)
    /\ Reading(scan) => scan.pos <= Len(walk)
    /\ touched \subseteq Paths
    /\ inspected \subseteq Paths
    /\ excused \subseteq Paths

Within(s) ==
    /\ s.bytes <= MaxTotalBytes
    /\ s.total <= MaxFileBytes
    /\ s.considered <= MaxFiles
    /\ s.found <= MaxFindings

\* The file being read has a limit that the total leaves room for.
Budgets(s) ==
    /\ Within(s)
    /\ Reading(s) => /\ s.total <= s.limit
                     /\ s.limit <= MaxFileBytes
                     /\ s.bytes + s.limit <= MaxTotalBytes

Accounted(k, s) ==
    s.scanned + (IF k = "executable" THEN s.skipped["symlink"] ELSE 0)
    + s.skipped["other"] + s.skipped["missing"] + s.skipped["not_executable"]
    + s.skipped["binary"] + s.skipped["oversize"] + s.cover["max_total_bytes"].count

Books(k, s) ==
    ~s.failed => s.considered = Accounted(k, s) + (IF Reading(s) THEN 1 ELSE 0)

\* No error and no coverage finding so far.
Silent(s) == ~s.failed /\ \A c \in Codes : s.cover[c].count = 0

Good == inspected \cup excused

\* A silent scan left nothing behind that it has not looked at.
Silence ==
    Silent(scan) =>
        /\ \A i \in 1..Len(walk) : i < scan.pos => walk[i].path \in Good
        /\ \A p \in scan.seen : p \in Good \/ (Reading(scan) /\ p = Here)
        /\ scan.pc = "finish" => Here \in Good
        /\ scan.pc = "done" => scan.pos > Len(walk)

Alarms(s) ==
    \A c \in Codes :
        s.cover[c].count > 0 =>
            \/ s.cover[c].observed > Limit(c)
            \/ c = "max_total_bytes" /\ s.bytes = MaxTotalBytes

\* Nobody touched the file: it is still the regular file that was looked at.
Regular ==
    /\ scan.pc = "open" /\ Here \notin touched => disk[Here].type = "regular"
    /\ scan.pc = "blocked" => Here \in touched

\* Nobody touched any file: the one being read fits its limit.
Untouched ==
    touched = {} =>
        /\ Alarms(scan)
        /\ scan.pc = "open" => disk[Here].size <= scan.limit /\ scan.total = 0
        /\ scan.pc \in {"read", "finish"} =>
              scan.handle <= scan.limit /\ scan.total <= scan.handle
        /\ scan.pc = "finish" => scan.total = scan.handle

ScanInv ==
    /\ ScanTypes
    /\ Budgets(scan)
    /\ Books(kind, scan)
    /\ Silence
    /\ Regular
    /\ Untouched

-----------------------------------------------------------------------------
(***************************************************************************)
(* The operators the steps are made of                                     *)
(***************************************************************************)
LEMMA MaxOfTwo ==
    ASSUME NEW m \in Nat, NEW n \in Nat
    PROVE  Max({m, n}) \in Nat /\ Max({m, n}) >= m /\ Max({m, n}) >= n
  <1>1. \E x \in {m, n} : \A y \in {m, n} : x >= y
    <2>1. m >= n \/ n >= m
      OBVIOUS
    <2> QED
      BY <2>1
  <1>2. Max({m, n}) \in {m, n} /\ \A y \in {m, n} : Max({m, n}) >= y
    BY <1>1 DEF Max
  <1> QED
    BY <1>2

LEMMA MinOfTwo ==
    ASSUME NEW m \in Nat, NEW n \in Nat
    PROVE  Min({m, n}) \in {m, n} /\ Min({m, n}) <= m /\ Min({m, n}) <= n
  <1>1. \E x \in {m, n} : \A y \in {m, n} : x =< y
    <2>1. m <= n \/ n <= m
      OBVIOUS
    <2> QED
      BY <2>1
  <1>2. Min({m, n}) \in {m, n} /\ \A y \in {m, n} : Min({m, n}) =< y
    BY <1>1 DEF Min
  <1> QED
    BY <1>2

LEMMA MinOfThree ==
    ASSUME NEW l \in Nat, NEW m \in Nat, NEW n \in Nat
    PROVE  /\ Min({l, m, n}) \in Nat /\ Min({l, m, n}) \in {l, m, n}
           /\ Min({l, m, n}) <= l /\ Min({l, m, n}) <= m /\ Min({l, m, n}) <= n
  <1>1. \E x \in {l, m, n} : \A y \in {l, m, n} : x =< y
    <2>1. \/ l <= m /\ l <= n
          \/ m <= l /\ m <= n
          \/ n <= l /\ n <= m
      OBVIOUS
    <2> QED
      BY <2>1
  <1>2. Min({l, m, n}) \in {l, m, n} /\ \A y \in {l, m, n} : Min({l, m, n}) =< y
    BY <1>1 DEF Min
  <1> QED
    BY <1>2

\* The parts of the scanner's state that most steps leave alone.
SameFile(s, t) ==
    t.inode = s.inode /\ t.handle = s.handle /\ t.limit = s.limit /\ t.total = s.total

SameCounts(s, t) ==
    t.seen = s.seen /\ t.considered = s.considered /\ t.scanned = s.scanned /\ t.found = s.found

LEMMA AdvanceEffect ==
    ASSUME NEW s \in State, NEW t, t = Advance(s)
    PROVE  /\ t \in State /\ t.pc = "next" /\ t.pos = s.pos + 1
           /\ SameFile(s, t) /\ SameCounts(s, t)
           /\ t.skipped = s.skipped /\ t.bytes = s.bytes /\ t.cover = s.cover
           /\ t.failed = s.failed
  <1> DEFINE u == [s EXCEPT !.pos = s.pos + 1]
  <1>1. /\ u \in State /\ u.pos = s.pos + 1
        /\ SameFile(s, u) /\ SameCounts(s, u)
        /\ u.skipped = s.skipped /\ u.bytes = s.bytes /\ u.cover = s.cover
        /\ u.failed = s.failed
    BY DEF State, SameFile, SameCounts
  <1>2. t = [u EXCEPT !.pc = "next"]
    BY DEF Advance
  <1> HIDE DEF u
  <1> QED
    BY <1>1, <1>2 DEF State, SameFile, SameCounts

LEMMA StopEffect ==
    ASSUME NEW s \in State, NEW t, t = Stop(s)
    PROVE  /\ t \in State /\ t.pc = "done" /\ t.pos = s.pos
           /\ SameFile(s, t) /\ SameCounts(s, t)
           /\ t.skipped = s.skipped /\ t.bytes = s.bytes /\ t.cover = s.cover
           /\ t.failed = s.failed
  BY DEF Stop, State, SameFile, SameCounts

LEMMA AbortEffect ==
    ASSUME NEW s \in State, NEW t, t = Abort(s)
    PROVE  /\ t \in State /\ t.pc = "done" /\ t.pos = s.pos
           /\ SameFile(s, t) /\ SameCounts(s, t)
           /\ t.skipped = s.skipped /\ t.bytes = s.bytes /\ t.cover = s.cover
           /\ t.failed
  BY DEF Abort, State, SameFile, SameCounts

LEMMA SkipEffect ==
    ASSUME NEW s \in State, NEW why \in Reasons, NEW t, t = Skip(s, why)
    PROVE  /\ t \in State /\ t.pc = "next" /\ t.pos = s.pos + 1
           /\ SameFile(s, t) /\ SameCounts(s, t)
           /\ t.skipped[why] = s.skipped[why] + 1
           /\ \A r \in Reasons \ {why} : t.skipped[r] = s.skipped[r]
           /\ t.bytes = s.bytes /\ t.cover = s.cover /\ t.failed = s.failed
  <1> DEFINE u == [s EXCEPT !.skipped[why] = @ + 1]
  <1>1. /\ u \in State /\ u.pos = s.pos /\ SameFile(s, u) /\ SameCounts(s, u)
        /\ u.skipped = [s.skipped EXCEPT ![why] = @ + 1]
        /\ u.bytes = s.bytes /\ u.cover = s.cover /\ u.failed = s.failed
    BY DEF State, SameFile, SameCounts
  <1>2. t = Advance(u)
    BY DEF Skip
  <1>3. s.skipped \in [Reasons -> Nat]
    BY DEF State
  <1> HIDE DEF u
  <1>4. /\ t \in State /\ t.pc = "next" /\ t.pos = u.pos + 1
        /\ SameFile(u, t) /\ SameCounts(u, t)
        /\ t.skipped = u.skipped /\ t.bytes = u.bytes /\ t.cover = u.cover
        /\ t.failed = u.failed
    BY <1>1, <1>2, AdvanceEffect
  <1> QED
    BY <1>1, <1>3, <1>4 DEF SameFile, SameCounts

LEMMA CoverEffect ==
    ASSUME NEW s \in State, NEW code \in Codes, NEW n \in Nat, NEW t, t = Cover(s, code, n)
    PROVE  /\ t \in State /\ t.pc = s.pc /\ t.pos = s.pos
           /\ SameFile(s, t) /\ SameCounts(s, t)
           /\ t.skipped = s.skipped /\ t.bytes = s.bytes /\ t.failed = s.failed
           /\ t.cover[code].count = s.cover[code].count + 1
           /\ t.cover[code].observed >= n
           /\ \A c \in Codes \ {code} : t.cover[c] = s.cover[c]
  <1> DEFINE old == s.cover[code]
             new == [count |-> old.count + 1, observed |-> Max({old.observed, n})]
  <1>1. s.cover \in [Codes -> [count : Nat, observed : Nat]] /\ old.count \in Nat
        /\ old.observed \in Nat
    BY DEF State
  <1>2. /\ new \in [count : Nat, observed : Nat] /\ new.count = old.count + 1
        /\ new.observed >= n
    BY <1>1, MaxOfTwo
  <1>3. t = [s EXCEPT !.cover = [s.cover EXCEPT ![code] = new]]
    BY DEF Cover, State
  <1> HIDE DEF new
  <1>4. /\ [s.cover EXCEPT ![code] = new] \in [Codes -> [count : Nat, observed : Nat]]
        /\ [s.cover EXCEPT ![code] = new][code] = new
        /\ \A c \in Codes \ {code} : [s.cover EXCEPT ![code] = new][c] = s.cover[c]
    BY <1>1, <1>2
  <1> DEFINE table == [s.cover EXCEPT ![code] = new]
  <1> HIDE DEF table
  <1>5. t = [s EXCEPT !.cover = table] /\ table \in [Codes -> [count : Nat, observed : Nat]]
    BY <1>3, <1>4 DEF table
  <1>6. /\ t \in State /\ t.pc = s.pc /\ t.pos = s.pos
        /\ SameFile(s, t) /\ SameCounts(s, t)
        /\ t.skipped = s.skipped /\ t.bytes = s.bytes /\ t.failed = s.failed
        /\ t.cover = table
    BY <1>5 DEF State, SameFile, SameCounts
  <1> QED
    BY <1>2, <1>4, <1>6 DEF table
-----------------------------------------------------------------------------
(***************************************************************************)
(* What is accounted for, and the alarms                                   *)
(***************************************************************************)
LEMMA StateFields ==
    ASSUME NEW s \in State
    PROVE  /\ s.pos \in Nat /\ s.considered \in Nat /\ s.scanned \in Nat /\ s.bytes \in Nat
           /\ s.found \in Nat /\ s.limit \in Nat /\ s.total \in Nat /\ s.handle \in Nat
           /\ s.seen \subseteq Paths
           /\ \A r \in Reasons : s.skipped[r] \in Nat
           /\ \A c \in Codes : s.cover[c].count \in Nat /\ s.cover[c].observed \in Nat
  BY DEF State

LEMMA AccountedNat ==
    ASSUME NEW s \in State, NEW k PROVE Accounted(k, s) \in Nat
  BY StateFields DEF Accounted, Reasons, Codes

LEMMA AccountedSame ==
    ASSUME NEW s \in State, NEW t \in State, NEW k,
           t.scanned = s.scanned, t.skipped = s.skipped, t.cover = s.cover
    PROVE  Accounted(k, t) = Accounted(k, s)
  BY DEF Accounted

LEMMA AccountedScanned ==
    ASSUME NEW s \in State, NEW t \in State, NEW k,
           t.scanned = s.scanned + 1, t.skipped = s.skipped, t.cover = s.cover
    PROVE  Accounted(k, t) = Accounted(k, s) + 1
  <1>1. /\ s.scanned \in Nat
        /\ \A r \in Reasons : s.skipped[r] \in Nat
        /\ \A c \in Codes : s.cover[c].count \in Nat
    BY StateFields
  <1> QED
    BY <1>1 DEF Accounted, Reasons, Codes

LEMMA AccountedSkip ==
    ASSUME NEW s \in State, NEW why \in Reasons, NEW t, t = Skip(s, why), NEW k
    PROVE  Accounted(k, t) =
              Accounted(k, s) + (IF why = "symlink" /\ k # "executable" THEN 0 ELSE 1)
  <1>1. /\ t.scanned = s.scanned /\ t.cover = s.cover
        /\ t.skipped[why] = s.skipped[why] + 1
        /\ \A r \in Reasons \ {why} : t.skipped[r] = s.skipped[r]
    BY SkipEffect DEF SameCounts
  <1>2. /\ s.scanned \in Nat
        /\ \A r \in Reasons : s.skipped[r] \in Nat
        /\ \A c \in Codes : s.cover[c].count \in Nat
    BY StateFields
  <1>3. "max_total_bytes" \in Codes
    BY DEF Codes
  <1> QED
    BY <1>1, <1>2, <1>3 DEF Accounted, Reasons

LEMMA AccountedCover ==
    ASSUME NEW s \in State, NEW code \in Codes, NEW n \in Nat, NEW t, t = Cover(s, code, n), NEW k
    PROVE  Accounted(k, t) = Accounted(k, s) + (IF code = "max_total_bytes" THEN 1 ELSE 0)
  <1>1. /\ t.scanned = s.scanned /\ t.skipped = s.skipped
        /\ t.cover[code].count = s.cover[code].count + 1
        /\ \A c \in Codes \ {code} : t.cover[c] = s.cover[c]
    BY CoverEffect DEF SameCounts
  <1>2. /\ s.scanned \in Nat
        /\ \A r \in Reasons : s.skipped[r] \in Nat
        /\ \A c \in Codes : s.cover[c].count \in Nat
    BY StateFields
  <1>3. "max_total_bytes" \in Codes
    BY DEF Codes
  <1>4. t.cover["max_total_bytes"].count =
           s.cover["max_total_bytes"].count + (IF code = "max_total_bytes" THEN 1 ELSE 0)
    BY <1>1, <1>2, <1>3
  <1> QED
    BY <1>1, <1>2, <1>3, <1>4 DEF Accounted, Reasons

LEMMA SilentSame ==
    ASSUME NEW s, NEW t, t.cover = s.cover, t.failed = s.failed PROVE Silent(t) <=> Silent(s)
  BY DEF Silent

LEMMA CoverIsLoud ==
     ASSUME NEW s \in State, NEW code \in Codes, NEW n \in Nat,
            NEW t, t.cover = Cover(s, code, n).cover
    PROVE  ~Silent(t)
  <1>1. s.cover[code].count \in Nat
    BY StateFields
  <1>2. t.cover[code].count = s.cover[code].count + 1
    BY CoverEffect
  <1> QED
    BY <1>1, <1>2 DEF Silent

LEMMA AlarmsSame ==
    ASSUME NEW s \in State, NEW t \in State, Alarms(s), t.cover = s.cover,
           t.bytes >= s.bytes, t.bytes <= MaxTotalBytes
    PROVE  Alarms(t)
  <1>1. s.bytes \in Nat /\ t.bytes \in Nat /\ MaxTotalBytes \in Nat
    BY StateFields, LimitsAssumption
  <1> QED
    BY <1>1 DEF Alarms

\* A coverage finding tells of more than its limit, or comes when nothing is left.
LEMMA AlarmsCover ==
    ASSUME NEW s \in State, NEW code \in Codes, NEW n \in Nat, Alarms(s),
           \/ n > Limit(code)
           \/ code = "max_total_bytes" /\ s.bytes = MaxTotalBytes,
           NEW t, t = Cover(s, code, n)
    PROVE  Alarms(t)
  <1>1. /\ t \in State /\ t.bytes = s.bytes /\ t.cover[code].observed >= n
        /\ \A c \in Codes \ {code} : t.cover[c] = s.cover[c]
    BY CoverEffect
  <1>2. t.cover[code].observed \in Nat /\ Limit(code) \in Nat
    <2>1. Limit(code) \in {MaxFileBytes, MaxTotalBytes, MaxDepth, MaxFiles, MaxFindings}
      BY DEF Limit, Codes
    <2> QED
      BY <1>1, <2>1, StateFields, LimitsAssumption
  <1>3. n > Limit(code) => t.cover[code].observed > Limit(code)
    BY <1>1, <1>2
  <1> QED
    BY <1>1, <1>3 DEF Alarms
-----------------------------------------------------------------------------
(***************************************************************************)
(* Where a step leaves the scan: past the entry, at its end, or reading    *)
(***************************************************************************)
LEMMA WalkFacts ==
    ASSUME ScanTypes, scan.pos <= Len(walk)
    PROVE  /\ Len(walk) \in Nat /\ scan.pos \in 1..Len(walk) /\ scan.pos \in Nat
           /\ Here \in Paths /\ walk[scan.pos].depth \in Nat
           /\ disk[Here] \in File /\ disk[Here].size \in Nat /\ disk[Here].matches \in Nat
           /\ disk[Here].inode \in 0..1 /\ disk[Here].type \in Types
  <1>1. walk \in Seq(Entry) /\ Len(walk) \in Nat
    BY WalkAssumption DEF ScanTypes
  <1>2. scan.pos \in 1..Len(walk) /\ scan.pos \in Nat
    BY <1>1 DEF ScanTypes
  <1>3. walk[scan.pos] \in Entry
    BY <1>1, <1>2
  <1>4. Here \in Paths /\ walk[scan.pos].depth \in Nat
    BY <1>3 DEF Entry, Here
  <1>5. disk[Here] \in File
    BY <1>4 DEF ScanTypes
  <1> HIDE DEF Here
  <1>6. disk[Here].size \in Nat /\ disk[Here].matches \in Nat
        /\ disk[Here].inode \in 0..1 /\ disk[Here].type \in Types
    BY <1>5, LimitsAssumption DEF File
  <1> QED
    BY <1>1, <1>2, <1>4, <1>5, <1>6

LEMMA LeaveEntry ==
    ASSUME ScanInv, UNCHANGED <<kind, walk, disk, touched>>, scan.pos <= Len(walk),
           inspected' \subseteq Paths, excused' \subseteq Paths,
           NEW t \in State, scan' = t, t.pc = "next", t.pos = scan.pos + 1,
           Budgets(t), Books(kind, t), touched = {} => Alarms(t),
           Silent(t) => /\ Silent(scan) /\ Here \in Good' /\ Good \subseteq Good'
                        /\ t.seen \subseteq scan.seen \cup {Here}
    PROVE  ScanInv'
  <1>1. Len(walk) \in Nat /\ scan.pos \in 1..Len(walk) /\ scan.pos \in Nat
    BY WalkFacts DEF ScanInv
  <1>2. ~Reading(t)
    BY DEF Reading
  <1>3. ScanTypes'
    BY <1>1, <1>2 DEF ScanInv, ScanTypes
  <1>4. Silence'
    <2> SUFFICES ASSUME Silent(t)
                 PROVE  /\ \A i \in 1..Len(walk) : i < t.pos => walk[i].path \in Good'
                        /\ \A p \in t.seen : p \in Good'
      BY DEF Silence
    <2>1. /\ \A i \in 1..Len(walk) : i < scan.pos => walk[i].path \in Good
          /\ \A p \in scan.seen : p \in Good \/ p = Here
      BY DEF ScanInv, Silence
    <2>2. \A i \in 1..Len(walk) : i < t.pos => i < scan.pos \/ i = scan.pos
      BY <1>1
    <2>3. Here = walk[scan.pos].path
      BY DEF Here
    <2> QED
      BY <2>1, <2>2, <2>3
  <1>5. Regular' /\ Untouched'
    BY DEF Regular, Untouched
  <1> QED
    BY <1>3, <1>4, <1>5 DEF ScanInv

LEMMA EndScan ==
    ASSUME ScanInv, UNCHANGED <<kind, walk, disk, touched>>,
           inspected' \subseteq Paths, excused' \subseteq Paths,
           NEW t \in State, scan' = t, t.pc = "done", t.pos = scan.pos,
           Budgets(t), Books(kind, t), touched = {} => Alarms(t),
           Silent(t) => /\ Silent(scan) /\ scan.pos > Len(walk) /\ ~Reading(scan)
                        /\ Good' = Good /\ t.seen = scan.seen
    PROVE  ScanInv'
  <1>1. ~Reading(t)
    BY DEF Reading
  <1>2. ScanTypes'
    BY <1>1 DEF ScanInv, ScanTypes
  <1>3. Silence'
    BY DEF ScanInv, Silence
  <1>4. Regular' /\ Untouched'
    BY DEF Regular, Untouched
  <1> QED
    BY <1>2, <1>3, <1>4 DEF ScanInv

LEMMA KeepReading ==
    ASSUME ScanInv, UNCHANGED <<kind, walk, disk, touched, excused>>, scan.pos <= Len(walk),
           NEW t \in State, scan' = t, Reading(t), t.pos = scan.pos, t.failed = scan.failed,
           t.cover = scan.cover, t.bytes = scan.bytes, t.seen \subseteq scan.seen \cup {Here},
           inspected \subseteq inspected', inspected' \subseteq Paths,
           t.pc = "finish" => Here \in inspected',
           Budgets(t), Books(kind, t),
           t.pc = "open" => disk[Here].type = "regular", t.pc = "blocked" => Here \in touched,
           touched = {} =>
               /\ t.pc = "open" => disk[Here].size <= t.limit /\ t.total = 0
               /\ t.pc \in {"read", "finish"} => t.handle <= t.limit /\ t.total <= t.handle
               /\ t.pc = "finish" => t.total = t.handle
    PROVE  ScanInv'
  <1>1. ScanTypes'
    BY DEF ScanInv, ScanTypes
  <1>2. Here' = Here
    BY DEF Here
  <1>3. Silent(t) <=> Silent(scan)
    BY SilentSame
  <1>4. Silence'
    <2> SUFFICES ASSUME Silent(t)
                 PROVE  /\ \A i \in 1..Len(walk) : i < t.pos => walk[i].path \in Good'
                        /\ \A p \in t.seen : p \in Good' \/ p = Here
                        /\ t.pc = "finish" => Here \in Good'
      BY <1>2 DEF Silence, Reading
    <2>1. /\ \A i \in 1..Len(walk) : i < scan.pos => walk[i].path \in Good
          /\ \A p \in scan.seen : p \in Good \/ p = Here
      BY <1>3 DEF ScanInv, Silence
    <2>2. Good \subseteq Good' /\ inspected' \subseteq Good'
      BY DEF Good
    <2> QED
      BY <2>1, <2>2
  <1>5. Untouched'
    <2> SUFFICES ASSUME touched = {} PROVE Alarms(t)
      BY <1>2 DEF Untouched
    <2> QED
      BY AlarmsSame, StateFields DEF ScanInv, ScanTypes, Untouched, Budgets, Within
  <1>6. Regular'
    BY <1>2 DEF Regular
  <1> QED
    BY <1>1, <1>4, <1>5, <1>6 DEF ScanInv

\* Every file considered is accounted for, or every one but the current one.
Settled(k, s) == s.failed \/ s.considered = Accounted(k, s)
Owed(k, s) == s.failed \/ s.considered = Accounted(k, s) + 1

LEMMA AdvanceLeaves ==
    ASSUME ScanInv, UNCHANGED <<kind, walk, disk, touched>>, scan.pos <= Len(walk),
           inspected' \subseteq Paths, excused' \subseteq Paths,
           NEW s \in State, scan' = Advance(s), s.pos = scan.pos,
           Within(s), Settled(kind, s), touched = {} => Alarms(s),
           Silent(s) => /\ Silent(scan) /\ Here \in Good' /\ Good \subseteq Good'
                        /\ s.seen \subseteq scan.seen \cup {Here}
    PROVE  ScanInv'
  <1>1. PICK t : t = Advance(s)
    OBVIOUS
  <1>2. /\ t \in State /\ t.pc = "next" /\ t.pos = scan.pos + 1
        /\ SameFile(s, t) /\ SameCounts(s, t)
        /\ t.skipped = s.skipped /\ t.bytes = s.bytes /\ t.cover = s.cover /\ t.failed = s.failed
    BY <1>1, AdvanceEffect
  <1>3. Accounted(kind, t) = Accounted(kind, s) /\ Accounted(kind, s) \in Nat /\ ~Reading(t)
    BY <1>2, AccountedSame, AccountedNat DEF SameCounts, Reading
  <1>4. Budgets(t) /\ Books(kind, t)
    BY <1>2, <1>3 DEF Budgets, Within, Books, Settled, SameFile, SameCounts
  <1>5. touched = {} => Alarms(t)
    BY <1>2, <1>4, StateFields, AlarmsSame DEF Budgets, Within
  <1>6. (Silent(t) <=> Silent(s)) /\ t.seen = s.seen
    BY <1>2, SilentSame DEF SameCounts
  <1> QED
    BY <1>1, <1>2, <1>4, <1>5, <1>6, LeaveEntry

LEMMA SkipLeaves ==
    ASSUME ScanInv, UNCHANGED <<kind, walk, disk, touched>>, scan.pos <= Len(walk),
           inspected' \subseteq Paths, excused' \subseteq Paths,
           NEW s \in State, NEW why \in Reasons, scan' = Skip(s, why), s.pos = scan.pos,
           Within(s), touched = {} => Alarms(s),
           IF why = "symlink" /\ kind # "executable" THEN Settled(kind, s) ELSE Owed(kind, s),
           Silent(s) => /\ Silent(scan) /\ Here \in Good' /\ Good \subseteq Good'
                        /\ s.seen \subseteq scan.seen \cup {Here}
    PROVE  ScanInv'
  <1>1. PICK t : t = Skip(s, why)
    OBVIOUS
  <1>2. /\ t \in State /\ t.pc = "next" /\ t.pos = scan.pos + 1
        /\ SameFile(s, t) /\ SameCounts(s, t)
        /\ t.bytes = s.bytes /\ t.cover = s.cover /\ t.failed = s.failed
    BY <1>1, SkipEffect
  <1>3. Settled(kind, t) /\ Accounted(kind, t) \in Nat /\ ~Reading(t)
    <2>1. Accounted(kind, t) =
             Accounted(kind, s) + (IF why = "symlink" /\ kind # "executable" THEN 0 ELSE 1)
      BY <1>1, AccountedSkip
    <2>2. Accounted(kind, s) \in Nat /\ t.considered = s.considered
      BY <1>2, AccountedNat DEF SameCounts
    <2> QED
      BY <1>2, <2>1, <2>2 DEF Settled, Owed, Reading
  <1>4. Budgets(t) /\ Books(kind, t)
    BY <1>2, <1>3 DEF Budgets, Within, Books, Settled, SameFile, SameCounts
  <1>5. touched = {} => Alarms(t)
    BY <1>2, <1>4, StateFields, AlarmsSame DEF Budgets, Within
  <1>6. (Silent(t) <=> Silent(s)) /\ t.seen = s.seen
    BY <1>2, SilentSame DEF SameCounts
  <1> QED
    BY <1>1, <1>2, <1>4, <1>5, <1>6, LeaveEntry

LEMMA StopEnds ==
    ASSUME ScanInv, UNCHANGED <<kind, walk, disk, touched, excused>>, inspected' \subseteq Paths,
           NEW s \in State, scan' = Stop(s), s.pos = scan.pos,
           Within(s), Settled(kind, s), touched = {} => Alarms(s),
           Silent(s) => /\ Silent(scan) /\ scan.pos > Len(walk) /\ ~Reading(scan)
                        /\ Good' = Good /\ s.seen = scan.seen
    PROVE  ScanInv'
  <1>1. PICK t : t = Stop(s)
    OBVIOUS
  <1>2. /\ t \in State /\ t.pc = "done" /\ t.pos = scan.pos
        /\ SameFile(s, t) /\ SameCounts(s, t)
        /\ t.skipped = s.skipped /\ t.bytes = s.bytes /\ t.cover = s.cover /\ t.failed = s.failed
    BY <1>1, StopEffect
  <1>3. Accounted(kind, t) = Accounted(kind, s) /\ Accounted(kind, s) \in Nat /\ ~Reading(t)
    BY <1>2, AccountedSame, AccountedNat DEF SameCounts, Reading
  <1>4. Budgets(t) /\ Books(kind, t)
    BY <1>2, <1>3 DEF Budgets, Within, Books, Settled, SameFile, SameCounts
  <1>5. touched = {} => Alarms(t)
    BY <1>2, <1>4, StateFields, AlarmsSame DEF Budgets, Within
  <1>6. /\ Silent(t) <=> Silent(s)
        /\ t.seen = s.seen /\ excused' \subseteq Paths
    BY <1>2, SilentSame DEF SameCounts, ScanInv, ScanTypes
  <1> QED
    BY <1>1, <1>2, <1>4, <1>5, <1>6, EndScan

LEMMA AbortEnds ==
    ASSUME ScanInv, UNCHANGED <<kind, walk, disk, touched, inspected>>, excused' \subseteq Paths,
           NEW s \in State, scan' = Abort(s), s.pos = scan.pos,
           Within(s), touched = {} => Alarms(s)
    PROVE  ScanInv'
  <1>1. PICK t : t = Abort(s)
    OBVIOUS
  <1>2. /\ t \in State /\ t.pc = "done" /\ t.pos = scan.pos
        /\ SameFile(s, t) /\ SameCounts(s, t)
        /\ t.skipped = s.skipped /\ t.bytes = s.bytes /\ t.cover = s.cover /\ t.failed
    BY <1>1, AbortEffect
  <1>3. ~Reading(t) /\ ~Silent(t) /\ Books(kind, t)
    BY <1>2 DEF Reading, Silent, Books
  <1>4. Budgets(t)
    BY <1>2, <1>3 DEF Budgets, Within, SameFile, SameCounts
  <1>5. touched = {} => Alarms(t)
    BY <1>2, <1>4, StateFields, AlarmsSame DEF Budgets, Within
  <1>6. inspected' \subseteq Paths
    BY DEF ScanInv, ScanTypes
  <1> QED
    BY <1>1, <1>2, <1>3, <1>4, <1>5, <1>6, EndScan

\* A coverage finding on the way.
LEMMA CoverKeeps ==
    ASSUME NEW s \in State, NEW code \in Codes, NEW n \in Nat, NEW t, t = Cover(s, code, n), NEW k,
           Within(s)
    PROVE  /\ t \in State /\ t.pos = s.pos /\ Within(t) /\ ~Silent(t)
           /\ IF code = "max_total_bytes" THEN Owed(k, s) => Settled(k, t)
              ELSE (Settled(k, s) => Settled(k, t)) /\ (Owed(k, s) => Owed(k, t))
  <1>1. /\ t \in State /\ t.pc = s.pc /\ t.pos = s.pos
        /\ SameFile(s, t) /\ SameCounts(s, t) /\ t.bytes = s.bytes /\ t.failed = s.failed
    BY CoverEffect
  <1>2. Within(t)
    BY <1>1 DEF Within, SameFile, SameCounts, Reading
  <1>3. ~Silent(t)
    BY CoverIsLoud
  <1>4. /\ Accounted(k, t) = Accounted(k, s) + (IF code = "max_total_bytes" THEN 1 ELSE 0)
        /\ Accounted(k, s) \in Nat
    BY AccountedCover, AccountedNat
  <1> QED
    BY <1>1, <1>2, <1>3, <1>4 DEF Settled, Owed, SameCounts

-----------------------------------------------------------------------------
(***************************************************************************)
(* The steps before a file is opened                                       *)
(***************************************************************************)
LEMMA AtEntryFacts ==
    ASSUME ScanInv, AtEntry
    PROVE  /\ scan \in State /\ scan.pc = "next" /\ ~Reading(scan) /\ scan.pos <= Len(walk)
           /\ Within(scan) /\ Settled(kind, scan) /\ (touched = {} => Alarms(scan))
           /\ Here \in Paths /\ inspected \subseteq Paths /\ excused \subseteq Paths
           /\ kind \in {"secret", "executable"}
  <1>1. scan \in State /\ Accounted(kind, scan) \in Nat
    BY AccountedNat DEF ScanInv, ScanTypes
  <1> QED
    BY <1>1, WalkFacts DEF ScanInv, ScanTypes, AtEntry, Reading, Untouched, Budgets, Books, Settled

LEMMA TooDeepStep ==
    ASSUME ScanInv, TooDeep PROVE ScanInv'
  <1>1. PICK n : n = walk[scan.pos].depth
    OBVIOUS
  <1>2. PICK t : t = Cover(scan, "max_depth", n)
    OBVIOUS
  <1>3. /\ AtEntry /\ n > MaxDepth /\ scan' = Advance(t)
        /\ UNCHANGED <<kind, walk, disk, touched, inspected, excused>>
    BY <1>1, <1>2 DEF TooDeep
  <1>4. n \in Nat /\ "max_depth" \in Codes /\ Limit("max_depth") = MaxDepth
    BY <1>1, <1>3, AtEntryFacts, WalkFacts DEF ScanInv, Codes, Limit
  <1>5. /\ t \in State /\ t.pos = scan.pos /\ Within(t) /\ ~Silent(t) /\ (touched = {} => Alarms(t))
        /\ Settled(kind, t)
    BY <1>2, <1>3, <1>4, AtEntryFacts, CoverKeeps, AlarmsCover
  <1> QED
    BY <1>3, <1>5, AtEntryFacts, AdvanceLeaves

LEMMA SkipLinkStep ==
    ASSUME ScanInv, SkipLink PROVE ScanInv'
  <1>1. /\ AtEntry /\ kind = "secret" /\ scan' = Skip(scan, "symlink") /\ "symlink" \in Reasons
        /\ excused' = excused \cup {Here}
        /\ UNCHANGED <<kind, walk, disk, touched, inspected>>
    BY DEF SkipLink, WalkedLink, Excuse, Reasons
  <1>2. Here \in Good' /\ Good \subseteq Good'
    BY <1>1 DEF Good
  <1>3. inspected' \subseteq Paths /\ excused' \subseteq Paths
    BY <1>1, AtEntryFacts
  <1> QED
    BY <1>1, <1>2, <1>3, AtEntryFacts, SkipLeaves

LEMMA SeenBeforeStep ==
    ASSUME ScanInv, SeenBefore PROVE ScanInv'
  <1>1. /\ AtEntry /\ Here \in scan.seen /\ scan' = Advance(scan)
        /\ UNCHANGED <<kind, walk, disk, touched, inspected, excused>>
    BY DEF SeenBefore
  <1>2. Good' = Good
    BY <1>1 DEF Good
  <1>3. Silent(scan) => Here \in Good
    BY <1>1, AtEntryFacts DEF ScanInv, Silence
  <1> QED
    BY <1>1, <1>2, <1>3, AtEntryFacts, AdvanceLeaves

LEMMA FileLimitStep ==
    ASSUME ScanInv, FileLimit PROVE ScanInv'
  <1>1. PICK t : t = Cover(scan, "max_files", scan.considered + 1)
    OBVIOUS
  <1>2. /\ AtEntry /\ ~Room /\ scan' = Stop(t)
        /\ UNCHANGED <<kind, walk, disk, touched, inspected, excused>>
    BY <1>1 DEF FileLimit
  <1>3. /\ scan.considered \in Nat /\ scan.considered + 1 \in Nat /\ "max_files" \in Codes
        /\ Limit("max_files") = MaxFiles /\ scan.considered + 1 > MaxFiles
    BY <1>2, AtEntryFacts, StateFields, LimitsAssumption DEF Codes, Limit, Room
  <1>4. /\ t \in State /\ t.pos = scan.pos /\ Within(t) /\ ~Silent(t) /\ (touched = {} => Alarms(t))
        /\ Settled(kind, t)
    BY <1>1, <1>2, <1>3, AtEntryFacts, CoverKeeps, AlarmsCover
  <1> QED
    BY <1>2, <1>4, AtEntryFacts, StopEnds
\* The file counts from here on, and is still to be accounted for.
LEMMA ConsideredFacts ==
    ASSUME ScanInv, Considering, NEW t, t = Considered
    PROVE  /\ t \in State /\ t.pc = "next" /\ t.pos = scan.pos /\ t.failed = scan.failed
           /\ t.seen = scan.seen \cup {Here} /\ t.cover = scan.cover /\ t.bytes = scan.bytes
           /\ t.considered = scan.considered + 1
           /\ Within(t) /\ Owed(kind, t) /\ (touched = {} => Alarms(t))
           /\ Silent(t) <=> Silent(scan)
  <1>1. /\ scan \in State /\ scan.pc = "next" /\ ~Reading(scan) /\ Within(scan)
        /\ Settled(kind, scan) /\ (touched = {} => Alarms(scan)) /\ Here \in Paths
    BY AtEntryFacts DEF Considering
  <1> HIDE DEF Here
  <1>2. /\ t \in State /\ t.pc = "next" /\ t.pos = scan.pos /\ t.failed = scan.failed
        /\ t.seen = scan.seen \cup {Here} /\ t.cover = scan.cover /\ t.bytes = scan.bytes
        /\ t.considered = scan.considered + 1 /\ t.scanned = scan.scanned
        /\ t.skipped = scan.skipped /\ t.total = scan.total /\ t.found = scan.found
    <2> DEFINE u == [scan EXCEPT !.seen = @ \cup {Here}]
    <2>1. /\ u \in State /\ u.pc = "next" /\ u.pos = scan.pos /\ u.failed = scan.failed
          /\ u.seen = scan.seen \cup {Here} /\ u.cover = scan.cover /\ u.bytes = scan.bytes
          /\ u.considered = scan.considered /\ u.scanned = scan.scanned
          /\ u.skipped = scan.skipped /\ u.total = scan.total /\ u.found = scan.found
      BY <1>1 DEF State
    <2>2. t = [u EXCEPT !.considered = scan.considered + 1]
      BY DEF Considered
    <2>3. scan.considered + 1 \in Nat
      BY <1>1, StateFields
    <2> HIDE DEF u
    <2> QED
      BY <2>1, <2>2, <2>3 DEF State
  <1>3. Within(t)
    <2>1. scan.considered + 1 <= MaxFiles
      BY <1>1, StateFields, LimitsAssumption DEF Considering, Room
    <2> QED
      BY <1>1, <1>2, <2>1 DEF Within, Reading
  <1>4. Owed(kind, t)
    <2>1. Accounted(kind, t) = Accounted(kind, scan)
      BY <1>1, <1>2, AccountedSame
    <2> QED
      BY <1>1, <1>2, <2>1 DEF Owed, Settled
  <1>5. touched = {} => Alarms(t)
    BY <1>1, <1>2, <1>3, StateFields, AlarmsSame DEF Within
  <1>6. Silent(t) <=> Silent(scan)
    BY <1>2, SilentSame
  <1> QED
    BY <1>2, <1>3, <1>4, <1>5, <1>6

LEMMA MissingStep ==
    ASSUME ScanInv, Missing PROVE ScanInv'
  <1>1. PICK s : s = Considered
    OBVIOUS
  <1>2. /\ Considering /\ AtEntry /\ excused' = excused \cup {Here}
        /\ scan' = IF kind = "secret" THEN Abort(s) ELSE Skip(s, "missing")
        /\ UNCHANGED <<kind, walk, disk, touched, inspected>>
    BY <1>1 DEF Missing, Considering, Excuse
  <1>3. /\ s \in State /\ s.pos = scan.pos /\ s.seen = scan.seen \cup {Here}
        /\ Within(s) /\ Owed(kind, s) /\ (touched = {} => Alarms(s)) /\ (Silent(s) <=> Silent(scan))
    BY <1>1, <1>2, ConsideredFacts
  <1>4. Here \in Good' /\ Good \subseteq Good' /\ "missing" \in Reasons
    BY <1>2 DEF Good, Reasons
  <1>5. inspected' \subseteq Paths /\ excused' \subseteq Paths
    BY <1>2, AtEntryFacts
  <1>6. CASE kind = "secret"
    BY <1>2, <1>3, <1>5, <1>6, AbortEnds
  <1>7. CASE kind # "secret"
    BY <1>2, <1>3, <1>4, <1>5, <1>7, AtEntryFacts, SkipLeaves
  <1> QED
    BY <1>6, <1>7

LEMMA SkipTypeStep ==
    ASSUME ScanInv, SkipType PROVE ScanInv'
  <1>1. PICK s : s = Considered
    OBVIOUS
  <1>2. /\ Considering /\ AtEntry /\ excused' = excused \cup {Here}
        /\ UNCHANGED <<kind, walk, disk, touched, inspected>>
    BY DEF SkipType, Considering, Excuse
  <1>3. PICK why \in Reasons : /\ scan' = Skip(s, why)
                               /\ why = "symlink" => kind = "executable"
    <2>1. CASE scan' = Skip(s, IF kind = "executable" /\ disk[Here].type = "symlink"
                               THEN "symlink" ELSE "other")
      <3>1. CASE kind = "executable" /\ disk[Here].type = "symlink"
        BY <2>1, <3>1 DEF Reasons
      <3>2. CASE ~(kind = "executable" /\ disk[Here].type = "symlink")
        BY <2>1, <3>2 DEF Reasons
      <3> QED
        BY <3>1, <3>2
    <2>2. CASE scan' = Skip(s, "not_executable")
      BY <2>2 DEF Reasons
    <2> QED
      BY <1>1, <2>1, <2>2 DEF SkipType
  <1>4. /\ s \in State /\ s.pos = scan.pos /\ s.seen = scan.seen \cup {Here}
        /\ Within(s) /\ Owed(kind, s) /\ (touched = {} => Alarms(s)) /\ (Silent(s) <=> Silent(scan))
    BY <1>1, <1>2, ConsideredFacts
  <1>5. Here \in Good' /\ Good \subseteq Good'
    BY <1>2 DEF Good
  <1>6. inspected' \subseteq Paths /\ excused' \subseteq Paths
    BY <1>2, AtEntryFacts
  <1> QED
    BY <1>2, <1>3, <1>4, <1>5, <1>6, AtEntryFacts, SkipLeaves

LEMMA OversizeStep ==
    ASSUME ScanInv, Oversize PROVE ScanInv'
  <1>1. PICK s, n : s = Considered /\ n = disk[Here].size
    OBVIOUS
  <1>2. PICK t : t = Cover(s, "max_file_bytes", n)
    OBVIOUS
  <1>3. /\ Considering /\ AtEntry /\ n > MaxFileBytes /\ scan' = Skip(t, "oversize")
        /\ UNCHANGED <<kind, walk, disk, touched, inspected, excused>>
    BY <1>1, <1>2 DEF Oversize, Wanted, Considering
  <1>4. /\ n \in Nat /\ "max_file_bytes" \in Codes /\ Limit("max_file_bytes") = MaxFileBytes
        /\ "oversize" \in Reasons
    BY <1>1, <1>3, AtEntryFacts, WalkFacts DEF ScanInv, Codes, Limit, Reasons
  <1>5. /\ s \in State /\ s.pos = scan.pos
        /\ Within(s) /\ Owed(kind, s) /\ (touched = {} => Alarms(s))
    BY <1>1, <1>3, ConsideredFacts
  <1>6. /\ t \in State /\ t.pos = scan.pos /\ Within(t) /\ ~Silent(t) /\ (touched = {} => Alarms(t))
        /\ Owed(kind, t)
    BY <1>2, <1>3, <1>4, <1>5, CoverKeeps, AlarmsCover
  <1> QED
    BY <1>3, <1>4, <1>6, AtEntryFacts, SkipLeaves

LEMMA OverBudgetStep ==
    ASSUME ScanInv, OverBudget PROVE ScanInv'
  <1>1. PICK s, n : s = Considered /\ n = scan.bytes + disk[Here].size
    OBVIOUS
  <1>2. PICK t : t = Cover(s, "max_total_bytes", n)
    OBVIOUS
  <1>3. /\ Considering /\ AtEntry /\ ~Fits /\ scan' = Stop(t)
        /\ UNCHANGED <<kind, walk, disk, touched, inspected, excused>>
    BY <1>1, <1>2 DEF OverBudget, Wanted, Considering
  <1>4. /\ s \in State /\ s.pos = scan.pos /\ s.bytes = scan.bytes
        /\ Within(s) /\ Owed(kind, s) /\ (touched = {} => Alarms(s))
    BY <1>1, <1>3, ConsideredFacts
  <1>5. /\ n \in Nat /\ "max_total_bytes" \in Codes /\ Limit("max_total_bytes") = MaxTotalBytes
        /\ n > MaxTotalBytes \/ s.bytes = MaxTotalBytes
    <2>1. /\ disk[Here].size \in Nat /\ scan.bytes \in Nat /\ MaxTotalBytes \in Nat
          /\ scan.bytes <= MaxTotalBytes
      BY <1>3, AtEntryFacts, WalkFacts, StateFields, LimitsAssumption DEF ScanInv, Within
    <2>2. n > MaxTotalBytes \/ scan.bytes = MaxTotalBytes
      BY <1>1, <1>3, <2>1 DEF Fits, Remaining
    <2> QED
      BY <1>1, <1>4, <2>1, <2>2 DEF Codes, Limit
  <1>6. /\ t \in State /\ t.pos = scan.pos /\ Within(t) /\ ~Silent(t) /\ (touched = {} => Alarms(t))
        /\ Settled(kind, t)
    BY <1>2, <1>4, <1>5, CoverKeeps, AlarmsCover
  <1> QED
    BY <1>3, <1>6, AtEntryFacts, StopEnds
Admitted(s, i, l) == [s EXCEPT !.pc = "open", !.inode = i, !.limit = l, !.total = 0]

LEMMA AdmitEffect ==
    ASSUME NEW s, NEW i, NEW l, NEW t, t = Admitted(s, i, l),
           s \in State, i \in 0..1, l \in Nat
    PROVE  /\ t \in State /\ t.pc = "open" /\ t.pos = s.pos /\ SameCounts(s, t)
           /\ t.skipped = s.skipped /\ t.bytes = s.bytes /\ t.cover = s.cover
           /\ t.failed = s.failed /\ t.limit = l /\ t.total = 0
  <1> DEFINE u == [s EXCEPT !.pc = "open"]
             v == [u EXCEPT !.inode = i]
             w == [v EXCEPT !.limit = l]
  <1>1. /\ u \in State /\ u.pc = "open" /\ u.pos = s.pos /\ SameCounts(s, u)
        /\ u.skipped = s.skipped /\ u.bytes = s.bytes /\ u.cover = s.cover /\ u.failed = s.failed
    BY DEF State, SameCounts
  <1> HIDE DEF u
  <1>2. /\ v \in State /\ v.pc = "open" /\ v.pos = s.pos /\ SameCounts(s, v)
        /\ v.skipped = s.skipped /\ v.bytes = s.bytes /\ v.cover = s.cover /\ v.failed = s.failed
    BY <1>1 DEF State, SameCounts
  <1> HIDE DEF v
  <1>3. /\ w \in State /\ w.pc = "open" /\ w.pos = s.pos /\ SameCounts(s, w) /\ w.limit = l
        /\ w.skipped = s.skipped /\ w.bytes = s.bytes /\ w.cover = s.cover /\ w.failed = s.failed
    BY <1>2 DEF State, SameCounts
  <1>4. t = [w EXCEPT !.total = 0]
    BY DEF u, v, Admitted
  <1> HIDE DEF w
  <1> QED
    BY <1>3, <1>4 DEF State, SameCounts

LEMMA AdmitStep ==
    ASSUME ScanInv, Admit PROVE ScanInv'
  <1>1. PICK s, l, i : s = Considered /\ l = ReadLimit /\ i = disk[Here].inode
    OBVIOUS
  <1>2. PICK t : t = Admitted(s, i, l)
    OBVIOUS
  <1>3. /\ Considering /\ AtEntry /\ Fits /\ disk[Here].size <= MaxFileBytes /\ scan' = t
        /\ disk[Here].type = "regular"
        /\ UNCHANGED <<kind, walk, disk, touched, inspected, excused>>
    BY <1>1, <1>2 DEF Admit, Wanted, Considering, Admitted
  <1>4. /\ s \in State /\ s.pos = scan.pos /\ s.seen = scan.seen \cup {Here}
        /\ s.cover = scan.cover /\ s.bytes = scan.bytes /\ s.failed = scan.failed
        /\ Within(s) /\ Owed(kind, s)
    BY <1>1, <1>3, ConsideredFacts
  <1>5. /\ scan.bytes \in Nat /\ MaxTotalBytes \in Nat /\ MaxFileBytes \in Nat
        /\ scan.bytes <= MaxTotalBytes /\ disk[Here].size \in Nat /\ i \in 0..1
        /\ scan.pos <= Len(walk) /\ inspected \subseteq Paths
    <2>1. scan \in State /\ ScanTypes /\ scan.pos <= Len(walk) /\ Within(scan)
          /\ inspected \subseteq Paths
      BY <1>3, AtEntryFacts DEF ScanInv
    <2> QED
      BY <1>1, <2>1, WalkFacts, StateFields, LimitsAssumption DEF Within
  <1>6. /\ l \in Nat /\ l <= MaxFileBytes /\ scan.bytes + l <= MaxTotalBytes
        /\ disk[Here].size <= l
    <2>1. Remaining \in Nat /\ Remaining = MaxTotalBytes - scan.bytes
      BY <1>5 DEF Remaining
    <2>2. l \in {MaxFileBytes, Remaining} /\ l <= MaxFileBytes /\ l <= Remaining
      BY <1>1, <1>5, <2>1, MinOfTwo DEF ReadLimit
    <2> QED
      BY <1>3, <1>5, <2>1, <2>2 DEF Fits
  <1>7. /\ t \in State /\ t.pc = "open" /\ t.pos = s.pos /\ SameCounts(s, t)
        /\ t.skipped = s.skipped /\ t.bytes = s.bytes /\ t.cover = s.cover
        /\ t.failed = s.failed /\ t.limit = l /\ t.total = 0
    <2>1. s \in State /\ i \in 0..1 /\ l \in Nat
      BY <1>4, <1>5, <1>6
    <2> QED
      BY <1>2, <2>1, AdmitEffect, SMT
  <1>8. Reading(t) /\ Budgets(t)
    BY <1>4, <1>5, <1>6, <1>7 DEF Budgets, Within, Reading, SameCounts
  <1>9. Books(kind, t)
    <2>1. Accounted(kind, t) = Accounted(kind, s)
      BY <1>4, <1>7, AccountedSame DEF SameCounts
    <2> QED
      BY <1>4, <1>7, <1>8, <2>1 DEF Books, Owed, SameCounts
  <1>10. t.seen \subseteq scan.seen \cup {Here}
    BY <1>4, <1>7 DEF SameCounts
  <1> QED
    BY <1>3, <1>4, <1>5, <1>6, <1>7, <1>8, <1>9, <1>10, KeepReading

-----------------------------------------------------------------------------
(***************************************************************************)
(* The steps on an open file                                               *)
(***************************************************************************)
LEMMA ReadingFacts ==
    ASSUME ScanInv, Reading(scan)
    PROVE  /\ scan \in State /\ scan.pos <= Len(walk) /\ kind \in {"secret", "executable"}
           /\ Budgets(scan) /\ Within(scan) /\ Owed(kind, scan) /\ (touched = {} => Alarms(scan))
           /\ Here \in Paths /\ inspected \subseteq Paths /\ excused \subseteq Paths
           /\ Silent(scan) => \A p \in scan.seen : p \in Good \/ p = Here
  BY WalkFacts DEF ScanInv, ScanTypes, Untouched, Budgets, Books, Owed, Silence

LEMMA OpenFailsStep ==
    ASSUME ScanInv, OpenFails PROVE ScanInv'
  <1>1. /\ Reading(scan) /\ scan' = Abort(scan)
        /\ UNCHANGED <<kind, walk, disk, touched, inspected, excused>>
    BY DEF OpenFails, Reading
  <1> QED
    BY <1>1, ReadingFacts, AbortEnds

Scanned(s) == [s EXCEPT !.scanned = @ + 1]
ScannedAndFound(s, n) == [s EXCEPT !.scanned = @ + 1, !.found = @ + n]

LEMMA ScannedEffect ==
    ASSUME NEW s \in State, NEW n \in Nat, NEW t, t = ScannedAndFound(s, n), NEW k, Owed(k, s)
    PROVE  /\ t \in State /\ t.pos = s.pos /\ t.seen = s.seen /\ t.cover = s.cover
           /\ t.pc = s.pc /\ t.failed = s.failed /\ t.bytes = s.bytes /\ SameFile(s, t)
           /\ t.considered = s.considered /\ t.found = s.found + n /\ Settled(k, t)
  <1> DEFINE u == [s EXCEPT !.scanned = s.scanned + 1]
  <1>1. s.scanned + 1 \in Nat /\ s.found + n \in Nat
    BY StateFields
  <1>2. /\ u \in State /\ u.pos = s.pos /\ u.seen = s.seen /\ u.cover = s.cover
        /\ u.pc = s.pc /\ u.failed = s.failed /\ u.bytes = s.bytes /\ SameFile(s, u)
        /\ u.considered = s.considered /\ u.scanned = s.scanned + 1 /\ u.skipped = s.skipped
        /\ u.found = s.found
    BY <1>1 DEF State, SameFile
  <1>3. t = [u EXCEPT !.found = s.found + n]
    BY DEF ScannedAndFound
  <1> HIDE DEF u
  <1>4. /\ t \in State /\ t.pos = s.pos /\ t.seen = s.seen /\ t.cover = s.cover
        /\ t.pc = s.pc /\ t.failed = s.failed /\ t.bytes = s.bytes /\ SameFile(s, t)
        /\ t.considered = s.considered /\ t.found = s.found + n
        /\ t.scanned = s.scanned + 1 /\ t.skipped = s.skipped
    BY <1>1, <1>2, <1>3 DEF State, SameFile
  <1>5. Accounted(k, t) = Accounted(k, s) + 1
    BY <1>4, AccountedScanned
  <1> QED
    BY <1>4, <1>5 DEF Owed, Settled

\* The same without the findings.
LEMMA ScannedOnlyEffect ==
    ASSUME NEW s \in State, NEW t, t = Scanned(s), NEW k, Owed(k, s)
    PROVE  /\ t \in State /\ t.pos = s.pos /\ t.seen = s.seen /\ t.cover = s.cover
           /\ t.pc = s.pc /\ t.failed = s.failed /\ t.bytes = s.bytes /\ SameFile(s, t)
           /\ t.considered = s.considered /\ t.found = s.found /\ Settled(k, t)
  <1>1. s.scanned + 1 \in Nat
    BY StateFields
  <1>2. /\ t \in State /\ t.pos = s.pos /\ t.seen = s.seen /\ t.cover = s.cover
        /\ t.pc = s.pc /\ t.failed = s.failed /\ t.bytes = s.bytes /\ SameFile(s, t)
        /\ t.considered = s.considered /\ t.scanned = s.scanned + 1 /\ t.skipped = s.skipped
        /\ t.found = s.found
    BY <1>1 DEF State, SameFile, Scanned
  <1>3. Accounted(k, t) = Accounted(k, s) + 1
    BY <1>2, AccountedScanned
  <1> QED
    BY <1>2, <1>3 DEF Owed, Settled

\* The file is not read: os.Open found another one in its place.
LEMMA DisregardStep ==
    ASSUME ScanInv, Replaced \/ Unblocked PROVE ScanInv'
  <1>1. PICK s : s = Scanned(scan)
    OBVIOUS
  <1>2. /\ Reading(scan) /\ excused' = excused \cup {Here} /\ "other" \in Reasons
        /\ scan' = IF kind = "secret" THEN Advance(s) ELSE Skip(scan, "other")
        /\ UNCHANGED <<kind, walk, disk, touched, inspected>>
    BY <1>1 DEF Replaced, Unblocked, Opens, Disregard, Reading, Excuse, Scanned, Reasons
  <1>3. Here \in Good' /\ Good \subseteq Good'
    BY <1>2 DEF Good
  <1>4. inspected' \subseteq Paths /\ excused' \subseteq Paths
    BY <1>2, ReadingFacts
  <1>5. CASE kind = "secret"
    <2>1. /\ s \in State /\ s.pos = scan.pos /\ s.seen = scan.seen /\ s.cover = scan.cover
          /\ s.failed = scan.failed /\ s.bytes = scan.bytes /\ SameFile(scan, s)
          /\ s.considered = scan.considered /\ s.found = scan.found /\ Settled(kind, s)
      BY <1>1, <1>2, ReadingFacts, ScannedOnlyEffect
    <2>2. Within(s)
      BY <1>2, <2>1, ReadingFacts DEF Within, SameFile
    <2>3. touched = {} => Alarms(s)
      BY <1>2, <2>1, <2>2, ReadingFacts, StateFields, AlarmsSame DEF Within
    <2>4. Silent(s) <=> Silent(scan)
      BY <2>1, SilentSame
    <2> QED
      BY <1>2, <1>3, <1>4, <1>5, <2>1, <2>2, <2>3, <2>4, ReadingFacts, AdvanceLeaves
  <1>6. CASE kind # "secret"
    BY <1>2, <1>3, <1>4, <1>6, ReadingFacts, SkipLeaves
  <1> QED
    BY <1>5, <1>6

\* A step within the reading of a file changes no account.
LEMMA ReadingBooks ==
    ASSUME ScanInv, Reading(scan), NEW t \in State, Reading(t), SameCounts(scan, t),
           t.skipped = scan.skipped, t.cover = scan.cover, t.failed = scan.failed
    PROVE  Books(kind, t) /\ t.seen \subseteq scan.seen \cup {Here}
  <1>1. Accounted(kind, t) = Accounted(kind, scan)
    BY AccountedSame DEF ScanInv, ScanTypes, SameCounts
  <1> QED
    BY <1>1 DEF ScanInv, Books, SameCounts

\* It waits only for a file that was put there after the Lstat.
LEMMA OpenBlocksStep ==
    ASSUME ScanInv, OpenBlocks PROVE ScanInv'
  <1>1. PICK t : t = [scan EXCEPT !.pc = "blocked"]
    OBVIOUS
  <1>2. /\ scan.pc = "open" /\ Reading(scan) /\ disk[Here].type # "regular" /\ scan' = t
        /\ UNCHANGED <<kind, walk, disk, touched, inspected, excused>>
    BY <1>1 DEF OpenBlocks, Reading
  <1>3. Here \in touched
    BY <1>2 DEF ScanInv, Regular
  <1>4. scan \in State /\ scan.pos <= Len(walk) /\ inspected \subseteq Paths /\ Budgets(scan)
    BY <1>2, ReadingFacts
  <1>5. /\ t \in State /\ t.pc = "blocked" /\ t.pos = scan.pos /\ SameCounts(scan, t)
        /\ t.skipped = scan.skipped /\ t.bytes = scan.bytes /\ t.cover = scan.cover
        /\ t.failed = scan.failed /\ t.limit = scan.limit /\ t.total = scan.total
    BY <1>1, <1>4 DEF State, SameCounts
  <1>6. Reading(t)
    BY <1>5 DEF Reading
  <1>7. Budgets(t)
    BY <1>2, <1>4, <1>5 DEF Budgets, Within, SameCounts
  <1>8. Books(kind, t) /\ t.seen \subseteq scan.seen \cup {Here}
    BY <1>2, <1>5, <1>6, ReadingBooks
  <1> QED
    BY <1>2, <1>3, <1>4, <1>5, <1>6, <1>7, <1>8, KeepReading

Opened(s, n) == [s EXCEPT !.pc = "read", !.handle = n]
GotTo(s, n) == [s EXCEPT !.total = n]
Finishing(s) == [s EXCEPT !.pc = "finish"]

LEMMA OpenedEffect ==
    ASSUME NEW s, NEW n, NEW t, t = Opened(s, n), s \in State, n \in Nat
    PROVE  /\ t \in State /\ t.pc = "read" /\ t.pos = s.pos /\ SameCounts(s, t)
           /\ t.skipped = s.skipped /\ t.bytes = s.bytes /\ t.cover = s.cover
           /\ t.failed = s.failed /\ t.handle = n /\ t.limit = s.limit /\ t.total = s.total
  <1> DEFINE u == [s EXCEPT !.pc = "read"]
  <1>1. /\ u \in State /\ u.pc = "read" /\ u.pos = s.pos /\ SameCounts(s, u)
        /\ u.skipped = s.skipped /\ u.bytes = s.bytes /\ u.cover = s.cover
        /\ u.failed = s.failed /\ u.limit = s.limit /\ u.total = s.total
    BY DEF State, SameCounts
  <1>2. t = [u EXCEPT !.handle = n]
    BY DEF Opened
  <1> HIDE DEF u
  <1> QED
    BY <1>1, <1>2 DEF State, SameCounts

LEMMA GotToEffect ==
    ASSUME NEW s, NEW n, NEW t, t = GotTo(s, n), s \in State, n \in Nat
    PROVE  /\ t \in State /\ t.pc = s.pc /\ t.pos = s.pos /\ SameCounts(s, t)
           /\ t.skipped = s.skipped /\ t.bytes = s.bytes /\ t.cover = s.cover
           /\ t.failed = s.failed /\ t.handle = s.handle /\ t.limit = s.limit /\ t.total = n
  BY DEF GotTo, State, SameCounts

LEMMA FinishingEffect ==
    ASSUME NEW s, NEW t, t = Finishing(s), s \in State
    PROVE  /\ t \in State /\ t.pc = "finish" /\ t.pos = s.pos /\ SameCounts(s, t)
           /\ t.skipped = s.skipped /\ t.bytes = s.bytes /\ t.cover = s.cover
           /\ t.failed = s.failed /\ SameFile(s, t)
  BY DEF Finishing, State, SameCounts, SameFile

LEMMA OpenStep ==
    ASSUME ScanInv, Open PROVE ScanInv'
  <1>1. PICK n, t : n = disk[Here].size /\ t = Opened(scan, n)
    OBVIOUS
  <1>2. /\ Reading(scan) /\ scan.pc = "open" /\ scan' = t
        /\ UNCHANGED <<kind, walk, disk, touched, inspected, excused>>
    BY <1>1 DEF Open, Opens, Reading, Opened
  <1>3. scan \in State /\ n \in Nat /\ scan.pos <= Len(walk) /\ inspected \subseteq Paths
    BY <1>1, <1>2, ReadingFacts, WalkFacts DEF ScanInv
  <1>4. /\ t \in State /\ t.pc = "read" /\ t.pos = scan.pos /\ SameCounts(scan, t)
        /\ t.skipped = scan.skipped /\ t.bytes = scan.bytes /\ t.cover = scan.cover
        /\ t.failed = scan.failed /\ t.handle = n /\ t.limit = scan.limit /\ t.total = scan.total
    BY <1>1, <1>3, OpenedEffect
  <1>5. Reading(t) /\ Books(kind, t) /\ t.seen \subseteq scan.seen \cup {Here}
    BY <1>2, <1>4, ReadingBooks DEF Reading
  <1>6. Budgets(t)
    BY <1>2, <1>4, ReadingFacts DEF Budgets, Within, SameCounts
  <1>7. touched = {} => t.handle <= t.limit /\ t.total <= t.handle
    BY <1>1, <1>2, <1>3, <1>4 DEF ScanInv, Untouched
  <1> QED
    BY <1>2, <1>3, <1>4, <1>5, <1>6, <1>7, KeepReading

LEMMA ReadChunkStep ==
    ASSUME ScanInv, ReadChunk PROVE ScanInv'
  <1>1. PICK m : m = Min({Chunk, scan.limit - scan.total, scan.handle - scan.total})
    OBVIOUS
  <1>2. PICK n, t : n = scan.total + m /\ t = GotTo(scan, n)
    OBVIOUS
  <1>3. /\ Reading(scan) /\ scan.pc = "read" /\ scan' = t
        /\ scan.total < scan.limit /\ scan.handle > scan.total
        /\ UNCHANGED <<kind, walk, disk, touched, inspected, excused>>
    BY <1>1, <1>2 DEF ReadChunk, Reading, GotTo
  <1>4. /\ scan \in State /\ scan.pos <= Len(walk) /\ inspected \subseteq Paths
        /\ scan.total \in Nat /\ scan.limit \in Nat /\ scan.handle \in Nat
        /\ Chunk \in Nat /\ MaxFileBytes \in Nat
        /\ Within(scan) /\ scan.limit <= MaxFileBytes /\ scan.bytes + scan.limit <= MaxTotalBytes
    <2>1. Budgets(scan) /\ scan \in State
      BY <1>3, ReadingFacts
    <2> QED
      BY <1>3, <2>1, ReadingFacts, StateFields, LimitsAssumption DEF Budgets
  <1>5. m \in Nat /\ m <= scan.limit - scan.total /\ m <= scan.handle - scan.total
    <2>1. scan.limit - scan.total \in Nat /\ scan.handle - scan.total \in Nat
      BY <1>3, <1>4
    <2> QED
      BY <1>1, <1>4, <2>1, MinOfThree
  <1>6. n \in Nat /\ n <= scan.limit /\ n <= scan.handle /\ n <= MaxFileBytes
    BY <1>2, <1>4, <1>5
  <1>7. /\ t \in State /\ t.pc = scan.pc /\ t.pos = scan.pos /\ SameCounts(scan, t)
        /\ t.skipped = scan.skipped /\ t.bytes = scan.bytes /\ t.cover = scan.cover
        /\ t.failed = scan.failed /\ t.handle = scan.handle /\ t.limit = scan.limit /\ t.total = n
    BY <1>2, <1>4, <1>6, GotToEffect
  <1>8. Reading(t) /\ Books(kind, t) /\ t.seen \subseteq scan.seen \cup {Here}
    BY <1>3, <1>7, ReadingBooks DEF Reading
  <1>9. Budgets(t)
    BY <1>4, <1>6, <1>7 DEF Budgets, Within, SameCounts
  <1>10. touched = {} => t.handle <= t.limit /\ t.total <= t.handle
    BY <1>3, <1>6, <1>7 DEF ScanInv, Untouched
  <1> QED
    BY <1>3, <1>4, <1>7, <1>8, <1>9, <1>10, KeepReading

\* The file has been read to its end.
LEMMA FinishingStep ==
    ASSUME ScanInv, scan.pc = "read", scan.handle <= scan.total, scan' = Finishing(scan),
           inspected' = inspected \cup {Here}, UNCHANGED <<kind, walk, disk, touched, excused>>
    PROVE  ScanInv'
  <1>1. PICK t : t = Finishing(scan)
    OBVIOUS
  <1>2. Reading(scan)
    BY DEF Reading
  <1>3. /\ scan \in State /\ scan.pos <= Len(walk) /\ Here \in Paths /\ inspected \subseteq Paths
        /\ scan.total \in Nat /\ scan.handle \in Nat /\ Budgets(scan)
    BY <1>2, ReadingFacts, StateFields
  <1>4. /\ t \in State /\ t.pc = "finish" /\ t.pos = scan.pos /\ SameCounts(scan, t)
        /\ t.skipped = scan.skipped /\ t.bytes = scan.bytes /\ t.cover = scan.cover
        /\ t.failed = scan.failed /\ SameFile(scan, t)
    BY <1>1, <1>3, FinishingEffect
  <1>5. Reading(t) /\ Books(kind, t) /\ t.seen \subseteq scan.seen \cup {Here}
    BY <1>2, <1>4, ReadingBooks DEF Reading
  <1>6. Budgets(t)
    BY <1>2, <1>3, <1>4 DEF Budgets, Within, SameCounts, SameFile
  <1>7. touched = {} => t.handle <= t.limit /\ t.total <= t.handle /\ t.total = t.handle
    BY <1>3, <1>4 DEF ScanInv, Untouched, SameFile
  <1>8. inspected \subseteq inspected' /\ inspected' \subseteq Paths /\ Here \in inspected'
    BY <1>3
  <1> QED
    BY <1>1, <1>3, <1>4, <1>5, <1>6, <1>7, <1>8, KeepReading

LEMMA EndOfFileStep ==
    ASSUME ScanInv, EndOfFile PROVE ScanInv'
  <1>1. scan \in State /\ scan.handle \in Nat /\ scan.total \in Nat
    BY StateFields DEF ScanInv, ScanTypes
  <1>2. inspected' = inspected \cup {Here}
    BY <1>1 DEF EndOfFile, ReadWhole
  <1> QED
    BY <1>2, FinishingStep DEF EndOfFile, Finishing
-----------------------------------------------------------------------------
(***************************************************************************)
(* The steps after a file was read                                         *)
(***************************************************************************)
\* The bytes of the file go to the total, which has room for them.
LEMMA CountedFacts ==
    ASSUME ScanInv, scan.pc \in {"read", "finish"}, NEW t, t = Counted
    PROVE  /\ t \in State /\ t.pos = scan.pos /\ t.seen = scan.seen /\ t.cover = scan.cover
           /\ t.failed = scan.failed /\ t.total = scan.total /\ t.considered = scan.considered
           /\ t.found = scan.found
           /\ Within(t) /\ Owed(kind, t) /\ (touched = {} => Alarms(t))
           /\ Silent(t) <=> Silent(scan)
  <1>1. Reading(scan)
    BY DEF Reading
  <1>2. scan \in State /\ Budgets(scan) /\ Owed(kind, scan) /\ (touched = {} => Alarms(scan))
    BY <1>1, ReadingFacts
  <1>3. /\ scan.bytes \in Nat /\ scan.total \in Nat /\ scan.limit \in Nat /\ MaxTotalBytes \in Nat
        /\ scan.bytes + scan.total \in Nat
    BY <1>2, StateFields, LimitsAssumption
  <1>4. /\ t \in State /\ t.pos = scan.pos /\ t.cover = scan.cover /\ t.failed = scan.failed
        /\ SameCounts(scan, t) /\ SameFile(scan, t) /\ t.skipped = scan.skipped
        /\ t.bytes = scan.bytes + scan.total
    BY <1>2, <1>3 DEF Counted, State, SameCounts, SameFile
  <1>5. Within(t) /\ t.bytes >= scan.bytes
    BY <1>1, <1>2, <1>3, <1>4 DEF Within, Budgets, SameCounts, SameFile
  <1>6. Accounted(kind, t) = Accounted(kind, scan)
    BY <1>2, <1>4, AccountedSame DEF SameCounts
  <1>7. Owed(kind, t)
    BY <1>2, <1>4, <1>6 DEF Owed, SameCounts
  <1>8. touched = {} => Alarms(t)
    BY <1>2, <1>4, <1>5, AlarmsSame DEF Within
  <1>9. Silent(t) <=> Silent(scan)
    BY <1>4, SilentSame
  <1> QED
    BY <1>4, <1>5, <1>7, <1>8, <1>9 DEF SameCounts, SameFile

\* Only a file that somebody changed turns out larger than it was.
LEMMA ExceededEnds ==
    ASSUME ScanInv, scan.pc \in {"read", "finish"}, touched # {}, scan' = Exceeded(Counted),
           UNCHANGED <<kind, walk, disk, touched, inspected, excused>>
    PROVE  ScanInv'
  <1>1. PICK s : s = Counted
    OBVIOUS
  <1>2. /\ s \in State /\ s.pos = scan.pos /\ Within(s) /\ Owed(kind, s)
    BY <1>1, CountedFacts
  <1>3. /\ scan.pos <= Len(walk) /\ inspected \subseteq Paths /\ excused \subseteq Paths
        /\ s.bytes + 1 \in Nat /\ s.total + 1 \in Nat
        /\ "max_total_bytes" \in Codes /\ "max_file_bytes" \in Codes /\ "oversize" \in Reasons
    BY <1>2, ReadingFacts, StateFields DEF Reading, Codes, Reasons
  <1>4. CASE Remaining < MaxFileBytes
    <2>1. PICK t : t = Cover(s, "max_total_bytes", s.bytes + 1)
      OBVIOUS
    <2>2. scan' = Stop(t)
      BY <1>1, <1>4, <2>1 DEF Exceeded
    <2>3. t \in State /\ t.pos = s.pos /\ Within(t) /\ ~Silent(t) /\ Settled(kind, t)
      BY <1>2, <1>3, <2>1, CoverKeeps
    <2> QED
      BY <1>2, <1>3, <2>2, <2>3, StopEnds
  <1>5. CASE ~(Remaining < MaxFileBytes)
    <2>1. PICK t : t = Cover(s, "max_file_bytes", s.total + 1)
      OBVIOUS
    <2>2. scan' = Skip(t, "oversize")
      BY <1>1, <1>5, <2>1 DEF Exceeded
    <2>3. t \in State /\ t.pos = s.pos /\ Within(t) /\ ~Silent(t) /\ Owed(kind, t)
      BY <1>2, <1>3, <2>1, CoverKeeps
    <2> QED
      BY <1>2, <1>3, <2>2, <2>3, SkipLeaves
  <1> QED
    BY <1>4, <1>5

LEMMA LimitReachedStep ==
    ASSUME ScanInv, LimitReached PROVE ScanInv'
  <1>1. /\ scan.pc = "read" /\ scan.total = scan.limit /\ Reading(scan)
        /\ UNCHANGED <<kind, walk, disk, touched, excused>>
    BY DEF LimitReached, Reading
  <1>2. scan.handle \in Nat /\ scan.total \in Nat
    BY <1>1, ReadingFacts, StateFields
  <1>3. CASE StillMore
    <2>1. scan' = Exceeded(Counted) /\ inspected' = inspected
      BY <1>3 DEF LimitReached, ReadWhole, StillMore
    <2>2. touched # {}
      BY <1>1, <1>2, <1>3 DEF StillMore, ScanInv, Untouched
    <2> QED
      BY <1>1, <2>1, <2>2, ExceededEnds
  <1>4. CASE ~StillMore
    <2>1. /\ scan' = Finishing(scan) /\ inspected' = inspected \cup {Here}
          /\ scan.handle <= scan.total
      BY <1>2, <1>4 DEF LimitReached, ReadWhole, StillMore, Finishing
    <2> QED
      BY <1>1, <2>1, FinishingStep
  <1> QED
    BY <1>3, <1>4

LEMMA SkipBinaryStep ==
    ASSUME ScanInv, SkipBinary PROVE ScanInv'
  <1>1. PICK s : s = Counted
    OBVIOUS
  <1>2. /\ scan.pc \in {"read", "finish"} /\ Reading(scan) /\ scan' = Skip(s, "binary")
        /\ "binary" \in Reasons /\ excused' = excused \cup {Here}
        /\ UNCHANGED <<kind, walk, disk, touched, inspected>>
    BY <1>1 DEF SkipBinary, Reading, Excuse, Reasons
  <1>3. /\ s \in State /\ s.pos = scan.pos /\ s.seen = scan.seen /\ Within(s) /\ Owed(kind, s)
        /\ (touched = {} => Alarms(s)) /\ (Silent(s) <=> Silent(scan))
    BY <1>1, <1>2, CountedFacts
  <1>4. Here \in Good' /\ Good \subseteq Good'
    BY <1>2 DEF Good
  <1>5. inspected' \subseteq Paths /\ excused' \subseteq Paths
    BY <1>2, ReadingFacts
  <1> QED
    BY <1>2, <1>3, <1>4, <1>5, ReadingFacts, SkipLeaves

LEMMA InspectTextStep ==
    ASSUME ScanInv, InspectText PROVE ScanInv'
  <1>1. PICK s, n : s = Counted /\ n = Kept
    OBVIOUS
  <1>2. PICK t : t = ScannedAndFound(s, n)
    OBVIOUS
  <1>3. /\ scan.pc = "finish" /\ Reading(scan) /\ scan' = AfterMatches(t)
        /\ inspected' = IF disk[Here].matches > n THEN inspected \ {Here} ELSE inspected
        /\ UNCHANGED <<kind, walk, disk, touched, excused>>
    BY <1>1, <1>2 DEF InspectText, Reading, ScannedAndFound
  <1>4. /\ s \in State /\ s.pos = scan.pos /\ s.seen = scan.seen /\ Within(s) /\ Owed(kind, s)
        /\ s.found = scan.found
        /\ (touched = {} => Alarms(s)) /\ (Silent(s) <=> Silent(scan))
    BY <1>1, <1>3, CountedFacts
  <1>5. /\ scan.pos <= Len(walk) /\ inspected \subseteq Paths /\ excused \subseteq Paths
        /\ disk[Here].matches \in Nat /\ scan.found \in Nat /\ MaxFindings \in Nat
        /\ scan.found <= MaxFindings
    BY <1>3, ReadingFacts, WalkFacts, StateFields, LimitsAssumption DEF ScanInv, Within
  <1>6. n \in Nat /\ scan.found + n <= MaxFindings
    <2>1. MaxFindings - scan.found \in Nat
      BY <1>5
    <2>2. n \in {disk[Here].matches, MaxFindings - scan.found} /\ n <= MaxFindings - scan.found
      BY <1>1, <1>5, <2>1, MinOfTwo DEF Kept
    <2> QED
      BY <1>5, <2>1, <2>2
  <1>7. /\ t \in State /\ t.pos = s.pos /\ t.seen = s.seen /\ t.cover = s.cover
        /\ t.failed = s.failed /\ t.bytes = s.bytes /\ SameFile(s, t)
        /\ t.considered = s.considered /\ t.found = s.found + n /\ Settled(kind, t)
    BY <1>2, <1>4, <1>6, ScannedEffect
  <1>8. Within(t)
    BY <1>4, <1>6, <1>7 DEF Within, SameFile
  <1>9. (touched = {} => Alarms(t)) /\ (Silent(t) <=> Silent(scan))
    BY <1>4, <1>7, <1>8, StateFields, AlarmsSame, SilentSame DEF Within
  <1>10. CASE disk[Here].matches > n
    <2>1. PICK u : u = Cover(t, "max_findings", MaxFindings + 1)
      OBVIOUS
    <2>2. scan' = Stop(u) /\ inspected' \subseteq Paths
      BY <1>1, <1>3, <1>5, <1>10, <2>1 DEF AfterMatches
    <2>3. /\ "max_findings" \in Codes /\ MaxFindings + 1 \in Nat
          /\ MaxFindings + 1 > Limit("max_findings")
      BY <1>5 DEF Codes, Limit
    <2>4. /\ u \in State /\ u.pos = t.pos /\ Within(u) /\ ~Silent(u) /\ (touched = {} => Alarms(u))
          /\ Settled(kind, u)
      BY <1>7, <1>8, <1>9, <2>1, <2>3, CoverKeeps, AlarmsCover
    <2> QED
      BY <1>3, <1>4, <1>7, <2>2, <2>4, StopEnds
  <1>11. CASE ~(disk[Here].matches > n)
    <2>1. scan' = Advance(t) /\ inspected' = inspected
      BY <1>1, <1>3, <1>11 DEF AfterMatches
    <2>2. Silent(scan) => Here \in Good
      BY <1>3 DEF ScanInv, Silence
    <2>3. Good' = Good
      BY <1>3, <2>1 DEF Good
    <2> QED
      BY <1>3, <1>4, <1>5, <1>7, <1>8, <1>9, <2>1, <2>2, <2>3, AdvanceLeaves
  <1> QED
    BY <1>10, <1>11

LEMMA TriagedStep ==
    ASSUME ScanInv, Triaged PROVE ScanInv'
  <1>1. PICK s, t : s = Counted /\ t = Scanned(s)
    OBVIOUS
  <1>2. /\ scan.pc = "finish" /\ Reading(scan)
        /\ scan' = IF SizeChanged THEN Exceeded(s) ELSE Advance(t)
        /\ UNCHANGED <<kind, walk, disk, touched, inspected, excused>>
    BY <1>1 DEF Triaged, Reading, Scanned
  <1>3. CASE SizeChanged
    <2>1. touched # {}
      BY <1>2, <1>3 DEF SizeChanged, ScanInv, Untouched
    <2> QED
      BY <1>1, <1>2, <1>3, <2>1, ExceededEnds
  <1>4. CASE ~SizeChanged
    <2>1. /\ s \in State /\ s.pos = scan.pos /\ s.seen = scan.seen /\ Within(s) /\ Owed(kind, s)
          /\ (touched = {} => Alarms(s)) /\ (Silent(s) <=> Silent(scan))
      BY <1>1, <1>2, CountedFacts
    <2>2. /\ t \in State /\ t.pos = s.pos /\ t.seen = s.seen /\ t.cover = s.cover
          /\ t.failed = s.failed /\ t.bytes = s.bytes /\ SameFile(s, t)
          /\ t.considered = s.considered /\ t.found = s.found /\ Settled(kind, t)
      BY <1>1, <2>1, ScannedOnlyEffect
    <2>3. Within(t)
      BY <2>1, <2>2 DEF Within, SameFile
    <2>4. (touched = {} => Alarms(t)) /\ (Silent(t) <=> Silent(scan))
      BY <2>1, <2>2, <2>3, StateFields, AlarmsSame, SilentSame DEF Within
    <2>5. Silent(scan) => Here \in Good
      BY <1>2 DEF ScanInv, Silence
    <2>6. Good' = Good
      BY <1>2 DEF Good
    <2> QED
      BY <1>2, <1>4, <2>1, <2>2, <2>3, <2>4, <2>5, <2>6, ReadingFacts, AdvanceLeaves
  <1> QED
    BY <1>3, <1>4
LEMMA DoneStep ==
    ASSUME ScanInv, Done PROVE ScanInv'
  <1>1. /\ scan.pc = "next" /\ scan.pos > Len(walk) /\ scan' = Stop(scan) /\ ~Reading(scan)
        /\ UNCHANGED <<kind, walk, disk, touched, inspected, excused>>
    BY DEF Done, Reading
  <1>2. scan \in State /\ Accounted(kind, scan) \in Nat
    BY AccountedNat DEF ScanInv, ScanTypes
  <1>3. /\ Within(scan) /\ Settled(kind, scan) /\ (touched = {} => Alarms(scan))
        /\ inspected \subseteq Paths
    BY <1>1, <1>2 DEF ScanInv, ScanTypes, Budgets, Books, Settled, Untouched
  <1>4. Good' = Good
    BY <1>1 DEF Good
  <1> QED
    BY <1>1, <1>2, <1>3, <1>4, StopEnds

LEMMA CancelStep ==
    ASSUME ScanInv, Cancel PROVE ScanInv'
  <1>1. PICK s : s = IF scan.pc \in {"read", "finish"} THEN Counted ELSE scan
    OBVIOUS
  <1>2. /\ scan' = Abort(s)
        /\ UNCHANGED <<kind, walk, disk, touched, inspected, excused>>
    BY <1>1 DEF Cancel
  <1>3. s \in State /\ s.pos = scan.pos /\ Within(s) /\ (touched = {} => Alarms(s))
    <2>1. CASE scan.pc \in {"read", "finish"}
      BY <1>1, <2>1, CountedFacts
    <2>2. CASE scan.pc \notin {"read", "finish"}
      BY <1>1, <2>2 DEF ScanInv, ScanTypes, Budgets, Untouched
    <2> QED
      BY <2>1, <2>2
  <1>4. excused' \subseteq Paths
    BY <1>2 DEF ScanInv, ScanTypes
  <1> QED
    BY <1>2, <1>3, <1>4, AbortEnds

-----------------------------------------------------------------------------
(***************************************************************************)
(* Other processes: what the open handle sees may change, nothing else     *)
(***************************************************************************)
LEMMA OthersKeep ==
    ASSUME ScanInv, NEW n \in Nat, NEW t, t = [scan EXCEPT !.handle = n],
           scan' = scan \/ scan' = t, disk' \in [Paths -> File],
           NEW p \in Paths, \A q \in Paths \ {p} : disk'[q] = disk[q],
           touched' = touched \cup {p}, UNCHANGED <<kind, walk, inspected, excused>>
    PROVE  ScanInv'
  <1>1. scan \in State
    BY DEF ScanInv, ScanTypes
  <1>2. PICK u : u = scan'
    OBVIOUS
  <1>3. /\ u \in State /\ u.pc = scan.pc /\ u.pos = scan.pos /\ SameCounts(scan, u)
        /\ u.skipped = scan.skipped /\ u.bytes = scan.bytes /\ u.cover = scan.cover
        /\ u.failed = scan.failed /\ u.limit = scan.limit /\ u.total = scan.total
    <2>1. CASE u = scan
      BY <1>1, <2>1 DEF SameCounts
    <2>2. CASE u = t
      BY <1>1, <2>2 DEF State, SameCounts
    <2> QED
      BY <1>2, <2>1, <2>2
  <1>4. Reading(u) <=> Reading(scan)
    BY <1>3 DEF Reading
  <1>5. ScanTypes'
    <2>1. touched' \subseteq Paths
      BY DEF ScanInv, ScanTypes
    <2> QED
      BY <1>2, <1>3, <1>4, <2>1 DEF ScanInv, ScanTypes
  <1>6. Budgets(u)
    BY <1>3, <1>4 DEF ScanInv, Budgets, Within, SameCounts
  <1>7. Books(kind, u)
    <2>1. Accounted(kind, u) = Accounted(kind, scan)
      BY <1>1, <1>3, AccountedSame DEF SameCounts
    <2> QED
      BY <1>3, <1>4, <2>1 DEF ScanInv, Books, SameCounts
  <1>8. Silence'
    <2>1. Here' = Here /\ Good' = Good /\ (Silent(u) <=> Silent(scan))
      BY <1>2, <1>3, SilentSame DEF Here, Good
    <2> QED
      BY <1>2, <1>3, <1>4, <2>1 DEF ScanInv, Silence, SameCounts
  <1>9. Untouched'
    BY DEF Untouched
  <1>10. Regular'
    <2>1. Here' = Here /\ scan'.pc = scan.pc
      BY <1>2, <1>3 DEF Here
    <2>2. scan.pc = "open" => Here \in Paths
      BY ReadingFacts DEF Reading
    <2>3. scan.pc = "open" /\ Here \notin touched' => disk'[Here] = disk[Here]
      BY <2>2
    <2>4. /\ scan.pc = "open" /\ Here \notin touched => disk[Here].type = "regular"
          /\ scan.pc = "blocked" => Here \in touched
      BY DEF ScanInv, Regular
    <2> HIDE DEF Here
    <2> QED
      BY <2>1, <2>3, <2>4 DEF Regular
  <1> QED
    BY <1>2, <1>5, <1>6, <1>7, <1>8, <1>9, <1>10 DEF ScanInv

LEMMA OthersStep ==
    ASSUME ScanInv, Others PROVE ScanInv'
  <1>1. disk \in [Paths -> File] /\ \A p \in Paths : disk[p] \in File
    BY DEF ScanInv, ScanTypes
  <1>2. scan.handle \in Nat
    BY StateFields DEF ScanInv, ScanTypes
  <1>3. ASSUME NEW p \in Paths, NEW f \in File, disk' = [disk EXCEPT ![p] = f], Change(p),
               UNCHANGED <<kind, walk, inspected, excused>>,
               scan' = scan \/ \E n \in Nat : scan' = [scan EXCEPT !.handle = n]
        PROVE  ScanInv'
    <2>1. /\ disk' \in [Paths -> File] /\ \A q \in Paths \ {p} : disk'[q] = disk[q]
          /\ touched' = touched \cup {p}
      BY <1>1, <1>3 DEF Change
    <2>2. CASE scan' = scan
      BY <1>2, <1>3, <2>1, <2>2, OthersKeep
    <2>3. CASE \E n \in Nat : scan' = [scan EXCEPT !.handle = n]
      BY <1>3, <2>1, <2>3, OthersKeep
    <2> QED
      BY <1>3, <2>2, <2>3
  <1>4. ASSUME NEW p \in Paths, Remove(p) PROVE ScanInv'
    <2>1. [disk[p] EXCEPT !.type = "missing"] \in File
      BY <1>1 DEF File, Types
    <2>2. disk' = [disk EXCEPT ![p] = [disk[p] EXCEPT !.type = "missing"]]
      BY <1>1, <1>4 DEF Remove
    <2> QED
      BY <1>3, <1>4, <2>1, <2>2 DEF Remove
  <1>5. ASSUME NEW p \in Paths, NEW n \in Sizes, Resize(p, n) PROVE ScanInv'
    <2>1. [disk[p] EXCEPT !.size = n] \in File /\ n \in Nat
      BY <1>1, LimitsAssumption DEF File
    <2>2. disk' = [disk EXCEPT ![p] = [disk[p] EXCEPT !.size = n]]
      BY <1>1, <1>5 DEF Resize
    <2> QED
      BY <1>3, <1>5, <2>1, <2>2 DEF Resize
  <1>6. ASSUME NEW p \in Paths, Chmod(p) PROVE ScanInv'
    <2>1. [disk[p] EXCEPT !.usable = ~@] \in File
      BY <1>1 DEF File
    <2>2. disk' = [disk EXCEPT ![p] = [disk[p] EXCEPT !.usable = ~@]]
      BY <1>1, <1>6 DEF Chmod
    <2> QED
      BY <1>3, <1>6, <2>1, <2>2 DEF Chmod
  <1>7. ASSUME NEW p \in Paths, NEW type \in Types, NEW i \in 0..1, Replace(p, type, i)
        PROVE  ScanInv'
    <2> DEFINE f == [disk[p] EXCEPT !.type = type]
               g == [f EXCEPT !.inode = i]
    <2>1. f \in File
      BY <1>1 DEF File
    <2>2. disk' = [disk EXCEPT ![p] = g]
      BY <1>1, <1>7 DEF Replace
    <2> HIDE DEF f
    <2>3. g \in File
      BY <2>1 DEF File
    <2> HIDE DEF g
    <2> QED
      BY <1>3, <1>7, <2>2, <2>3 DEF Replace
  <1> QED
    BY <1>4, <1>5, <1>6, <1>7 DEF Others

-----------------------------------------------------------------------------
(***************************************************************************)
(* Theorems                                                                *)
(***************************************************************************)
LEMMA ScanInit == Init => ScanInv
  <1> SUFFICES ASSUME Init PROVE ScanInv
    OBVIOUS
  <1>1. /\ scan = Start /\ kind \in {"secret", "executable"} /\ walk \in Walks
        /\ disk \in [Paths -> File] /\ touched = {} /\ inspected = {} /\ excused = {}
    BY DEF Init
  <1>2. /\ scan \in State /\ scan.pc = "next" /\ scan.pos = 1 /\ scan.seen = {}
        /\ scan.bytes = 0 /\ scan.total = 0 /\ scan.considered = 0 /\ scan.found = 0
        /\ scan.scanned = 0
    BY <1>1 DEF Start, State
  <1>3. /\ \A r \in Reasons : scan.skipped[r] = 0
        /\ \A c \in Codes : scan.cover[c].count = 0
    BY <1>1 DEF Start
  <1>4. ~Reading(scan)
    BY <1>2 DEF Reading
  <1>5. ScanTypes
    <2>1. Len(walk) \in Nat
      BY <1>1, WalkAssumption
    <2> QED
      BY <1>1, <1>2, <1>4, <2>1, LimitsAssumption DEF ScanTypes
  <1>6. Budgets(scan)
    BY <1>2, <1>4, LimitsAssumption DEF Budgets, Within
  <1>7. Books(kind, scan)
    BY <1>2, <1>3, <1>4 DEF Books, Accounted, Reasons, Codes
  <1>8. Silence
    BY <1>2, <1>4 DEF Silence
  <1>9. Regular /\ Untouched
    BY <1>2, <1>3 DEF Regular, Untouched, Alarms
  <1> QED
    BY <1>5, <1>6, <1>7, <1>8, <1>9 DEF ScanInv

LEMMA ScanNext == ASSUME ScanInv, [Next]_vars PROVE ScanInv'
  <1>1. CASE Scanning
    BY <1>1, TooDeepStep, SkipLinkStep, SeenBeforeStep, FileLimitStep, MissingStep, SkipTypeStep,
       OversizeStep, OverBudgetStep, AdmitStep, OpenFailsStep, OpenBlocksStep, DisregardStep, OpenStep,
       ReadChunkStep, LimitReachedStep, EndOfFileStep, SkipBinaryStep, InspectTextStep,
       TriagedStep, DoneStep DEF Scanning
  <1>2. CASE Cancel \/ Unblocked
    BY <1>2, CancelStep, DisregardStep
  <1>3. CASE Others
    BY <1>3, OthersStep
  <1>4. CASE UNCHANGED vars
    BY <1>4 DEF vars, ScanInv, ScanTypes, Budgets, Within, Books, Accounted, Reading, Silence,
       Silent, Good, Here, Regular, Untouched, Alarms
  <1> QED
    BY <1>1, <1>2, <1>3, <1>4 DEF Next

\* The invariant holds in every state of a scan, whatever others do to the files.
THEOREM ScanInvariance == Spec => []ScanInv
  BY ScanInit, ScanNext, PTL DEF Spec

\* The scanner's state and the files keep their types.
THEOREM ScanTypeCorrect == Spec => []TypeOK
  <1>1. ScanInv => TypeOK
    <2> SUFFICES ASSUME ScanInv PROVE scan \in Scan
      BY DEF TypeOK, ScanInv, ScanTypes
    <2>1. scan \in State /\ scan.pos \in 1..(Len(walk) + 1) /\ scan.considered \in 0..MaxFiles
      BY LimitsAssumption, StateFields DEF ScanInv, ScanTypes, Budgets, Within
    <2> QED
      BY <2>1 DEF State, Scan
  <1> QED
    BY <1>1, ScanInvariance, PTL

\* No scan reads more bytes, considers more files or keeps more findings than its
\* options allow, although files grow while readRegularFileBounded and
\* hashExecutableBounded read them.
THEOREM LimitsAlwaysHold == Spec => []BudgetsHold
  <1>1. ScanInv => BudgetsHold
    <2> SUFFICES ASSUME ScanInv PROVE BudgetsHold
      OBVIOUS
    <2>1. /\ scan.bytes \in Nat /\ scan.total \in Nat /\ scan.limit \in Nat
          /\ MaxTotalBytes \in Nat
      BY StateFields, LimitsAssumption DEF ScanInv, ScanTypes
    <2> QED
      BY <2>1 DEF ScanInv, Budgets, Within, Reading, BudgetsHold
  <1> QED
    BY <1>1, ScanInvariance, PTL

\* A scan that ends with neither an error nor a coverage finding has looked at
\* every file of its walk.
THEOREM NoSilentGaps == Spec => []SilenceMeansInspected
  <1>1. ScanInv => SilenceMeansInspected
    <2> SUFFICES ASSUME ScanInv, Ended, ~Covered, NEW i \in DOMAIN walk
                 PROVE  walk[i].path \in inspected \cup excused
      BY DEF SilenceMeansInspected
    <2>1. Silent(scan)
      BY StateFields DEF Ended, Covered, Silent, ScanInv, ScanTypes
    <2>2. i \in 1..Len(walk) /\ Len(walk) \in Nat
      BY WalkAssumption DEF ScanInv, ScanTypes
    <2>3. scan.pos > Len(walk) /\ scan.pos \in Nat
      BY <2>1, StateFields DEF ScanInv, ScanTypes, Silence, Ended
    <2>4. i < scan.pos
      BY <2>2, <2>3
    <2> QED
      BY <2>1, <2>2, <2>4 DEF ScanInv, Silence, Good
  <1> QED
    BY <1>1, ScanInvariance, PTL

\* The statistics of a scan that ends account for every file it considered.
THEOREM StatisticsAddUp == Spec => []StatsAddUp
  <1>1. ScanInv => StatsAddUp
    <2> SUFFICES ASSUME ScanInv, Ended PROVE scan.considered = Accounted(kind, scan)
      BY DEF StatsAddUp, Accounted
    <2>1. Accounted(kind, scan) \in Nat
      BY AccountedNat DEF ScanInv, ScanTypes
    <2> QED
      BY <2>1 DEF ScanInv, Books, Reading, Ended
  <1> QED
    BY <1>1, ScanInvariance, PTL

\* os.Open keeps a scan waiting only where somebody put another file between the
\* Lstat and the open of readRegularFileBounded or hashExecutableBounded: the
\* exception of Terminates is the only one.
THEOREM OnlySwappedFilesBlock == Spec => [](scan.pc = "blocked" => Here \in touched)
  <1>1. ScanInv => (scan.pc = "blocked" => Here \in touched)
    BY DEF ScanInv, Regular
  <1> QED
    BY <1>1, ScanInvariance, PTL

\* While nobody touches the files, a coverage finding tells of more than its limit
\* or of a file that came when the total was used up.
THEOREM NoFalseAlarms == Spec => []AlarmsAreReal
  <1>1. ScanInv => AlarmsAreReal
    BY DEF ScanInv, Untouched, Alarms, AlarmsAreReal
  <1> QED
    BY <1>1, ScanInvariance, PTL

-----------------------------------------------------------------------------
(***************************************************************************)
(* Progress: the safety half of Terminates.  Position, stage and bytes of  *)
(* the file grow lexicographically with every step of the scanner and are  *)
(* bounded by the walk and MaxFileBytes, so no scan takes infinitely many  *)
(* steps; what others do to the files never takes it back.                 *)
(***************************************************************************)
Stage(pc) ==
    CASE pc = "next" -> 0 [] pc = "open" -> 1 [] pc = "blocked" -> 2 [] pc = "read" -> 3
      [] pc = "finish" -> 4 [] OTHER -> 5

Ahead(s, t) ==
    \/ t.pos > s.pos
    \/ t.pos = s.pos /\ Stage(t.pc) > Stage(s.pc)
    \/ t.pos = s.pos /\ t.pc = s.pc /\ t.total > s.total

SamePlace(s, t) == t.pos = s.pos /\ t.pc = s.pc /\ t.total = s.total

\* Every step of Scan and Triage gets the scan further, and no change of a file,
\* however it grows, takes it back.
GetsFurther == [][Ahead(scan, scan') \/ (Others /\ SamePlace(scan, scan'))]_vars

LEMMA LeavesAhead ==
    ASSUME scan \in State, NEW s \in State, s.pos = scan.pos,
           scan' = Advance(s) \/ \E why \in Reasons : scan' = Skip(s, why)
    PROVE  Ahead(scan, scan')
  <1>1. scan'.pos = s.pos + 1
    BY AdvanceEffect, SkipEffect
  <1>2. scan.pos \in Nat
    BY StateFields
  <1> QED
    BY <1>1, <1>2 DEF Ahead

LEMMA EndsAhead ==
    ASSUME scan \in State, scan.pc # "done", NEW s \in State, s.pos = scan.pos,
           scan' = Stop(s) \/ scan' = Abort(s)
    PROVE  Ahead(scan, scan')
  <1>1. scan'.pos = scan.pos /\ scan'.pc = "done"
    BY StopEffect, AbortEffect
  <1>2. scan.pc \in {"next", "open", "blocked", "read", "finish"}
    BY DEF State
  <1> QED
    BY <1>1, <1>2 DEF Ahead, Stage

LEMMA EntryAhead ==
    ASSUME ScanInv,
           \/ TooDeep \/ SkipLink \/ SeenBefore \/ FileLimit \/ Missing \/ SkipType \/ Oversize
           \/ OverBudget \/ Admit
    PROVE  Ahead(scan, scan')
  <1>1. /\ AtEntry /\ scan \in State /\ scan.pc = "next" /\ scan.pc # "done"
        /\ kind \in {"secret", "executable"}
    BY AtEntryFacts DEF TooDeep, SkipLink, SeenBefore, FileLimit, Missing, SkipType, Oversize,
       OverBudget, Admit, Wanted, Considering, AtEntry
  <1>2. ASSUME NEW s \in State, s.pos = scan.pos, NEW code \in Codes, NEW n \in Nat
        PROVE  Cover(s, code, n) \in State /\ Cover(s, code, n).pos = scan.pos
    BY <1>2, CoverEffect
  <1>3. /\ {"max_file_bytes", "max_total_bytes", "max_depth", "max_files"} \subseteq Codes
        /\ {"symlink", "other", "missing", "not_executable", "oversize"} \subseteq Reasons
    BY DEF Codes, Reasons
  <1>4. /\ walk[scan.pos].depth \in Nat /\ disk[Here].size \in Nat /\ scan.considered + 1 \in Nat
        /\ scan.bytes + disk[Here].size \in Nat
    BY <1>1, AtEntryFacts, WalkFacts, StateFields DEF ScanInv
  <1>5. Considering => Considered \in State /\ Considered.pos = scan.pos /\ Considered.pc = "next"
    BY ConsideredFacts
  <1>6. CASE TooDeep
    BY <1>1, <1>2, <1>3, <1>4, <1>6, LeavesAhead DEF TooDeep
  <1>7. CASE SkipLink
    BY <1>1, <1>3, <1>7, LeavesAhead DEF SkipLink
  <1>8. CASE SeenBefore
    BY <1>1, <1>8, LeavesAhead DEF SeenBefore
  <1>9. CASE FileLimit
    BY <1>1, <1>2, <1>3, <1>4, <1>9, EndsAhead DEF FileLimit
  <1>10. CASE Missing
    BY <1>1, <1>3, <1>5, <1>10, EndsAhead, LeavesAhead DEF Missing
  <1>11. CASE SkipType
    BY <1>1, <1>3, <1>5, <1>11, LeavesAhead DEF SkipType
  <1>12. CASE Oversize
    BY <1>1, <1>2, <1>3, <1>4, <1>5, <1>12, LeavesAhead DEF Oversize, Wanted
  <1>13. CASE OverBudget
    BY <1>1, <1>2, <1>3, <1>4, <1>5, <1>13, EndsAhead DEF OverBudget, Wanted
  <1>14. CASE Admit
    <2>1. PICK s : s = Considered
      OBVIOUS
    <2>2. s \in State /\ s.pos = scan.pos
      BY <1>5, <1>14, <2>1 DEF Admit, Wanted
    <2>3. scan'.pos = s.pos /\ scan'.pc = "open"
      BY <1>14, <2>1, <2>2 DEF Admit, State
    <2> QED
      BY <1>1, <2>2, <2>3 DEF Ahead, Stage
  <1> QED
    BY <1>6, <1>7, <1>8, <1>9, <1>10, <1>11, <1>12, <1>13, <1>14

LEMMA ExceededAhead ==
    ASSUME ScanInv, scan.pc \in {"read", "finish"}, scan' = Exceeded(Counted)
    PROVE  Ahead(scan, scan')
  <1>1. PICK s : s = Counted
    OBVIOUS
  <1>2. s \in State /\ s.pos = scan.pos /\ scan \in State /\ scan.pc # "done"
    BY <1>1, CountedFacts DEF ScanInv, ScanTypes
  <1>3. /\ s.bytes + 1 \in Nat /\ s.total + 1 \in Nat
        /\ "max_total_bytes" \in Codes /\ "max_file_bytes" \in Codes /\ "oversize" \in Reasons
    BY <1>2, StateFields DEF Codes, Reasons
  <1>4. ASSUME NEW code \in Codes, NEW n \in Nat
        PROVE  Cover(s, code, n) \in State /\ Cover(s, code, n).pos = scan.pos
    BY <1>2, CoverEffect
  <1> QED
    BY <1>1, <1>2, <1>3, <1>4, EndsAhead, LeavesAhead DEF Exceeded

LEMMA FileAhead ==
    ASSUME ScanInv,
           \/ OpenFails \/ OpenBlocks \/ Replaced \/ Unblocked \/ Open \/ ReadChunk
           \/ LimitReached \/ EndOfFile \/ SkipBinary \/ InspectText \/ Triaged
    PROVE  Ahead(scan, scan')
  <1>1. /\ scan.pc \in {"open", "blocked", "read", "finish"} /\ Reading(scan)
    BY DEF OpenFails, OpenBlocks, Replaced, Unblocked, Opens, Open, ReadChunk, LimitReached,
       EndOfFile, SkipBinary, InspectText, Triaged, Reading
  <1>2. /\ scan \in State /\ scan.pos \in Nat /\ Owed(kind, scan)
        /\ kind \in {"secret", "executable"} /\ Here \in Paths
    BY <1>1, ReadingFacts, StateFields
  <1>3. "other" \in Reasons /\ "binary" \in Reasons /\ "max_findings" \in Codes
    BY DEF Reasons, Codes
  <1>4. CASE OpenFails
    BY <1>1, <1>2, <1>4, EndsAhead DEF OpenFails
  <1>5. CASE Replaced \/ Unblocked
    <2>1. Scanned(scan) \in State /\ Scanned(scan).pos = scan.pos
      BY <1>2, ScannedOnlyEffect
    <2> QED
      BY <1>2, <1>3, <1>5, <2>1, LeavesAhead DEF Replaced, Unblocked, Disregard, Scanned
  <1>6. CASE Open \/ OpenBlocks
    <2>1. scan'.pos = scan.pos /\ scan'.pc \in {"blocked", "read"} /\ scan.pc = "open"
      BY <1>2, <1>6 DEF Open, OpenBlocks, Opens, State
    <2> QED
      BY <1>2, <2>1 DEF Ahead, Stage
  <1>7. CASE ReadChunk
    <2>1. PICK m : m = Min({Chunk, scan.limit - scan.total, scan.handle - scan.total})
      OBVIOUS
    <2>2. /\ scan.total \in Nat /\ scan.limit - scan.total \in Nat \ {0}
          /\ scan.handle - scan.total \in Nat \ {0} /\ Chunk \in Nat \ {0}
      BY <1>2, <1>7, StateFields, LimitsAssumption DEF ReadChunk
    <2>3. m \in Nat \ {0}
      <3>1. PICK a, b : a = scan.limit - scan.total /\ b = scan.handle - scan.total
        OBVIOUS
      <3>2. a \in Nat /\ b \in Nat /\ Chunk \in Nat /\ a # 0 /\ b # 0 /\ Chunk # 0
        BY <2>2, <3>1
      <3>3. m = Min({Chunk, a, b})
        BY <2>1, <3>1
      <3>4. m \in {Chunk, a, b}
        BY <3>2, <3>3, MinOfThree
      <3> QED
        BY <3>2, <3>4
    <2>4. PICK n : n = scan.total + m
      OBVIOUS
    <2>5. n \in Nat /\ n > scan.total
      BY <2>2, <2>3, <2>4
    <2>6. scan' = GotTo(scan, n)
      BY <1>7, <2>1, <2>4 DEF ReadChunk, GotTo
    <2>7. scan'.pos = scan.pos /\ scan'.pc = scan.pc /\ scan'.total = n
      BY <1>2, <2>5, <2>6, GotToEffect
    <2> QED
      BY <2>5, <2>7 DEF Ahead
  <1>8. ASSUME scan.pc = "read", scan' = [scan EXCEPT !.pc = "finish"] PROVE Ahead(scan, scan')
    <2>1. scan'.pos = scan.pos /\ scan'.pc = "finish"
      BY <1>2, <1>8 DEF State
    <2> QED
      BY <1>8, <2>1 DEF Ahead, Stage
  <1>9. CASE LimitReached \/ EndOfFile
    BY <1>8, <1>9, ExceededAhead DEF LimitReached, EndOfFile
  <1>10. CASE scan.pc = "finish"
    <2>1. PICK s : s = Counted
      OBVIOUS
    <2>2. s \in State /\ s.pos = scan.pos /\ Owed(kind, s)
      BY <1>10, <2>1, CountedFacts
    <2>3. CASE SkipBinary
      BY <1>2, <1>3, <2>1, <2>2, <2>3, LeavesAhead DEF SkipBinary
    <2>4. CASE InspectText
      <3>1. PICK n, t : n = Kept /\ t = ScannedAndFound(s, n)
        OBVIOUS
      <3>2. n \in Nat
        <4>0. /\ scan.pos <= Len(walk) /\ disk[Here].matches \in Nat /\ scan.found \in Nat
              /\ MaxFindings \in Nat /\ scan.found <= MaxFindings
          BY <1>1, ReadingFacts, WalkFacts, StateFields, LimitsAssumption DEF ScanInv, Within
        <4>1. /\ disk[Here].matches \in Nat /\ MaxFindings - scan.found \in Nat
          BY <4>0
        <4> QED
          BY <3>1, <4>1, MinOfTwo DEF Kept
      <3>3. t \in State /\ t.pos = scan.pos
        BY <2>2, <3>1, <3>2, ScannedEffect
      <3>4. scan' = AfterMatches(t)
        BY <2>1, <2>4, <3>1 DEF InspectText, ScannedAndFound
      <3>5. MaxFindings + 1 \in Nat
        BY LimitsAssumption
      <3>6. Cover(t, "max_findings", MaxFindings + 1) \in State
            /\ Cover(t, "max_findings", MaxFindings + 1).pos = scan.pos
        BY <1>3, <3>3, <3>5, CoverEffect
      <3> QED
        BY <1>2, <1>10, <3>3, <3>4, <3>6, EndsAhead, LeavesAhead DEF AfterMatches
    <2>5. CASE Triaged
      <3>1. Scanned(s) \in State /\ Scanned(s).pos = scan.pos
        BY <2>2, ScannedOnlyEffect
      <3> QED
        BY <1>2, <1>10, <2>1, <2>5, <3>1, ExceededAhead, LeavesAhead DEF Triaged, Scanned
    <2>6. SkipBinary \/ InspectText \/ Triaged
      BY <1>10 DEF OpenFails, OpenBlocks, Replaced, Unblocked, Opens, Open, ReadChunk,
         LimitReached, EndOfFile
    <2> QED
      BY <2>3, <2>4, <2>5, <2>6
  <1> QED
    BY <1>4, <1>5, <1>6, <1>7, <1>9, <1>10 DEF SkipBinary, InspectText, Triaged

\* Whatever other processes do to the files, each step of a scan is one of at most
\* (Len(walk) + 1) * (MaxFileBytes + 6) that it can take.
THEOREM ScansGetFurther == Spec => GetsFurther
  <1>1. ASSUME ScanInv, [Next]_vars
        PROVE  [Ahead(scan, scan') \/ (Others /\ SamePlace(scan, scan'))]_vars
    <2>0. scan \in State
      BY <1>1 DEF ScanInv, ScanTypes
    <2>1. CASE Done
      BY <2>0, <2>1, EndsAhead DEF Done
    <2>2. CASE Cancel
      <3>1. PICK s : s = IF scan.pc \in {"read", "finish"} THEN Counted ELSE scan
        OBVIOUS
      <3>2. s \in State /\ s.pos = scan.pos
        BY <1>1, <2>0, <3>1, CountedFacts
      <3> QED
        BY <2>0, <2>2, <3>1, <3>2, EndsAhead DEF Cancel
    <2>3. CASE Others
      BY <2>0, <2>3 DEF Others, Remove, Chmod, Resize, Replace, SamePlace, State
    <2> QED
      BY <1>1, <2>1, <2>2, <2>3, EntryAhead, FileAhead DEF Next, Scanning
  <1> QED
    BY <1>1, ScanInvariance, PTL DEF Spec, GetsFurther

=============================================================================
