--------------------------- MODULE FindingJournal ---------------------------
(***************************************************************************)
(* The local journal of internal/journal/sqlite.go: an append-only table   *)
(* of events and the current_findings projection, shared through SQLite by *)
(* every process that opened journal.db.                                   *)
(*                                                                         *)
(* One transaction is several steps, because several processes run them at *)
(* the same time.  A deferred transaction reads at a snapshot; its first   *)
(* write takes the database write lock and fails when another process      *)
(* committed after the snapshot.  Append reads first (the event_id         *)
(* lookup), RebuildFindings writes first (the DELETE) and keeps the write  *)
(* lock while it replays.                                                  *)
(***************************************************************************)
EXTENDS FindingLifecycle, Sequences

CONSTANTS
    Procs,    \* processes that have the journal open
    NoProc,   \* nobody holds the write lock across steps
    Events,   \* the envelopes callers may submit
    NoEvent

ASSUME EventsAssumption == Events \subseteq Envelope
ASSUME NoEventAssumption == NoEvent \notin Events
ASSUME NoProcAssumption == NoProc \notin Procs

VARIABLES
    log,        \* committed rows of events; a row's sequence is its index
    findings,   \* committed rows of current_findings
    appending,  \* appending[p]: the envelope p's open Append is about
    base,       \* base[p]: number of rows in the snapshot p's Append read
    stale,      \* stale[p]: somebody committed after that snapshot
    rebuilder,  \* the process whose RebuildFindings holds the write lock
    cursor,     \* rows the rebuild has gone through
    shadow,     \* the projection inside the rebuild's transaction
    acked,      \* records returned to callers of Append, as <<sequence, event>>
    hist        \* auxiliary: hist[k] is what readers saw after k rows

vars == <<log, findings, appending, base, stale, rebuilder, cursor, shadow, acked, hist>>

\* What callers may rely on: the journal in which every Append is one step.
Atomic == INSTANCE AtomicJournal

-----------------------------------------------------------------------------
(***************************************************************************)
(* Append                                                                  *)
(***************************************************************************)
Idle(p) == appending[p] = NoEvent /\ rebuilder # p

\* Variant: looks for the whole envelope instead of its id.
ExistingEnvelope(p) == {k \in 1..base[p] : log[k] = appending[p]}

\* The row of the snapshot of p that has the event id p wants to append.
Existing(p) == {k \in 1..base[p] : log[k].id = appending[p].id}

\* Variant: compares the ids alone.
SameID(a, b) == a.id = b.id

\* appendEvent compares the marshalled envelopes.
SameEnvelope(a, b) == a = b

\* Variant: every insert is admitted.
AdmitsUnchecked(e) == TRUE

\* The projection accepts the event, so that the transaction may commit.
Admits(e) == Projectable(findings, e)

\* Variant: keeps only the newest row of a finding.
InsertCompacted(e) == Append(SelectSeq(log, LAMBDA r : r.fid # e.fid), e)

Insert(e) == Append(log, e)

EndAppend(p) ==
    /\ appending' = [appending EXCEPT ![p] = NoEvent]
    /\ base' = [base EXCEPT ![p] = 0]

\* A commit by p makes the snapshot of every other open Append old.
Publish(p) == stale' = [q \in Procs |-> q # p /\ appending[q] # NoEvent]

\* Append up to the event_id lookup, which fixes the snapshot.  A lifecycle
\* event without a finding id is refused before the transaction begins.
BeginAppend(p, e) ==
    /\ Idle(p)
    /\ IsFindingLifecycle(e) => e.fid # NoFinding
    /\ appending' = [appending EXCEPT ![p] = e]
    /\ base' = [base EXCEPT ![p] = Len(log)]
    /\ stale' = [stale EXCEPT ![p] = FALSE]
    /\ UNCHANGED <<log, findings, rebuilder, cursor, shadow, acked, hist>>

\* The same envelope is already stored: report the sequence of that row.
AppendDuplicate(p) ==
    /\ appending[p] # NoEvent
    /\ \E k \in Existing(p) :
          /\ SameEnvelope(log[k], appending[p])
          /\ acked' = acked \cup {<<k, appending[p]>>}
    /\ EndAppend(p)
    /\ stale' = [stale EXCEPT ![p] = FALSE]
    /\ UNCHANGED <<log, findings, rebuilder, cursor, shadow, hist>>

\* The transaction is rolled back: ErrEventIDConflict for an id stored with
\* another envelope, a projection error, or SQLITE_BUSY at the first write.
AppendFails(p) ==
    /\ appending[p] # NoEvent
    /\ \/ \E k \in Existing(p) : ~SameEnvelope(log[k], appending[p])
       \/ /\ Existing(p) = {}
          /\ \/ stale[p]
             \/ rebuilder # NoProc
             \/ ~Admits(appending[p])
    /\ EndAppend(p)
    /\ stale' = [stale EXCEPT ![p] = FALSE]
    /\ UNCHANGED <<log, findings, rebuilder, cursor, shadow, acked, hist>>

\* INSERT, projectFinding and COMMIT under the write lock.
AppendCommit(p) ==
    LET e == appending[p]
        seq == Len(log) + 1
    IN  /\ e # NoEvent
        /\ Existing(p) = {}
        /\ ~stale[p]
        /\ rebuilder = NoProc
        /\ Admits(e)
        /\ log' = Insert(e)
        /\ findings' = Project(findings, seq, e)
        /\ acked' = acked \cup {<<seq, e>>}
        /\ hist' = [k \in 0..seq |-> IF k = seq THEN findings' ELSE hist[k]]
        /\ EndAppend(p)
        /\ Publish(p)
        /\ UNCHANGED <<rebuilder, cursor, shadow>>

-----------------------------------------------------------------------------
(***************************************************************************)
(* RebuildFindings                                                         *)
(***************************************************************************)
\* BEGIN and the DELETE, which takes the write lock.
BeginRebuild(p) ==
    /\ Idle(p)
    /\ rebuilder = NoProc
    /\ rebuilder' = p
    /\ cursor' = 0
    /\ shadow' = EmptyView
    /\ UNCHANGED <<log, findings, appending, base, stale, acked, hist>>

\* Variant: the rebuild leaves out every second row.
ReplayNextSkipping(p) ==
    LET e == log[cursor + 1]
    IN  /\ rebuilder = p
        /\ cursor < Len(log)
        /\ Projectable(shadow, e)
        /\ shadow' = Project(shadow, cursor + 1, e)
        /\ cursor' = cursor + 2
        /\ UNCHANGED <<log, findings, appending, base, stale, rebuilder, acked, hist>>

\* One row in sequence order.  Rows whose type does not match 'finding.%' are
\* not selected; projectFinding refuses a foreign type.
ReplayNext(p) ==
    LET e == log[cursor + 1]
    IN  /\ rebuilder = p
        /\ cursor < Len(log)
        /\ e.type # "foreign"
        /\ Projectable(shadow, e)
        /\ shadow' = Project(shadow, cursor + 1, e)
        /\ cursor' = cursor + 1
        /\ UNCHANGED <<log, findings, appending, base, stale, rebuilder, acked, hist>>

ReplayStuck == \/ log[cursor + 1].type = "foreign"
               \/ ~Projectable(shadow, log[cursor + 1])

EndRebuild ==
    /\ rebuilder' = NoProc
    /\ cursor' = 0
    /\ shadow' = EmptyView

RebuildFails(p) ==
    /\ rebuilder = p
    /\ cursor < Len(log)
    /\ ReplayStuck
    /\ EndRebuild
    /\ UNCHANGED <<log, findings, appending, base, stale, acked, hist>>

\* Variant: stops before the last row.
ReplayedAllButLast == cursor + 1 >= Len(log)

ReplayedAll == cursor = Len(log)

RebuildCommit(p) ==
    /\ rebuilder = p
    /\ ReplayedAll
    /\ findings' = shadow
    /\ EndRebuild
    /\ Publish(p)
    /\ UNCHANGED <<log, appending, base, acked, hist>>

\* The process dies or its context is cancelled: SQLite rolls back what it
\* had open.  The answer to a committed Append may be lost with it, which is
\* why callers submit the same envelope again.
Abort(p) ==
    /\ ~Idle(p)
    /\ IF rebuilder = p
       THEN EndRebuild /\ UNCHANGED <<appending, base, stale>>
       ELSE /\ EndAppend(p)
            /\ stale' = [stale EXCEPT ![p] = FALSE]
            /\ UNCHANGED <<rebuilder, cursor, shadow>>
    /\ UNCHANGED <<log, findings, acked, hist>>

-----------------------------------------------------------------------------
Init ==
    /\ log = << >>
    /\ findings = EmptyView
    /\ appending = [p \in Procs |-> NoEvent]
    /\ base = [p \in Procs |-> 0]
    /\ stale = [p \in Procs |-> FALSE]
    /\ rebuilder = NoProc
    /\ cursor = 0
    /\ shadow = EmptyView
    /\ acked = {}
    /\ hist = [k \in 0..0 |-> EmptyView]

Next ==
    \E p \in Procs :
        \/ \E e \in Events : BeginAppend(p, e)
        \/ AppendDuplicate(p)
        \/ AppendFails(p)
        \/ AppendCommit(p)
        \/ BeginRebuild(p)
        \/ ReplayNext(p)
        \/ RebuildFails(p)
        \/ RebuildCommit(p)
        \/ Abort(p)

Spec == Init /\ [][Next]_vars

-----------------------------------------------------------------------------
\* The types of the journal's state; in particular the rebuild never runs
\* past the last row.
TypeOK ==
    /\ log \in Seq(Events)
    /\ findings \in Views
    /\ appending \in [Procs -> Events \cup {NoEvent}]
    /\ base \in [Procs -> Nat]
    /\ \A p \in Procs : base[p] <= Len(log)
    /\ stale \in [Procs -> BOOLEAN]
    /\ rebuilder \in Procs \cup {NoProc}
    /\ cursor \in 0..Len(log)
    /\ shadow \in Views
    /\ acked \subseteq (Nat \X Events)
    /\ hist \in [0..Len(log) -> Views]

\* An event id names one envelope for ever: two rows never share an id, although
\* the lookup that prevents it (appendEvent) and the INSERT are separate
\* statements and another process may commit between them.
EventIDsUnique ==
    \A j, k \in 1..Len(log) : log[j].id = log[k].id => j = k

\* Every record Append returned, first or repeated, is the stored row with that
\* sequence: a caller that retries after a lost answer gets the original row.
AckedDurable ==
    \A a \in acked : a[1] \in 1..Len(log) /\ log[a[1]] = a[2]

\* Rows are never changed or removed (the events_reject_* triggers), by no
\* interleaving of appends, rebuilds and aborted transactions.
LogAppendOnly ==
    [][/\ Len(log') >= Len(log)
       /\ \A k \in 1..Len(log) : log'[k] = log[k]]_vars

\* Rebuilding is invisible: the projection readers see changes only together
\* with the log, so deleting and replaying current_findings reproduces it.
RebuildInvisible ==
    [][findings' # findings => log' # log]_vars

\* Linearizability of the journal: snapshots, write locks, refused and aborted
\* transactions and rebuilds are invisible.  Every interleaving of any processes
\* looks like Appends that happen one at a time, each looking its id up,
\* inserting, projecting and answering at once.
ImplementsAtomicJournal == Atomic!Spec

\* No lifecycle row is refused by a replay: each was projectable when it was
\* appended, and the replay meets it in the state the append met it in.
ReplayAccepts ==
    rebuilder # NoProc /\ cursor < Len(log) => Projectable(shadow, log[cursor + 1])

\* The fields of a finding agree with its state: a resolution exactly while
\* resolved, an expiry only while suppressed, an acknowledgement whenever
\* acknowledged, and no row without an observation.
LifecycleConsistent ==
    \A f \in FindingIDs :
        LET d == findings[f]
        IN  /\ d.resolution # 0 <=> d.state = "resolved"
            /\ d.suppressedUntil # 0 => d.state = "suppressed"
            /\ d.state = "acknowledged" => d.ack # 0
            /\ d.state = "absent" <=> d.occurrences = 0
            /\ d.firstSeen <= d.lastSeen

RowsAbout(f) == {k \in 1..Len(log) : IsFindingLifecycle(log[k]) /\ log[k].fid = f}
Sightings(f) == {k \in RowsAbout(f) : log[k].type = "observed"}

\* A finding's row summarises exactly its own rows of the log, whatever order
\* they were recorded in: first_seen and last_seen are the extremes of the
\* observations, the severity is that of the newest observation row, and
\* last_event_sequence is the newest row about it.
ProjectionSummarisesLog ==
    \A f \in FindingIDs :
        LET d == findings[f]
        IN  IF RowsAbout(f) = {}
            THEN d = Absent
            ELSE /\ d.lastSeq \in RowsAbout(f)
                 /\ \A k \in RowsAbout(f) : k <= d.lastSeq /\ log[k].recordedAt <= d.updatedAt
                 /\ \A k \in Sightings(f) : log[k].occurredAt \in d.firstSeen..d.lastSeen
                 /\ \E j, k \in Sightings(f) :
                        log[j].occurredAt = d.firstSeen /\ log[k].occurredAt = d.lastSeen
                 /\ \E k \in Sightings(f) :
                        /\ \A j \in Sightings(f) : j <= k
                        /\ d.severity = log[k].severity

=============================================================================
