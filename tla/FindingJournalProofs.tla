------------------------ MODULE FindingJournalProofs ------------------------
(***************************************************************************)
(* Proofs about FindingJournal, for every set of processes, findings and   *)
(* envelopes.                                                              *)
(***************************************************************************)
EXTENDS FindingJournal, TLAPS

USE EventsAssumption, NoFindingAssumption, NoEventAssumption, NoProcAssumption, SeveritiesAssumption

\* The projection of a row that is applied stays a well-formed finding.
LEMMA ApplyEventType ==
    ASSUME NEW f \in Finding, NEW seq \in Nat, NEW e \in Events
    PROVE  ApplyEvent(f, seq, e) \in Finding
<1>1. e \in Envelope
  BY DEF Envelope
<1>2. NewFinding(seq, e) \in Finding
  BY <1>1 DEF NewFinding, Finding, Envelope
<1>3. ASSUME NEW g \in Finding PROVE Advance(g, seq, e) \in Finding
  BY <1>1, <1>3 DEF Advance, Later, Finding, Envelope
<1>4. ObserveExisting(f, seq, e) \in Finding
  <2> DEFINE seen == [f EXCEPT !.severity    = e.severity,
                               !.occurrences = @ + 1,
                               !.firstSeen   = Earlier(@, e.occurredAt),
                               !.lastSeen    = Later(@, e.occurredAt)]
             live == IF seen.state = "resolved" THEN Reopen(seen) ELSE seen
             out  == IF SuppressionExpired(live, e)
                     THEN [live EXCEPT !.state = "open", !.suppressedUntil = 0]
                     ELSE live
  <2>1. seen \in Finding
    <3>1. /\ e.severity \in Severities
          /\ Earlier(f.firstSeen, e.occurredAt) \in Nat
          /\ Later(f.lastSeen, e.occurredAt) \in Nat
          /\ f.occurrences + 1 \in Nat
      BY <1>1 DEF Finding, Envelope, Earlier, Later
    <3> QED BY <3>1 DEF Finding
  <2>2. live \in Finding
    <3> HIDE DEF seen
    <3> QED BY <2>1 DEF Finding, Reopen
  <2>3. out \in Finding
    <3> HIDE DEF live
    <3> QED BY <2>2 DEF Finding
  <2>4. ObserveExisting(f, seq, e) = Advance(out, seq, e)
    BY DEF ObserveExisting
  <2> QED
    <3> HIDE DEF out
    <3> QED BY <2>3, <2>4, <1>3
<1>5. ApplyObservation(f, seq, e) \in Finding
  BY <1>2, <1>4 DEF ApplyObservation
<1>6. /\ [f EXCEPT !.state = "acknowledged", !.ack = e.recordedAt,
                   !.resolution = 0, !.suppressedUntil = 0] \in Finding
      /\ [f EXCEPT !.state = "suppressed", !.suppressedUntil = e.until,
                   !.resolution = 0] \in Finding
      /\ [f EXCEPT !.state = "open", !.suppressedUntil = 0] \in Finding
      /\ [f EXCEPT !.state = "resolved", !.resolution = e.recordedAt,
                   !.suppressedUntil = 0] \in Finding
  BY <1>1 DEF Finding, Envelope
<1> QED
  BY <1>3, <1>5, <1>6 DEF ApplyEvent

\* Projecting a row of the log keeps a view a view.
LEMMA ProjectType ==
    ASSUME NEW view \in Views, NEW seq \in Nat, NEW e \in Events,
           IsFindingLifecycle(e) => e.fid # NoFinding
    PROVE  Project(view, seq, e) \in Views
<1>1. CASE IsFindingLifecycle(e)
  <2>1. e.fid \in FindingIDs
    BY <1>1 DEF Envelope
  <2>2. ApplyEvent(view[e.fid], seq, e) \in Finding
    BY <2>1, ApplyEventType DEF Views
  <2> QED
    BY <1>1, <2>1, <2>2 DEF Project, Views
<1>2. CASE ~IsFindingLifecycle(e)
  BY <1>2 DEF Project
<1> QED
  BY <1>1, <1>2

LEMMA EmptyViewType == EmptyView \in Views
  BY DEF EmptyView, Views, Absent, Finding

\* Rows, and the envelopes on their way into the log, name a finding when
\* they are lifecycle events: Append refuses the others before it begins.
Named ==
    /\ \A k \in 1..Len(log) : IsFindingLifecycle(log[k]) => log[k].fid # NoFinding
    /\ \A p \in Procs : appending[p] # NoEvent /\ IsFindingLifecycle(appending[p])
                           => appending[p].fid # NoFinding

-----------------------------------------------------------------------------
(***************************************************************************)
(* Type correctness                                                        *)
(***************************************************************************)
TypeInv == TypeOK /\ Named

LEMMA TypeInvInit == Init => TypeInv
  BY EmptyViewType DEF Init, TypeInv, TypeOK, Named

\* Leaving a transaction forgets its envelope and its snapshot.
LEMMA EndAppendType ==
    ASSUME TypeInv, NEW p \in Procs, EndAppend(p)
    PROVE  /\ appending' \in [Procs -> Events \cup {NoEvent}]
           /\ base' \in [Procs -> Nat]
           /\ \A q \in Procs : base'[q] <= Len(log)
           /\ \A q \in Procs : appending'[q] = NoEvent \/ appending'[q] = appending[q]
<1>1. /\ appending \in [Procs -> Events \cup {NoEvent}]
      /\ base \in [Procs -> Nat]
      /\ \A q \in Procs : base[q] <= Len(log)
      /\ Len(log) \in Nat
  BY DEF TypeInv, TypeOK
<1> QED
  BY <1>1 DEF EndAppend

LEMMA TypeInvNext == TypeInv /\ [Next]_vars => TypeInv'
<1> SUFFICES ASSUME TypeInv, [Next]_vars PROVE TypeInv'
  OBVIOUS
<1> USE DEF TypeInv, TypeOK
<1>1. ASSUME NEW p \in Procs, NEW e \in Events, BeginAppend(p, e) PROVE TypeInv'
  BY <1>1 DEF BeginAppend, Named
<1>2. ASSUME NEW p \in Procs, AppendDuplicate(p) PROVE TypeInv'
  <2>1. PICK k \in Existing(p) : acked' = acked \cup {<<k, appending[p]>>}
    BY <1>2 DEF AppendDuplicate
  <2>2. k \in Nat /\ appending[p] \in Events
    BY <1>2, <2>1 DEF AppendDuplicate, Existing
  <2>3. acked' \subseteq Nat \X Events
    BY <2>1, <2>2
  <2> QED
    BY <1>2, <2>3 DEF AppendDuplicate, EndAppend, Named
<1>3. ASSUME NEW p \in Procs, AppendFails(p) PROVE TypeInv'
  <2>1. EndAppend(p)
    BY <1>3 DEF AppendFails
  <2>2. UNCHANGED <<log, findings, rebuilder, cursor, shadow, acked, hist>>
    BY <1>3 DEF AppendFails
  <2>3. stale' \in [Procs -> BOOLEAN]
    BY <1>3 DEF AppendFails
  <2> QED
    BY <2>1, <2>2, <2>3, EndAppendType DEF Named
<1>4. ASSUME NEW p \in Procs, AppendCommit(p) PROVE TypeInv'
  <2> DEFINE e == appending[p]
             seq == Len(log) + 1
  <2>1. e \in Events /\ seq \in Nat
    BY <1>4 DEF AppendCommit
  <2>2. IsFindingLifecycle(e) => e.fid # NoFinding
    BY <1>4 DEF AppendCommit, Named
  <2>3. findings' \in Views
    <3>1. findings' = Project(findings, seq, e)
      BY <1>4 DEF AppendCommit
    <3> HIDE DEF e, seq
    <3> QED BY <2>1, <2>2, <3>1, ProjectType
  <2>4. /\ log' \in Seq(Events) /\ Len(log') = seq
        /\ \A k \in 1..Len(log) : log'[k] = log[k]
        /\ log'[seq] = e
    BY <1>4, <2>1 DEF AppendCommit, Insert
  <2>5. hist' \in [0..Len(log') -> Views]
    BY <1>4, <2>3, <2>4 DEF AppendCommit
  <2>6. acked' \subseteq Nat \X Events
    BY <1>4, <2>1 DEF AppendCommit
  <2>7. Named'
    <3>1. \A q \in Procs : appending'[q] = NoEvent \/ appending'[q] = appending[q]
      BY <1>4, EndAppendType DEF AppendCommit
    <3>2. ASSUME NEW k \in 1..Len(log'), IsFindingLifecycle(log'[k])
          PROVE  log'[k].fid # NoFinding
      <4>1. CASE k = seq
        BY <2>2, <2>4, <3>2, <4>1
      <4>2. CASE k # seq
        <5>1. k \in 1..Len(log) /\ log'[k] = log[k]
          BY <2>4, <3>2, <4>2
        <5> QED BY <3>2, <5>1 DEF Named
      <4> QED BY <4>1, <4>2
    <3> QED BY <3>1, <3>2 DEF Named
  <2>8. /\ appending' \in [Procs -> Events \cup {NoEvent}]
        /\ base' \in [Procs -> Nat]
        /\ \A q \in Procs : base'[q] <= Len(log')
        /\ stale' \in [Procs -> BOOLEAN]
    BY <1>4, <2>4 DEF AppendCommit, EndAppend, Publish
  <2>9. /\ rebuilder' \in Procs \cup {NoProc}
        /\ cursor' \in 0..Len(log')
        /\ shadow' \in Views
    BY <1>4, <2>4 DEF AppendCommit
  <2> QED
    BY <2>3, <2>4, <2>5, <2>6, <2>7, <2>8, <2>9
<1>5. ASSUME NEW p \in Procs, BeginRebuild(p) PROVE TypeInv'
  BY <1>5, EmptyViewType DEF BeginRebuild, Named
<1>6. ASSUME NEW p \in Procs, ReplayNext(p) PROVE TypeInv'
  <2> DEFINE e == log[cursor + 1]
  <2>1. /\ e \in Events /\ cursor + 1 \in Nat
        /\ IsFindingLifecycle(e) => e.fid # NoFinding
    BY <1>6 DEF ReplayNext, Named
  <2>2. shadow' \in Views
    <3>1. shadow' = Project(shadow, cursor + 1, e)
      BY <1>6 DEF ReplayNext
    <3> HIDE DEF e
    <3> QED BY <2>1, <3>1, ProjectType
  <2> QED
    BY <1>6, <2>2 DEF ReplayNext, Named
<1>7. ASSUME NEW p \in Procs, RebuildFails(p) PROVE TypeInv'
  BY <1>7, EmptyViewType DEF RebuildFails, EndRebuild, Named
<1>8. ASSUME NEW p \in Procs, RebuildCommit(p) PROVE TypeInv'
  BY <1>8, EmptyViewType DEF RebuildCommit, EndRebuild, Publish, Named
<1>9. ASSUME NEW p \in Procs, Abort(p) PROVE TypeInv'
  <2>1. CASE rebuilder = p
    BY <1>9, <2>1, EmptyViewType DEF Abort, EndRebuild, Named
  <2>2. CASE rebuilder # p
    <3>1. EndAppend(p)
      BY <1>9, <2>2 DEF Abort
    <3>2. UNCHANGED <<log, findings, rebuilder, cursor, shadow, acked, hist>>
      BY <1>9, <2>2 DEF Abort
    <3>3. stale' \in [Procs -> BOOLEAN]
      BY <1>9, <2>2 DEF Abort
    <3> QED
      BY <3>1, <3>2, <3>3, EndAppendType DEF Named
  <2> QED BY <2>1, <2>2
<1>10. CASE UNCHANGED vars
  BY <1>10 DEF vars, Named
<1> QED
  BY <1>1, <1>2, <1>3, <1>4, <1>5, <1>6, <1>7, <1>8, <1>9, <1>10 DEF Next

\* The journal's state is always well typed, whatever processes, findings and
\* envelopes there are.
THEOREM TypeCorrect == Spec => []TypeOK
<1>1. TypeInv => TypeOK
  BY DEF TypeInv
<1> QED
  BY <1>1, TypeInvInit, TypeInvNext, PTL DEF Spec

-----------------------------------------------------------------------------
(***************************************************************************)
(* One row per event id, and rows that answers may rely on                 *)
(***************************************************************************)
\* A transaction nobody overtook still sees the whole log, and a process has
\* one transaction at a time.
SnapshotCurrent ==
    \A p \in Procs : appending[p] # NoEvent =>
        /\ rebuilder # p
        /\ ~stale[p] => base[p] = Len(log)

RowInv == TypeInv /\ SnapshotCurrent /\ EventIDsUnique /\ AckedDurable

LEMMA RowInvInit == Init => RowInv
  BY TypeInvInit DEF Init, RowInv, SnapshotCurrent, EventIDsUnique, AckedDurable

\* A step other than a commit leaves the log alone and opens no second snapshot.
LEMMA RowInvQuiet ==
    ASSUME RowInv, TypeInv', UNCHANGED log,
           \A q \in Procs : \/ appending'[q] = NoEvent
                            \/ base'[q] = Len(log) /\ rebuilder' # q
                            \/ /\ appending'[q] = appending[q]
                               /\ base'[q] = base[q]
                               /\ rebuilder' # q \/ rebuilder' = rebuilder
                               /\ stale[q] => stale'[q],
           \A a \in acked' : a \in acked \/ (a[1] \in 1..Len(log) /\ log[a[1]] = a[2])
    PROVE  RowInv'
  BY DEF RowInv, SnapshotCurrent, EventIDsUnique, AckedDurable

LEMMA RowInvNext == RowInv /\ [Next]_vars => RowInv'
<1> SUFFICES ASSUME RowInv, [Next]_vars PROVE RowInv'
  OBVIOUS
<1>0. TypeInv /\ TypeInv'
  BY TypeInvNext DEF RowInv
<1>a. /\ appending \in [Procs -> Events \cup {NoEvent}]
      /\ base \in [Procs -> Nat]
      /\ stale \in [Procs -> BOOLEAN]
      /\ log \in Seq(Events)
      /\ \A q \in Procs : base[q] <= Len(log)
  BY <1>0 DEF TypeInv, TypeOK
<1>1. ASSUME NEW p \in Procs, NEW e \in Events, BeginAppend(p, e) PROVE RowInv'
  BY <1>0, <1>1, <1>a, RowInvQuiet DEF BeginAppend, Idle
<1>2. ASSUME NEW p \in Procs, AppendDuplicate(p) PROVE RowInv'
  <2>1. PICK k \in Existing(p) : /\ log[k] = appending[p]
                                 /\ acked' = acked \cup {<<k, appending[p]>>}
    BY <1>2 DEF AppendDuplicate, SameEnvelope
  <2>2. k \in 1..Len(log)
    BY <2>1, <1>a DEF Existing
  <2>3. \A a \in acked' : a \in acked \/ (a[1] \in 1..Len(log) /\ log[a[1]] = a[2])
    BY <2>1, <2>2
  <2> QED
    BY <1>0, <1>2, <1>a, <2>3, RowInvQuiet DEF AppendDuplicate, EndAppend
<1>3. ASSUME NEW p \in Procs, AppendFails(p) PROVE RowInv'
  BY <1>0, <1>3, <1>a, RowInvQuiet DEF AppendFails, EndAppend
<1>4. ASSUME NEW p \in Procs, AppendCommit(p) PROVE RowInv'
  <2> DEFINE e == appending[p]
             seq == Len(log) + 1
  <2>1. /\ e \in Events /\ Existing(p) = {} /\ ~stale[p]
        /\ acked' = acked \cup {<<seq, e>>}
    BY <1>4, <1>a DEF AppendCommit
  <2>2. /\ Len(log') = seq
        /\ \A k \in 1..Len(log) : log'[k] = log[k]
        /\ log'[seq] = e
    BY <1>4, <1>a, <2>1 DEF AppendCommit, Insert
  <2>3. \A k \in 1..Len(log) : log[k].id # e.id
    <3>1. base[p] = Len(log)
      BY <1>4, <2>1 DEF RowInv, SnapshotCurrent, AppendCommit
    <3> QED BY <2>1, <3>1 DEF Existing
  <2>4. EventIDsUnique'
    <3> SUFFICES ASSUME NEW j \in 1..seq, NEW k \in 1..seq, log'[j].id = log'[k].id
                 PROVE  j = k
      BY <2>2 DEF EventIDsUnique
    <3>1. CASE j \in 1..Len(log) /\ k \in 1..Len(log)
      BY <2>2, <3>1 DEF RowInv, EventIDsUnique
    <3>2. CASE ~(j \in 1..Len(log) /\ k \in 1..Len(log))
      BY <2>2, <2>3, <3>2, <1>a
    <3> QED BY <3>1, <3>2
  <2>5. AckedDurable'
    <3> SUFFICES ASSUME NEW a \in acked' PROVE a[1] \in 1..seq /\ log'[a[1]] = a[2]
      BY <2>2 DEF AckedDurable
    <3>1. CASE a \in acked
      BY <3>1, <2>2, <1>a DEF RowInv, AckedDurable
    <3>2. CASE a = <<seq, e>>
      BY <3>2, <2>2, <1>a
    <3> QED BY <2>1, <3>1, <3>2
  <2>6. SnapshotCurrent'
    BY <1>4, <1>a DEF AppendCommit, EndAppend, Publish, SnapshotCurrent
  <2> QED
    BY <1>0, <2>4, <2>5, <2>6 DEF RowInv
<1>5. ASSUME NEW p \in Procs, BeginRebuild(p) PROVE RowInv'
  BY <1>0, <1>5, <1>a, RowInvQuiet DEF BeginRebuild, Idle
<1>6. ASSUME NEW p \in Procs, ReplayNext(p) PROVE RowInv'
  BY <1>0, <1>6, <1>a, RowInvQuiet DEF ReplayNext
<1>7. ASSUME NEW p \in Procs, RebuildFails(p) PROVE RowInv'
  BY <1>0, <1>7, <1>a, RowInvQuiet DEF RebuildFails, EndRebuild
<1>8. ASSUME NEW p \in Procs, RebuildCommit(p) PROVE RowInv'
  <2>1. appending[p] = NoEvent /\ rebuilder' = NoProc
    BY <1>8 DEF RowInv, SnapshotCurrent, RebuildCommit, EndRebuild
  <2>2. SnapshotCurrent'
    BY <1>8, <1>a, <2>1 DEF RebuildCommit, Publish, RowInv, SnapshotCurrent
  <2> QED
    BY <1>0, <1>8, <2>2 DEF RebuildCommit, RowInv, EventIDsUnique, AckedDurable
<1>9. ASSUME NEW p \in Procs, Abort(p) PROVE RowInv'
  BY <1>0, <1>9, <1>a, RowInvQuiet DEF Abort, EndAppend, EndRebuild
<1>10. CASE UNCHANGED vars
  BY <1>0, <1>10, RowInvQuiet DEF vars
<1> QED
  BY <1>1, <1>2, <1>3, <1>4, <1>5, <1>6, <1>7, <1>8, <1>9, <1>10 DEF Next

\* The event_id lookup and the INSERT are two statements, and still an event id
\* names one row of the journal for ever.
THEOREM EventIDsAreUnique == Spec => []EventIDsUnique
<1>1. RowInv => EventIDsUnique
  BY DEF RowInv
<1> QED
  BY <1>1, RowInvInit, RowInvNext, PTL DEF Spec

\* What Append ever returned to a caller is what the journal holds.
THEOREM AcknowledgedRowsLast == Spec => []AckedDurable
<1>1. RowInv => AckedDurable
  BY DEF RowInv
<1> QED
  BY <1>1, RowInvInit, RowInvNext, PTL DEF Spec

-----------------------------------------------------------------------------
(***************************************************************************)
(* The log only grows                                                      *)
(***************************************************************************)
LEMMA LogStep ==
    ASSUME TypeInv, [Next]_vars
    PROVE  \/ UNCHANGED <<log, hist>>
           \/ \E p \in Procs : AppendCommit(p)
  BY DEF Next, vars, BeginAppend, AppendDuplicate, AppendFails, BeginRebuild,
         ReplayNext, RebuildFails, RebuildCommit, Abort

LEMMA CommitGrows ==
    ASSUME TypeInv, NEW p \in Procs, AppendCommit(p)
    PROVE  /\ appending[p] \in Events
           /\ Len(log') = Len(log) + 1
           /\ \A k \in 1..Len(log) : log'[k] = log[k]
           /\ log'[Len(log) + 1] = appending[p]
  BY DEF TypeInv, TypeOK, AppendCommit, Insert

\* No interleaving of appends, rebuilds and aborted transactions changes or
\* removes a row of the journal.
THEOREM RowsAreImmutable == Spec => LogAppendOnly
<1>1. ASSUME TypeInv, [Next]_vars
      PROVE  [/\ Len(log') >= Len(log)
              /\ \A k \in 1..Len(log) : log'[k] = log[k]]_vars
  <2>1. log \in Seq(Events) /\ Len(log) \in Nat
    BY <1>1 DEF TypeInv, TypeOK
  <2>2. CASE UNCHANGED <<log, hist>>
    BY <2>1, <2>2
  <2>3. CASE \E p \in Procs : AppendCommit(p)
    BY <1>1, <2>1, <2>3, CommitGrows
  <2> QED
    BY <1>1, <2>2, <2>3, LogStep
<1> QED
  BY <1>1, TypeInvInit, TypeInvNext, PTL DEF Spec, LogAppendOnly

-----------------------------------------------------------------------------
(***************************************************************************)
(* Replay.  The log's prefixes and the projections readers saw after them  *)
(* march together; a rebuild visits the same projections again.            *)
(***************************************************************************)
HistInv ==
    /\ hist[0] = EmptyView
    /\ \A k \in 1..Len(log) :
          /\ Projectable(hist[k - 1], log[k])
          /\ hist[k] = Project(hist[k - 1], k, log[k])
    /\ findings = hist[Len(log)]
    /\ rebuilder # NoProc => shadow = hist[cursor]

ReplayInv == TypeInv /\ HistInv

LEMMA ReplayInvInit == Init => ReplayInv
  BY TypeInvInit DEF Init, ReplayInv, HistInv

\* At its last row, a rebuild has the projection readers see.
LEMMA ShadowMeetsFindings ==
    ASSUME ReplayInv, NEW p \in Procs, RebuildCommit(p)
    PROVE  findings' = findings
  BY DEF ReplayInv, HistInv, RebuildCommit, ReplayedAll

LEMMA ReplayInvNext == ReplayInv /\ [Next]_vars => ReplayInv'
<1> SUFFICES ASSUME ReplayInv, [Next]_vars PROVE ReplayInv'
  OBVIOUS
<1>0. TypeInv /\ TypeInv' /\ HistInv
  BY TypeInvNext DEF ReplayInv
<1>a. Len(log) \in Nat /\ cursor \in 0..Len(log) /\ hist \in [0..Len(log) -> Views]
  BY <1>0 DEF TypeInv, TypeOK
<1>1. ASSUME NEW p \in Procs, NEW e \in Events, BeginAppend(p, e) PROVE HistInv'
  BY <1>0, <1>1 DEF BeginAppend, HistInv
<1>2. ASSUME NEW p \in Procs, AppendDuplicate(p) PROVE HistInv'
  BY <1>0, <1>2 DEF AppendDuplicate, HistInv
<1>3. ASSUME NEW p \in Procs, AppendFails(p) PROVE HistInv'
  BY <1>0, <1>3 DEF AppendFails, HistInv
<1>4. ASSUME NEW p \in Procs, AppendCommit(p) PROVE HistInv'
  <2> DEFINE e == appending[p]
             seq == Len(log) + 1
  <2>1. /\ Len(log') = seq
        /\ \A k \in 1..Len(log) : log'[k] = log[k]
        /\ log'[seq] = e
    BY <1>0, <1>4, CommitGrows
  <2>2. /\ Projectable(findings, e)
        /\ findings' = Project(findings, seq, e)
        /\ hist' = [k \in 0..seq |-> IF k = seq THEN findings' ELSE hist[k]]
        /\ rebuilder' = NoProc
    BY <1>4 DEF AppendCommit, Admits
  <2>3. /\ hist'[seq] = findings'
        /\ \A k \in 0..Len(log) : hist'[k] = hist[k]
    BY <1>a, <2>2
  <2>4. ASSUME NEW k \in 1..seq
        PROVE  /\ Projectable(hist'[k - 1], log'[k])
               /\ hist'[k] = Project(hist'[k - 1], k, log'[k])
    <3>1. CASE k = seq
      <4>1. hist'[k - 1] = findings
        BY <1>0, <1>a, <2>3, <3>1 DEF HistInv
      <4> QED BY <2>1, <2>2, <2>3, <3>1, <4>1
    <3>2. CASE k # seq
      <4>1. k \in 1..Len(log) /\ k - 1 \in 0..Len(log)
        BY <1>a, <3>2
      <4>2. hist'[k] = hist[k] /\ hist'[k - 1] = hist[k - 1] /\ log'[k] = log[k]
        BY <1>a, <2>1, <2>3, <4>1
      <4> QED BY <1>0, <4>1, <4>2 DEF HistInv
    <3> QED BY <3>1, <3>2
  <2>5. hist'[0] = EmptyView
    BY <1>0, <1>a, <2>3 DEF HistInv
  <2>6. findings' = hist'[Len(log')]
    BY <2>1, <2>3
  <2> HIDE DEF e, seq
  <2> QED
    BY <2>1, <2>2, <2>4, <2>5, <2>6 DEF HistInv
<1>5. ASSUME NEW p \in Procs, BeginRebuild(p) PROVE HistInv'
  BY <1>0, <1>5 DEF BeginRebuild, HistInv
<1>6. ASSUME NEW p \in Procs, ReplayNext(p) PROVE HistInv'
  <2>1. cursor + 1 \in 1..Len(log) /\ (cursor + 1) - 1 = cursor
    BY <1>6, <1>a DEF ReplayNext
  <2>2. hist[cursor + 1] = Project(hist[cursor], cursor + 1, log[cursor + 1])
    BY <1>0, <2>1 DEF HistInv
  <2>3. shadow = hist[cursor]
    BY <1>0, <1>6 DEF HistInv, ReplayNext
  <2>4. shadow' = hist[cursor + 1] /\ cursor' = cursor + 1
    BY <1>6, <2>2, <2>3 DEF ReplayNext
  <2> QED
    BY <1>0, <1>6, <2>4 DEF ReplayNext, HistInv
<1>7. ASSUME NEW p \in Procs, RebuildFails(p) PROVE HistInv'
  BY <1>0, <1>7 DEF RebuildFails, EndRebuild, HistInv
<1>8. ASSUME NEW p \in Procs, RebuildCommit(p) PROVE HistInv'
  <2>1. findings' = findings
    BY <1>8, ShadowMeetsFindings
  <2> QED
    BY <1>0, <1>8, <2>1 DEF RebuildCommit, EndRebuild, HistInv
<1>9. ASSUME NEW p \in Procs, Abort(p) PROVE HistInv'
  BY <1>0, <1>9 DEF Abort, EndRebuild, HistInv
<1>10. ASSUME UNCHANGED vars PROVE HistInv'
  BY <1>0, <1>10 DEF vars, HistInv
<1>11. HistInv'
  BY <1>1, <1>2, <1>3, <1>4, <1>5, <1>6, <1>7, <1>8, <1>9, <1>10 DEF Next
<1> QED
  BY <1>0, <1>11 DEF ReplayInv

\* A rebuild is never refused because of a lifecycle row.
THEOREM ReplayIsAccepted == Spec => []ReplayAccepts
<1>1. ReplayInv => ReplayAccepts
  <2> SUFFICES ASSUME ReplayInv, rebuilder # NoProc, cursor < Len(log)
               PROVE  Projectable(shadow, log[cursor + 1])
    BY DEF ReplayAccepts
  <2>1. cursor + 1 \in 1..Len(log) /\ (cursor + 1) - 1 = cursor
    BY DEF ReplayInv, TypeInv, TypeOK
  <2> QED
    BY <2>1 DEF ReplayInv, HistInv
<1> QED
  BY <1>1, ReplayInvInit, ReplayInvNext, PTL DEF Spec

\* Deleting and replaying current_findings reproduces it: what readers see
\* changes only when a row is added.
THEOREM RebuildIsInvisible == Spec => RebuildInvisible
<1>1. ASSUME ReplayInv, [Next]_vars
      PROVE  [findings' # findings => log' # log]_vars
  <2>1. CASE \E p \in Procs : AppendCommit(p)
    <3>1. TypeInv /\ Len(log) \in Nat
      BY <1>1 DEF ReplayInv, TypeInv, TypeOK
    <3> QED BY <2>1, <3>1, CommitGrows
  <2>2. CASE \E p \in Procs : RebuildCommit(p)
    BY <1>1, <2>2, ShadowMeetsFindings
  <2>3. CASE ~(\E p \in Procs : AppendCommit(p) \/ RebuildCommit(p))
    BY <1>1, <2>3 DEF Next, vars, BeginAppend, AppendDuplicate, AppendFails,
         BeginRebuild, ReplayNext, RebuildFails, Abort
  <2> QED BY <2>1, <2>2, <2>3
<1> QED
  BY <1>1, ReplayInvInit, ReplayInvNext, PTL DEF Spec, RebuildInvisible

-----------------------------------------------------------------------------
(***************************************************************************)
(* Refinement.  A commit is the atomic Insert, because the snapshot it     *)
(* looked its id up in is the whole log; a duplicate is a Repeat; a        *)
(* rebuild's commit changes nothing, and everything else is internal.      *)
(***************************************************************************)
LEMMA CommitInserts ==
    ASSUME RowInv, NEW p \in Procs, AppendCommit(p)
    PROVE  Atomic!Insert(appending[p]) /\ appending[p] \in Events
<1>1. /\ appending[p] # NoEvent /\ appending[p] \in Events
      /\ base[p] = Len(log)
  BY DEF RowInv, TypeInv, TypeOK, SnapshotCurrent, AppendCommit
<1>2. \A k \in 1..Len(log) : log[k].id # appending[p].id
  BY <1>1 DEF AppendCommit, Existing
<1>3. /\ Projectable(findings, appending[p])
      /\ log' = Append(log, appending[p])
      /\ findings' = Project(findings, Len(log) + 1, appending[p])
      /\ acked' = acked \cup {<<Len(log) + 1, appending[p]>>}
  BY DEF AppendCommit, Admits, Insert
<1> QED
  BY <1>1, <1>2, <1>3 DEF Atomic!Insert

LEMMA DuplicateRepeats ==
    ASSUME RowInv, NEW p \in Procs, AppendDuplicate(p)
    PROVE  \E k \in 1..Len(log) : Atomic!Repeat(k)
<1>1. PICK k \in Existing(p) : /\ SameEnvelope(log[k], appending[p])
                               /\ acked' = acked \cup {<<k, appending[p]>>}
  BY DEF AppendDuplicate
<1>2. k \in 1..Len(log) /\ log[k] = appending[p]
  BY <1>1 DEF Existing, SameEnvelope, RowInv, TypeInv, TypeOK
<1>3. UNCHANGED <<log, findings>>
  BY DEF AppendDuplicate
<1> QED
  BY <1>1, <1>2, <1>3 DEF Atomic!Repeat

\* The journal that any number of processes share through SQLite's snapshots,
\* locks and rollbacks implements the journal in which every Append is atomic.
THEOREM JournalIsAtomic == Spec => ImplementsAtomicJournal
<1>1. Init => Atomic!Init
  BY DEF Init, Atomic!Init
<1>2. ASSUME RowInv, ReplayInv, [Next]_vars
      PROVE  [Atomic!Next]_(Atomic!vars)
  <2>1. CASE \E p \in Procs : AppendCommit(p)
    BY <1>2, <2>1, CommitInserts DEF Atomic!Next
  <2>2. CASE \E p \in Procs : AppendDuplicate(p)
    BY <1>2, <2>2, DuplicateRepeats DEF Atomic!Next
  <2>3. CASE \E p \in Procs : RebuildCommit(p)
    <3>1. UNCHANGED findings
      BY <1>2, <2>3, ShadowMeetsFindings
    <3> QED
      BY <2>3, <3>1 DEF RebuildCommit, Atomic!vars
  <2>4. CASE ~(\E p \in Procs : AppendCommit(p) \/ AppendDuplicate(p) \/ RebuildCommit(p))
    BY <1>2, <2>4 DEF Next, vars, Atomic!vars, BeginAppend, AppendFails,
         BeginRebuild, ReplayNext, RebuildFails, Abort
  <2> QED
    BY <2>1, <2>2, <2>3, <2>4
<1> QED
  BY <1>1, <1>2, RowInvInit, RowInvNext, ReplayInvInit, ReplayInvNext, PTL
     DEF Spec, ImplementsAtomicJournal, Atomic!Spec

-----------------------------------------------------------------------------
(***************************************************************************)
(* The fields of a finding agree with its state                            *)
(***************************************************************************)
Coherent(d) ==
    /\ d.resolution # 0 <=> d.state = "resolved"
    /\ d.suppressedUntil # 0 => d.state = "suppressed"
    /\ d.state = "acknowledged" => d.ack # 0
    /\ d.state = "absent" <=> d.occurrences = 0
    /\ d.firstSeen <= d.lastSeen

LEMMA ApplyEventCoherent ==
    ASSUME NEW f \in Finding, NEW seq \in Nat, NEW e \in Events,
           IsFindingLifecycle(e), CanApply(f, e), Coherent(f)
    PROVE  Coherent(ApplyEvent(f, seq, e))
<1>1. e \in Envelope
  OBVIOUS
<1>2. CASE e.type = "observed"
  <2>1. Coherent(NewFinding(seq, e))
    BY <1>1 DEF NewFinding, Coherent, Envelope
  <2>2. ASSUME f.state # "absent" PROVE Coherent(ObserveExisting(f, seq, e))
    <3> DEFINE seen == [f EXCEPT !.severity    = e.severity,
                                 !.occurrences = @ + 1,
                                 !.firstSeen   = Earlier(@, e.occurredAt),
                                 !.lastSeen    = Later(@, e.occurredAt)]
               live == IF seen.state = "resolved" THEN Reopen(seen) ELSE seen
               out  == IF SuppressionExpired(live, e)
                       THEN [live EXCEPT !.state = "open", !.suppressedUntil = 0]
                       ELSE live
    <3>1. seen \in Finding /\ Coherent(seen) /\ seen.state # "absent"
      <4>1. /\ e.severity \in Severities
            /\ Earlier(f.firstSeen, e.occurredAt) \in Nat
            /\ Later(f.lastSeen, e.occurredAt) \in Nat
            /\ Earlier(f.firstSeen, e.occurredAt) <= Later(f.lastSeen, e.occurredAt)
            /\ f.occurrences + 1 \in Nat /\ f.occurrences + 1 # 0
        BY <1>1 DEF Finding, Envelope, Earlier, Later, Coherent
      <4> QED BY <2>2, <4>1 DEF Finding, Coherent
    <3>2. live \in Finding /\ Coherent(live) /\ live.state # "absent"
      <4> HIDE DEF seen
      <4> QED BY <3>1 DEF Finding, Reopen, Coherent
    <3>3. out \in Finding /\ Coherent(out)
      <4> HIDE DEF live
      <4> QED BY <3>2 DEF Finding, Coherent, SuppressionExpired
    <3>4. ObserveExisting(f, seq, e) = Advance(out, seq, e)
      BY DEF ObserveExisting
    <3> HIDE DEF out
    <3> QED BY <3>3, <3>4 DEF Advance, Coherent, Finding
  <2> QED
    BY <1>2, <2>1, <2>2 DEF ApplyEvent, ApplyObservation
<1>3. CASE e.type = "acknowledged"
  BY <1>1, <1>3 DEF ApplyEvent, CanApply, Coherent, Advance, Finding, Envelope
<1>4. CASE e.type = "suppressed"
  BY <1>1, <1>4 DEF ApplyEvent, CanApply, Coherent, Advance, Finding, Envelope
<1>5. CASE e.type = "unsuppressed"
  BY <1>1, <1>5 DEF ApplyEvent, CanApply, Coherent, Advance, Finding, Envelope
<1>6. CASE e.type = "resolved"
  BY <1>1, <1>6 DEF ApplyEvent, CanApply, Coherent, Advance, Finding, Envelope
<1> QED
  BY <1>2, <1>3, <1>4, <1>5, <1>6 DEF IsFindingLifecycle, LifecycleTypes

CoherentInv == ReplayInv /\ \A f \in FindingIDs : Coherent(findings[f])

\* A finding carries a resolution exactly while it is resolved, an expiry only
\* while suppressed, and never an empty history.
THEOREM FieldsAgreeWithState == Spec => []LifecycleConsistent
<1>1. Init => CoherentInv
  BY ReplayInvInit DEF Init, CoherentInv, EmptyView, Absent, Coherent
<1>2. CoherentInv /\ [Next]_vars => CoherentInv'
  <2> SUFFICES ASSUME CoherentInv, [Next]_vars PROVE CoherentInv'
    OBVIOUS
  <2>0. ReplayInv /\ ReplayInv' /\ TypeInv
    BY ReplayInvNext DEF CoherentInv, ReplayInv
  <2>1. ASSUME NEW p \in Procs, AppendCommit(p) PROVE CoherentInv'
    <3> DEFINE e == appending[p]
               seq == Len(log) + 1
    <3>1. /\ e \in Events /\ seq \in Nat
          /\ findings' = Project(findings, seq, e)
          /\ Projectable(findings, e)
          /\ findings \in Views
          /\ IsFindingLifecycle(e) => e.fid # NoFinding
      BY <2>0, <2>1 DEF TypeInv, TypeOK, Named, AppendCommit, Admits
    <3> HIDE DEF e, seq
    <3>2. CASE IsFindingLifecycle(e)
      <4>1. e.fid \in FindingIDs
        BY <3>1, <3>2 DEF Envelope
      <4>2. findings[e.fid] \in Finding /\ CanApply(findings[e.fid], e)
        BY <3>1, <3>2, <4>1 DEF Views, Projectable
      <4>3. Coherent(ApplyEvent(findings[e.fid], seq, e))
        BY <3>1, <3>2, <4>1, <4>2, ApplyEventCoherent DEF CoherentInv
      <4>4. \A f \in FindingIDs : Coherent(findings'[f])
        BY <3>1, <3>2, <4>1, <4>3 DEF Project, Views, CoherentInv
      <4> QED BY <2>0, <4>4 DEF CoherentInv
    <3>3. CASE ~IsFindingLifecycle(e)
      BY <2>0, <3>1, <3>3 DEF Project, CoherentInv
    <3> QED BY <3>2, <3>3
  <2>2. ASSUME NEW p \in Procs, RebuildCommit(p) PROVE CoherentInv'
    BY <2>0, <2>2, ShadowMeetsFindings DEF CoherentInv
  <2>3. CASE UNCHANGED findings
    BY <2>0, <2>3 DEF CoherentInv
  <2>4. \/ UNCHANGED findings
        \/ \E p \in Procs : AppendCommit(p) \/ RebuildCommit(p)
    BY DEF Next, vars, BeginAppend, AppendDuplicate, AppendFails,
         BeginRebuild, ReplayNext, RebuildFails, Abort
  <2> QED BY <2>1, <2>2, <2>3, <2>4
<1>3. CoherentInv => LifecycleConsistent
  BY DEF CoherentInv, LifecycleConsistent, Coherent
<1> QED
  BY <1>1, <1>2, <1>3, PTL DEF Spec

-----------------------------------------------------------------------------
(***************************************************************************)
(* Each finding summarises its rows                                        *)
(***************************************************************************)
About(l, f) == {k \in 1..Len(l) : IsFindingLifecycle(l[k]) /\ l[k].fid = f}
Seen(l, f) == {k \in About(l, f) : l[k].type = "observed"}

Newest(d, l, f) ==
    /\ d.lastSeq \in About(l, f)
    /\ \A k \in About(l, f) : k <= d.lastSeq /\ l[k].recordedAt <= d.updatedAt

Times(d, l, f) ==
    /\ \A k \in Seen(l, f) : l[k].occurredAt \in d.firstSeen..d.lastSeen
    /\ \E j \in Seen(l, f) : l[j].occurredAt = d.firstSeen
    /\ \E k \in Seen(l, f) : l[k].occurredAt = d.lastSeen

Graded(d, l, f) ==
    \E k \in Seen(l, f) : (\A j \in Seen(l, f) : j <= k) /\ d.severity = l[k].severity

\* The rows of log l about finding f and its projection d: what the property
\* says, and that a finding with rows is not absent, without which an
\* observation of it would start a new one.
Summarises(d, l, f) ==
    IF About(l, f) = {}
    THEN d = Absent
    ELSE d.state # "absent" /\ Newest(d, l, f) /\ Times(d, l, f) /\ Graded(d, l, f)

\* Log m is log l and one more row, e.
Extends(m, l, e) ==
    /\ Len(m) = Len(l) + 1
    /\ \A k \in 1..Len(l) : m[k] = l[k]
    /\ m[Len(l) + 1] = e

\* The fields of a finding that ApplyEvent computes from its rows.
LEMMA ApplyEventFields ==
    ASSUME NEW f \in Finding, NEW seq \in Nat, NEW e \in Events,
           IsFindingLifecycle(e), CanApply(f, e)
    PROVE  LET r == ApplyEvent(f, seq, e)
               new == f.state = "absent"
           IN  /\ r.state # "absent"
               /\ r.lastSeq = seq
               /\ r.updatedAt = IF new THEN e.recordedAt ELSE Later(f.updatedAt, e.recordedAt)
               /\ new => e.type = "observed"
               /\ e.type # "observed" =>
                     /\ r.severity = f.severity
                     /\ r.firstSeen = f.firstSeen
                     /\ r.lastSeen = f.lastSeen
               /\ e.type = "observed" =>
                     /\ r.severity = e.severity
                     /\ r.firstSeen = IF new THEN e.occurredAt ELSE Earlier(f.firstSeen, e.occurredAt)
                     /\ r.lastSeen = IF new THEN e.occurredAt ELSE Later(f.lastSeen, e.occurredAt)
<1>1. CASE e.type = "observed"
  <2>1. CASE f.state = "absent"
    BY <1>1, <2>1 DEF ApplyEvent, ApplyObservation, NewFinding
  <2>2. CASE f.state # "absent"
    <3> DEFINE seen == [f EXCEPT !.severity    = e.severity,
                                 !.occurrences = @ + 1,
                                 !.firstSeen   = Earlier(@, e.occurredAt),
                                 !.lastSeen    = Later(@, e.occurredAt)]
               live == IF seen.state = "resolved" THEN Reopen(seen) ELSE seen
               out  == IF SuppressionExpired(live, e)
                       THEN [live EXCEPT !.state = "open", !.suppressedUntil = 0]
                       ELSE live
               Same(x) == /\ x.severity = e.severity
                          /\ x.firstSeen = Earlier(f.firstSeen, e.occurredAt)
                          /\ x.lastSeen = Later(f.lastSeen, e.occurredAt)
                          /\ x.updatedAt = f.updatedAt
                          /\ x.state # "absent"
                          /\ x \in Finding
    <3>1. Same(seen)
      <4>1. /\ e.severity \in Severities
            /\ Earlier(f.firstSeen, e.occurredAt) \in Nat
            /\ Later(f.lastSeen, e.occurredAt) \in Nat
            /\ f.occurrences + 1 \in Nat
        BY DEF Finding, Envelope, Earlier, Later
      <4> QED BY <2>2, <4>1 DEF Finding
    <3>2. Same(live)
      <4> HIDE DEF seen
      <4> QED BY <3>1 DEF Reopen, Finding
    <3>3. Same(out)
      <4> HIDE DEF live
      <4> QED BY <3>2 DEF Finding
    <3>4. ApplyEvent(f, seq, e) = Advance(out, seq, e)
      BY <1>1, <2>2 DEF ApplyEvent, ApplyObservation, ObserveExisting
    <3> HIDE DEF out
    <3> QED BY <1>1, <2>2, <3>3, <3>4 DEF Advance, Finding
  <2> QED BY <2>1, <2>2
<1>2. CASE e.type # "observed"
  <2>1. f.state # "absent"
    BY <1>2 DEF CanApply
  <2>2. CASE e.type = "acknowledged"
    BY <2>1, <2>2 DEF ApplyEvent, Advance, Finding
  <2>3. CASE e.type = "suppressed"
    BY <2>1, <2>3 DEF ApplyEvent, Advance, Finding
  <2>4. CASE e.type = "unsuppressed"
    BY <2>1, <2>4 DEF ApplyEvent, Advance, Finding
  <2>5. CASE e.type = "resolved"
    BY <2>1, <2>5 DEF ApplyEvent, Advance, Finding
  <2> QED
    BY <1>2, <2>2, <2>3, <2>4, <2>5 DEF IsFindingLifecycle, LifecycleTypes
<1> QED BY <1>1, <1>2

\* A row about another finding, or about none, leaves the summary as it is.
LEMMA SummaryKept ==
    ASSUME NEW l \in Seq(Events), NEW m \in Seq(Events), NEW e \in Events, Extends(m, l, e),
           NEW f \in FindingIDs, NEW d, Summarises(d, l, f),
           ~(IsFindingLifecycle(e) /\ e.fid = f)
    PROVE  Summarises(d, m, f)
<1>1. Len(l) \in Nat /\ 1..Len(m) = 1..Len(l) \cup {Len(l) + 1}
  BY DEF Extends
<1>2. About(m, f) = About(l, f)
  BY <1>1 DEF About, Extends
<1>3. \A k \in About(l, f) : m[k] = l[k]
  BY DEF About, Extends
<1>4. Seen(m, f) = Seen(l, f)
  BY <1>2, <1>3 DEF Seen
<1>5. Seen(l, f) \subseteq About(l, f)
  BY DEF Seen
<1> QED
  BY <1>2, <1>3, <1>4, <1>5 DEF Summarises, Newest, Times, Graded

\* A row about the finding, projected, gives the summary of one more row.
LEMMA SummaryStep ==
    ASSUME NEW l \in Seq(Events), NEW m \in Seq(Events), NEW e \in Events, Extends(m, l, e),
           NEW f \in FindingIDs, NEW d \in Finding, Summarises(d, l, f),
           IsFindingLifecycle(e), e.fid = f, CanApply(d, e)
    PROVE  Summarises(ApplyEvent(d, Len(l) + 1, e), m, f)
<1> DEFINE seq == Len(l) + 1
           r == ApplyEvent(d, seq, e)
           new == d.state = "absent"
<1>1. /\ Len(l) \in Nat /\ seq \in Nat /\ 1..Len(m) = 1..Len(l) \cup {seq} /\ seq \notin 1..Len(l)
      /\ m[seq] = e
  BY DEF Extends
<1>2. About(m, f) = About(l, f) \cup {seq} /\ About(l, f) \subseteq 1..Len(l)
  BY <1>1 DEF About, Extends
<1>3. \A k \in About(l, f) : m[k] = l[k] /\ k \in Nat /\ k < seq
  BY <1>1 DEF About, Extends
<1>4. Seen(m, f) = Seen(l, f) \cup (IF e.type = "observed" THEN {seq} ELSE {})
  BY <1>1, <1>2, <1>3 DEF Seen
<1>5. Seen(l, f) \subseteq About(l, f)
  BY DEF Seen
<1>6. /\ r.state # "absent" /\ r.lastSeq = seq
      /\ r.updatedAt = IF new THEN e.recordedAt ELSE Later(d.updatedAt, e.recordedAt)
      /\ new => e.type = "observed"
      /\ e.type # "observed" =>
            r.severity = d.severity /\ r.firstSeen = d.firstSeen /\ r.lastSeen = d.lastSeen
      /\ e.type = "observed" =>
            /\ r.severity = e.severity
            /\ r.firstSeen = IF new THEN e.occurredAt ELSE Earlier(d.firstSeen, e.occurredAt)
            /\ r.lastSeen = IF new THEN e.occurredAt ELSE Later(d.lastSeen, e.occurredAt)
  BY <1>1, ApplyEventFields
<1>7. new <=> About(l, f) = {}
  BY DEF Summarises, Absent
<1>8. /\ e.occurredAt \in Nat /\ e.recordedAt \in Nat
      /\ \A k \in About(l, f) : l[k].occurredAt \in Nat /\ l[k].recordedAt \in Nat
      /\ d.updatedAt \in Nat /\ d.firstSeen \in Nat /\ d.lastSeen \in Nat
  <2>1. e \in Envelope
    OBVIOUS
  <2>2. ASSUME NEW k \in About(l, f) PROVE l[k] \in Envelope
    BY DEF About
  <2> QED
    BY <2>1, <2>2 DEF Envelope, Finding
<1> HIDE DEF r
<1>9. CASE new
  <2>1. About(m, f) = {seq} /\ Seen(m, f) = {seq}
    BY <1>2, <1>4, <1>5, <1>6, <1>7, <1>9
  <2>2. /\ r.firstSeen = e.occurredAt /\ r.lastSeen = e.occurredAt /\ r.severity = e.severity
        /\ r.updatedAt = e.recordedAt /\ r.lastSeq = seq
    BY <1>6, <1>9
  <2> HIDE DEF seq
  <2>3. Newest(r, m, f)
    BY <1>1, <1>8, <2>1, <2>2 DEF Newest
  <2>4. Times(r, m, f) /\ Graded(r, m, f)
    BY <1>1, <1>8, <2>1, <2>2 DEF Times, Graded
  <2> QED
    BY <1>6, <2>1, <2>3, <2>4 DEF Summarises, r, seq
<1>10. CASE ~new
  <2>0. Newest(d, l, f) /\ Times(d, l, f) /\ Graded(d, l, f)
    BY <1>7, <1>10 DEF Summarises
  <2> HIDE DEF seq
  <2>1. Newest(r, m, f)
    <3>1. r.updatedAt \in Nat /\ e.recordedAt <= r.updatedAt /\ d.updatedAt <= r.updatedAt
      BY <1>6, <1>8, <1>10 DEF Later
    <3>2. ASSUME NEW k \in About(m, f) PROVE k <= r.lastSeq /\ m[k].recordedAt <= r.updatedAt
      <4>1. CASE k = seq
        BY <1>1, <1>6, <3>1, <4>1
      <4>2. CASE k \in About(l, f)
        <5>1. m[k] = l[k] /\ k < seq /\ k \in Nat
          BY <1>3, <4>2
        <5>2. l[k].recordedAt <= d.updatedAt /\ l[k].recordedAt \in Nat
          BY <1>8, <2>0, <4>2 DEF Newest
        <5>3. l[k].recordedAt <= r.updatedAt
          BY <1>8, <3>1, <5>2
        <5> QED BY <1>1, <1>6, <5>1, <5>3
      <4> QED BY <1>2, <4>1, <4>2
    <3> QED
      BY <1>2, <1>6, <3>2 DEF Newest
  <2>2. CASE e.type = "observed"
    <3>1. /\ r.firstSeen = Earlier(d.firstSeen, e.occurredAt)
          /\ r.lastSeen = Later(d.lastSeen, e.occurredAt)
          /\ r.severity = e.severity
      BY <1>6, <1>10, <2>2
    <3>2. Seen(m, f) = Seen(l, f) \cup {seq} /\ seq \in Seen(m, f)
      BY <1>4, <2>2
    <3>3. /\ r.firstSeen \in Nat /\ r.firstSeen <= d.firstSeen /\ r.firstSeen <= e.occurredAt
          /\ r.lastSeen \in Nat /\ d.lastSeen <= r.lastSeen /\ e.occurredAt <= r.lastSeen
      BY <1>8, <3>1 DEF Earlier, Later
    <3>4. ASSUME NEW k \in Seen(m, f) PROVE m[k].occurredAt \in r.firstSeen..r.lastSeen
      <4>1. CASE k = seq
        BY <1>1, <1>8, <3>3, <4>1
      <4>2. CASE k \in Seen(l, f)
        <5>1. m[k] = l[k] /\ l[k].occurredAt \in Nat
          BY <1>3, <1>5, <1>8, <4>2
        <5>2. l[k].occurredAt \in d.firstSeen..d.lastSeen
          BY <2>0, <4>2 DEF Times
        <5>3. l[k].occurredAt \in r.firstSeen..r.lastSeen
          BY <1>8, <3>3, <5>1, <5>2
        <5> QED BY <5>1, <5>3
      <4> QED BY <3>2, <4>1, <4>2
    <3>5. \E j \in Seen(m, f) : m[j].occurredAt = r.firstSeen
      BY <1>1, <1>3, <1>5, <2>0, <3>1, <3>2 DEF Times, Earlier
    <3>6. \E k \in Seen(m, f) : m[k].occurredAt = r.lastSeen
      BY <1>1, <1>3, <1>5, <2>0, <3>1, <3>2 DEF Times, Later
    <3>7. (\A j \in Seen(m, f) : j <= seq) /\ r.severity = m[seq].severity
      BY <1>1, <1>3, <1>5, <3>1, <3>2
    <3>8. Times(r, m, f)
      BY <3>4, <3>5, <3>6 DEF Times
    <3>9. Graded(r, m, f)
      BY <3>2, <3>7 DEF Graded
    <3> QED
      BY <1>2, <1>6, <2>1, <3>8, <3>9 DEF Summarises, r, seq
  <2>3. CASE e.type # "observed"
    <3>1. Seen(m, f) = Seen(l, f)
      BY <1>4, <2>3
    <3>2. r.severity = d.severity /\ r.firstSeen = d.firstSeen /\ r.lastSeen = d.lastSeen
      BY <1>6, <2>3
    <3>3. \A k \in Seen(l, f) : m[k] = l[k]
      BY <1>3, <1>5
    <3>4. Times(r, m, f) /\ Graded(r, m, f)
      BY <2>0, <3>1, <3>2, <3>3 DEF Times, Graded
    <3> QED
      BY <1>2, <1>6, <2>1, <3>4 DEF Summarises, r, seq
  <2> QED BY <2>2, <2>3
<1> QED BY <1>9, <1>10

SummaryInv == ReplayInv /\ \A f \in FindingIDs : Summarises(findings[f], log, f)

\* A finding's row says of its journal rows exactly what they say, in whatever
\* order they occurred, were recorded by any number of processes, and however
\* often they were replayed.
THEOREM FindingsSummariseRows == Spec => []ProjectionSummarisesLog
<1>1. Init => SummaryInv
  BY ReplayInvInit DEF Init, SummaryInv, Summarises, About, EmptyView
<1>2. SummaryInv /\ [Next]_vars => SummaryInv'
  <2> SUFFICES ASSUME SummaryInv, [Next]_vars PROVE SummaryInv'
    OBVIOUS
  <2>0. ReplayInv /\ ReplayInv' /\ TypeInv /\ TypeInv'
    BY ReplayInvNext DEF SummaryInv, ReplayInv
  <2>1. ASSUME NEW p \in Procs, AppendCommit(p) PROVE SummaryInv'
    <3> DEFINE e == appending[p]
               seq == Len(log) + 1
    <3>1. /\ e \in Events /\ seq \in Nat
          /\ findings' = Project(findings, seq, e)
          /\ Projectable(findings, e)
          /\ findings \in Views
          /\ log \in Seq(Events) /\ log' \in Seq(Events)
      BY <2>0, <2>1, CommitGrows DEF TypeInv, TypeOK, AppendCommit, Admits
    <3>2. Extends(log', log, e)
      BY <2>0, <2>1, CommitGrows DEF Extends
    <3> HIDE DEF e
    <3>3. ASSUME NEW f \in FindingIDs PROVE Summarises(findings'[f], log', f)
      <4>1. Summarises(findings[f], log, f) /\ findings[f] \in Finding
        BY <3>1 DEF SummaryInv, Views
      <4>2. CASE IsFindingLifecycle(e) /\ e.fid = f
        <5>1. CanApply(findings[f], e) /\ findings'[f] = ApplyEvent(findings[f], seq, e)
          BY <3>1, <4>2 DEF Projectable, Project, Views
        <5> QED BY <3>1, <3>2, <4>1, <4>2, <5>1, SummaryStep
      <4>3. CASE ~(IsFindingLifecycle(e) /\ e.fid = f)
        <5>1. findings'[f] = findings[f]
          BY <3>1, <4>3 DEF Project, Views
        <5> QED BY <3>1, <3>2, <4>1, <4>3, <5>1, SummaryKept
      <4> QED BY <4>2, <4>3
    <3> QED BY <2>0, <3>3 DEF SummaryInv
  <2>2. ASSUME NEW p \in Procs, RebuildCommit(p) PROVE SummaryInv'
    <3>1. findings' = findings /\ log' = log
      BY <2>0, <2>2, ShadowMeetsFindings DEF RebuildCommit
    <3> QED BY <2>0, <3>1 DEF SummaryInv
  <2>3. CASE UNCHANGED <<findings, log>>
    BY <2>0, <2>3 DEF SummaryInv
  <2>4. \/ UNCHANGED <<findings, log>>
        \/ \E p \in Procs : AppendCommit(p) \/ RebuildCommit(p)
    BY DEF Next, vars, BeginAppend, AppendDuplicate, AppendFails,
         BeginRebuild, ReplayNext, RebuildFails, Abort
  <2> QED BY <2>1, <2>2, <2>3, <2>4
<1>3. SummaryInv => ProjectionSummarisesLog
  <2>1. \A f : RowsAbout(f) = About(log, f) /\ Sightings(f) = Seen(log, f)
    BY DEF RowsAbout, Sightings, About, Seen
  <2> QED
    BY <2>1 DEF SummaryInv, Summarises, Newest, Times, Graded, ProjectionSummarisesLog
<1> QED
  BY <1>1, <1>2, <1>3, PTL DEF Spec

=============================================================================
