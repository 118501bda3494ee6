-------------------------- MODULE ScanIngestProofs --------------------------
(***************************************************************************)
(* Proofs about ScanIngest for any number of checks, snapshots, ingesters  *)
(* and crashes: a completed snapshot is complete, occurrences count        *)
(* snapshots, only a clean check resolves a finding, and findings agree    *)
(* with the last snapshot when scans and ingests take turns.               *)
(***************************************************************************)
EXTENDS ScanIngest, FiniteSetTheorems, TLAPS

-----------------------------------------------------------------------------
(***************************************************************************)
(* The inductive invariant                                                 *)
(***************************************************************************)
Kinds == {"check.result", "observed", "resolved", "scan.completed"}
Rows == {BridgeEvent(s, kind, c) : s \in Nat, kind \in Kinds, c \in FindingIDs \cup {NoFinding}}

Place == [ pc : {"idle", "result", "switch", "resolve", "complete"},
           scan : Nat, idx : 0..(Len(CheckOrder) + 1) ]

\* deterministicEventID: ids are equal when what they are made of is.
Id(s, kind, c) == <<s, kind, c>>

\* There is a row with this id.
Has(id) == \E k \in 1..Len(log) : log[k].id = id

Clear(c) == findings[c].state \in {"absent", "resolved"}

\* The rows of a result are in the journal.
Entered(s, c) ==
    /\ scans[s][c] # "none" => Has(Id(s, "check.result", c))
    /\ scans[s][c] \in Bad => Has(Id(s, "observed", c))

\* An ingest is somewhere in its loop, and the results before have their rows.
At(r) ==
    r.pc # "idle" =>
        /\ r.scan \in Scans
        /\ r.idx \in 1..(Len(CheckOrder) + 1)
        /\ r.pc = "complete" <=> r.idx = Len(CheckOrder) + 1
        /\ r.pc \in {"switch", "resolve"} =>
               Has(Id(r.scan, "check.result", CheckOrder[r.idx]))
        /\ r.pc = "resolve" => scans[r.scan][CheckOrder[r.idx]] = "ok"
        /\ \A k \in 1..Len(CheckOrder) : k < r.idx => Entered(r.scan, CheckOrder[k])

\* When scans and ingests take turns: it is an ingest of the last snapshot, and
\* the clean checks it is past have no finding left.
AtTurn(r) ==
    r.pc # "idle" =>
        /\ r.scan = Len(scans)
        /\ \A k \in 1..Len(CheckOrder) :
              k < r.idx /\ scans[r.scan][CheckOrder[k]] = "ok" => Clear(CheckOrder[k])

PlaceInv ==
    \A i \in Ingesters : /\ ing[i].pc = "idle" => ing[i] = Idle
                         /\ At(ing[i])
                         /\ Serialised => AtTurn(ing[i])

\* No row is from a snapshot that is still to be written; only a bad check is
\* observed, only a clean one resolved.
RowsInv ==
    /\ \A s \in Nat, kind \in Kinds, c \in FindingIDs \cup {NoFinding} :
          Has(Id(s, kind, c)) => s \in Scans
    /\ \A s \in Scans, c \in FindingIDs :
          /\ Has(Id(s, "observed", c)) => scans[s][c] \in Bad
          /\ Has(Id(s, "resolved", c)) => scans[s][c] = "ok"

CompleteInv ==
    \A k \in 1..Len(log) : \A s \in Scans :
        log[k].id = Id(s, "scan.completed", NoFinding) =>
            \A c \in FindingIDs :
                /\ scans[s][c] # "none" =>
                      \E j \in 1..(k - 1) : log[j].id = Id(s, "check.result", c)
                /\ scans[s][c] \in Bad =>
                      \E j \in 1..(k - 1) : log[j].id = Id(s, "observed", c)

\* The snapshots that were observed for a check.
SeenBad(c) == {s \in Scans : scans[s][c] \in Bad /\ Has(Id(s, "observed", c))}

CountInv ==
    \A c \in FindingIDs :
        /\ findings[c].occurrences = Cardinality(SeenBad(c))
        /\ findings[c].state = "absent" => findings[c].occurrences = 0

\* When scans and ingests take turns, the rows of the last snapshot decide.
TurnsInv ==
    Serialised => \A c \in FindingIDs :
        /\ Has(Id(Len(scans), "observed", c)) => ~Clear(c)
        /\ Has(Id(Len(scans), "resolved", c)) => Clear(c)
        /\ Has(Id(Len(scans), "scan.completed", NoFinding))
               /\ scans # << >> /\ scans[Len(scans)][c] = "ok" => Clear(c)

IngestTypes ==
    /\ scans \in Seq([FindingIDs -> Statuses \cup {"none"}])
    /\ log \in Seq(Rows)
    /\ findings \in Views
    /\ ing \in [Ingesters -> Place]
    /\ crashes \in 0..MaxCrashes

IngestInv ==
    /\ IngestTypes
    /\ PlaceInv
    /\ RowsInv
    /\ CompleteInv
    /\ CountInv
    /\ TurnsInv

-----------------------------------------------------------------------------
(***************************************************************************)
(* Rows and findings                                                       *)
(***************************************************************************)
LEMMA IdsDiffer ==
    ASSUME NEW s, NEW kind, NEW c, NEW t, NEW other, NEW d, Id(s, kind, c) = Id(t, other, d)
    PROVE  s = t /\ kind = other /\ c = d
  BY DEF Id

LEMMA BridgeEventID ==
    ASSUME NEW s, NEW kind, NEW c PROVE BridgeEvent(s, kind, c).id = Id(s, kind, c)
  BY DEF BridgeEvent, Id

LEMMA BridgeEventFields ==
    ASSUME NEW s \in Nat, NEW kind \in Kinds, NEW c \in FindingIDs \cup {NoFinding}
    PROVE  /\ BridgeEvent(s, kind, c).occurredAt = s
           /\ BridgeEvent(s, kind, c).recordedAt = s
           /\ BridgeEvent(s, kind, c).severity \in Severities
           /\ BridgeEvent(s, kind, c).payloadOK
           /\ kind \in LifecycleTypes => /\ BridgeEvent(s, kind, c).type = kind
                                         /\ BridgeEvent(s, kind, c).fid = c
           /\ kind \notin LifecycleTypes => BridgeEvent(s, kind, c).type = "other"
  <1>1. (CHOOSE v \in Severities : TRUE) \in Severities
    BY SeveritiesAssumption
  <1> QED
    BY <1>1 DEF BridgeEvent

LEMMA RecordedHas ==
    ASSUME NEW s \in Nat, NEW kind \in Kinds, NEW c \in FindingIDs \cup {NoFinding}
    PROVE  Recorded(BridgeEvent(s, kind, c)) <=> Has(Id(s, kind, c))
  BY BridgeEventID DEF Recorded, Has

\* An observation counts, and leaves the finding open or suppressed.
LEMMA ObserveEffect ==
    ASSUME NEW f \in Finding, NEW seq \in Nat, NEW e, e.type = "observed",
           e.occurredAt \in Nat, e.recordedAt \in Nat, e.severity \in Severities
    PROVE  /\ ApplyEvent(f, seq, e) \in Finding
           /\ ApplyEvent(f, seq, e).state \notin {"absent", "resolved"}
           /\ ApplyEvent(f, seq, e).occurrences =
                 IF f.state = "absent" THEN 1 ELSE f.occurrences + 1
  <1>1. ApplyEvent(f, seq, e) = ApplyObservation(f, seq, e)
    BY DEF ApplyEvent
  <1>2. CASE f.state = "absent"
    BY <1>1, <1>2 DEF ApplyObservation, NewFinding, Finding
  <1>3. CASE f.state # "absent"
    <2> DEFINE seen == [f EXCEPT !.severity    = e.severity,
                                 !.occurrences = @ + 1,
                                 !.firstSeen   = Earlier(@, e.occurredAt),
                                 !.lastSeen    = Later(@, e.occurredAt)]
               live == IF seen.state = "resolved" THEN Reopen(seen) ELSE seen
               out  == IF SuppressionExpired(live, e)
                       THEN [live EXCEPT !.state = "open", !.suppressedUntil = 0]
                       ELSE live
    <2>1. /\ seen \in Finding /\ seen.state # "absent"
          /\ seen.occurrences = f.occurrences + 1
      <3>1. /\ Earlier(f.firstSeen, e.occurredAt) \in Nat
            /\ Later(f.lastSeen, e.occurredAt) \in Nat
            /\ f.occurrences + 1 \in Nat
        BY DEF Finding, Earlier, Later
      <3> QED
        BY <1>3, <3>1 DEF Finding
    <2>2. /\ live \in Finding /\ live.state \notin {"absent", "resolved"}
          /\ live.occurrences = f.occurrences + 1
      <3> HIDE DEF seen
      <3> QED
        BY <2>1 DEF Finding, Reopen
    <2>3. /\ out \in Finding /\ out.state \notin {"absent", "resolved"}
          /\ out.occurrences = f.occurrences + 1
      <3> HIDE DEF live
      <3> QED
        BY <2>2 DEF Finding
    <2>4. ApplyEvent(f, seq, e) = Advance(out, seq, e)
      BY <1>1, <1>3 DEF ApplyObservation, ObserveExisting
    <2> HIDE DEF out
    <2>5. Later(out.updatedAt, e.recordedAt) \in Nat
      BY <2>3 DEF Later, Finding
    <2> QED
      BY <1>3, <2>3, <2>4, <2>5 DEF Advance, Finding
  <1> QED
    BY <1>2, <1>3

LEMMA ResolveEffect ==
    ASSUME NEW f \in Finding, NEW seq \in Nat, NEW e, e.type = "resolved",
           e.recordedAt \in Nat
    PROVE  /\ ApplyEvent(f, seq, e) \in Finding
           /\ ApplyEvent(f, seq, e).state = "resolved"
           /\ ApplyEvent(f, seq, e).occurrences = f.occurrences
  <1> DEFINE out == [f EXCEPT !.state = "resolved", !.resolution = e.recordedAt,
                              !.suppressedUntil = 0]
  <1>1. out \in Finding /\ out.state = "resolved" /\ out.occurrences = f.occurrences
    BY DEF Finding
  <1>2. ApplyEvent(f, seq, e) = Advance(out, seq, e)
    BY DEF ApplyEvent
  <1> HIDE DEF out
  <1>3. Later(out.updatedAt, e.recordedAt) \in Nat
    BY <1>1 DEF Later, Finding
  <1> QED
    BY <1>1, <1>2, <1>3 DEF Advance, Finding

-----------------------------------------------------------------------------
(***************************************************************************)
(* One Append: the row is new, or nothing happens                          *)
(***************************************************************************)
NewRow(s, kind, c) ==
    /\ ~Has(Id(s, kind, c))
    /\ log' \in Seq(Rows)
    /\ Len(log') = Len(log) + 1
    /\ \A k \in 1..Len(log) : log'[k] = log[k]
    /\ log'[Len(log) + 1].id = Id(s, kind, c)

LEMMA AppendEffect ==
    ASSUME IngestTypes, NEW s \in Nat, NEW kind \in Kinds, NEW c \in FindingIDs \cup {NoFinding},
           AppendRow(BridgeEvent(s, kind, c))
    PROVE  \/ Has(Id(s, kind, c)) /\ UNCHANGED <<log, findings>>
           \/ NewRow(s, kind, c) /\ findings' = Project(findings, Len(log) + 1,
                                                        BridgeEvent(s, kind, c))
  <1> DEFINE e == BridgeEvent(s, kind, c)
  <1>0. e \in Rows /\ e.id = Id(s, kind, c) /\ (Recorded(e) <=> Has(Id(s, kind, c)))
    BY BridgeEventID, RecordedHas DEF Rows
  <1>1. CASE Recorded(e)
    BY <1>0, <1>1 DEF AppendRow
  <1>2. CASE ~Recorded(e)
    <2>1. log' = Append(log, e) /\ log \in Seq(Rows)
          /\ findings' = Project(findings, Len(log) + 1, e)
      BY <1>2 DEF AppendRow, IngestTypes
    <2> HIDE DEF e
    <2>2. /\ log' \in Seq(Rows) /\ Len(log') = Len(log) + 1
          /\ \A k \in 1..Len(log) : log'[k] = log[k]
          /\ log'[Len(log) + 1] = e
      BY <1>0, <2>1
    <2> QED
      BY <1>0, <1>2, <2>1, <2>2 DEF NewRow, e
  <1> QED
    BY <1>1, <1>2

\* The ids of the rows, before and after.
LEMMA NewIds ==
    ASSUME IngestTypes, NEW s \in Nat, NEW kind \in Kinds, NEW c \in FindingIDs \cup {NoFinding},
           NewRow(s, kind, c), NEW id
    PROVE  Has(id)' <=> Has(id) \/ id = Id(s, kind, c)
  <1>1. Len(log) \in Nat /\ 1..Len(log') = 1..Len(log) \cup {Len(log) + 1}
    BY DEF IngestTypes, NewRow
  <1>2. Has(id)' <=> \E k \in 1..Len(log') : log'[k].id = id
    BY DEF Has
  <1>3. Has(id)' <=> (\E k \in 1..Len(log) : log'[k].id = id) \/ log'[Len(log) + 1].id = id
    BY <1>1, <1>2, Zenon
  <1>4. (\E k \in 1..Len(log) : log'[k].id = id) <=> \E k \in 1..Len(log) : log[k].id = id
    BY DEF NewRow
  <1> QED
    BY <1>3, <1>4 DEF Has, NewRow

\* What one ingester may append.
RowStep(s, kind, c) ==
    /\ AppendRow(BridgeEvent(s, kind, c))
    /\ s \in Scans /\ (Serialised => s = Len(scans))
    /\ kind # "scan.completed" => c \in FindingIDs
    /\ kind = "scan.completed" =>
          /\ c = NoFinding
          /\ \A d \in FindingIDs : /\ Entered(s, d)
                                   /\ Serialised /\ scans[s][d] = "ok" => Clear(d)
    /\ kind = "observed" => scans[s][c] \in Bad
    /\ kind = "resolved" => scans[s][c] = "ok"

Effect(s, kind, c) ==
    /\ NewRow(s, kind, c)
    /\ findings' \in Views
    /\ \A d \in FindingIDs : d # c \/ kind \notin {"observed", "resolved"} =>
          findings'[d] = findings[d]
    /\ kind = "observed" =>
          /\ ~(Clear(c)')
          /\ findings'[c].occurrences =
                IF findings[c].state = "absent" THEN 1 ELSE findings[c].occurrences + 1
    /\ kind = "resolved" =>
          /\ findings'[c].state = "resolved"
          /\ findings'[c].occurrences = findings[c].occurrences

LEMMA RowEffect ==
    ASSUME IngestTypes, NEW s \in Nat, NEW kind \in Kinds, NEW c \in FindingIDs \cup {NoFinding},
           RowStep(s, kind, c)
    PROVE  \/ Has(Id(s, kind, c)) /\ UNCHANGED <<log, findings>>
           \/ Effect(s, kind, c)
  <1> DEFINE e == BridgeEvent(s, kind, c)
             seq == Len(log) + 1
  <1>0. findings \in Views /\ seq \in Nat
    BY DEF IngestTypes
  <1>1. SUFFICES ASSUME NewRow(s, kind, c), findings' = Project(findings, seq, e)
                 PROVE  Effect(s, kind, c)
    BY AppendEffect DEF RowStep
  <1>2. /\ e.occurredAt = s /\ e.recordedAt = s /\ e.severity \in Severities
        /\ kind \in LifecycleTypes => e.type = kind /\ e.fid = c
        /\ kind \notin LifecycleTypes => e.type = "other"
    BY BridgeEventFields
  <1> HIDE DEF e, seq
  <1>3. CASE kind \notin LifecycleTypes
    <2>1. findings' = findings
      BY <1>1, <1>2, <1>3 DEF Project, IsFindingLifecycle, LifecycleTypes
    <2> QED
      BY <1>0, <1>1, <1>3, <2>1 DEF Effect, LifecycleTypes
  <1>4. CASE kind \in LifecycleTypes
    <2>1. kind \in {"observed", "resolved"} /\ c \in FindingIDs
      BY <1>4 DEF Kinds, LifecycleTypes, RowStep
    <2>2. findings' = [findings EXCEPT ![c] = ApplyEvent(findings[c], seq, e)]
      BY <1>0, <1>1, <1>2, <1>4, <2>1 DEF Project, IsFindingLifecycle, Views
    <2>3. findings[c] \in Finding
      BY <1>0, <2>1 DEF Views
    <2> DEFINE f == ApplyEvent(findings[c], seq, e)
    <2>4. /\ f \in Finding
          /\ kind = "observed" =>
                /\ f.state \notin {"absent", "resolved"}
                /\ f.occurrences =
                      IF findings[c].state = "absent" THEN 1 ELSE findings[c].occurrences + 1
          /\ kind = "resolved" =>
                f.state = "resolved" /\ f.occurrences = findings[c].occurrences
      <3>1. CASE kind = "observed"
        BY <1>0, <1>2, <1>4, <2>3, <3>1, ObserveEffect
      <3>2. CASE kind = "resolved"
        BY <1>0, <1>2, <1>4, <2>3, <3>2, ResolveEffect
      <3> QED
        BY <2>1, <3>1, <3>2
    <2> HIDE DEF f
    <2>5. /\ findings' \in Views /\ findings'[c] = f
          /\ \A d \in FindingIDs \ {c} : findings'[d] = findings[d]
      BY <1>0, <2>1, <2>2, <2>4 DEF Views, f
    <2> QED
      BY <1>1, <2>1, <2>4, <2>5 DEF Effect, Clear
  <1> QED
    BY <1>3, <1>4

\* Rows that are there stay there.
LEMMA HasStays ==
    ASSUME IngestTypes, NEW s \in Nat, NEW kind \in Kinds, NEW c \in FindingIDs \cup {NoFinding},
           RowStep(s, kind, c), NEW id, Has(id)
    PROVE  Has(id)'
  <1>1. CASE UNCHANGED log
    BY <1>1 DEF Has
  <1>2. CASE NewRow(s, kind, c)
    BY <1>2, NewIds
  <1> QED
    BY <1>1, <1>2, RowEffect DEF Effect

\* The row appended is there, whether it is new or not.
LEMMA RowThere ==
    ASSUME IngestTypes, NEW s \in Nat, NEW kind \in Kinds, NEW c \in FindingIDs \cup {NoFinding},
           RowStep(s, kind, c)
    PROVE  Has(Id(s, kind, c))'
  <1>1. CASE Has(Id(s, kind, c))
    BY <1>1, HasStays
  <1>2. CASE NewRow(s, kind, c)
    BY <1>2, NewIds
  <1> QED
    BY <1>1, <1>2, RowEffect DEF Effect

LEMMA RowStepRows ==
    ASSUME IngestTypes, RowsInv, scans' = scans, NEW s \in Nat, NEW kind \in Kinds,
           NEW c \in FindingIDs \cup {NoFinding}, RowStep(s, kind, c)
    PROVE  RowsInv'
  <1>1. CASE UNCHANGED log
    BY <1>1 DEF RowsInv, Has, Scans
  <1>2. CASE NewRow(s, kind, c)
    <2>1. ASSUME NEW t \in Nat, NEW other \in Kinds, NEW d \in FindingIDs \cup {NoFinding},
                 Has(Id(t, other, d))'
          PROVE  Has(Id(t, other, d)) \/ (t = s /\ other = kind /\ d = c)
      BY <1>2, <2>1, NewIds, IdsDiffer
    <2>2. s \in Scans /\ Scans' = Scans
      BY DEF RowStep, Scans
    <2>3. ASSUME NEW t \in Nat, NEW other \in Kinds, NEW d \in FindingIDs \cup {NoFinding},
                 Has(Id(t, other, d))'
          PROVE  t \in Scans'
      BY <2>1, <2>2, <2>3 DEF RowsInv
    <2>4. ASSUME NEW t \in Scans, NEW d \in FindingIDs
          PROVE  /\ Has(Id(t, "observed", d))' => scans[t][d] \in Bad
                 /\ Has(Id(t, "resolved", d))' => scans[t][d] = "ok"
      <3>1. t \in Nat /\ "observed" \in Kinds /\ "resolved" \in Kinds
        BY DEF Scans, Kinds
      <3> QED
        BY <2>1, <3>1 DEF RowsInv, RowStep
    <2> QED
      BY <2>2, <2>3, <2>4 DEF RowsInv
  <1> QED
    BY <1>1, <1>2, RowEffect DEF Effect

LEMMA RowStepComplete ==
    ASSUME IngestTypes, CompleteInv, scans' = scans, NEW s \in Nat, NEW kind \in Kinds,
           NEW c \in FindingIDs \cup {NoFinding}, RowStep(s, kind, c)
    PROVE  CompleteInv'
  <1>1. CASE UNCHANGED log
    BY <1>1 DEF CompleteInv, Scans
  <1>2. CASE NewRow(s, kind, c)
    <2>0. /\ Len(log) \in Nat /\ Len(log') = Len(log) + 1 /\ Scans' = Scans
          /\ \A k \in 1..Len(log) : log'[k] = log[k]
          /\ log'[Len(log) + 1].id = Id(s, kind, c)
      BY <1>2 DEF NewRow, IngestTypes, Scans
    <2> SUFFICES ASSUME NEW k \in 1..Len(log'), NEW t \in Scans, NEW d \in FindingIDs,
                        log'[k].id = Id(t, "scan.completed", NoFinding)
                 PROVE  /\ scans[t][d] # "none" =>
                              \E j \in 1..(k - 1) : log'[j].id = Id(t, "check.result", d)
                        /\ scans[t][d] \in Bad =>
                              \E j \in 1..(k - 1) : log'[j].id = Id(t, "observed", d)
      BY <2>0 DEF CompleteInv
    <2>1. CASE k \in 1..Len(log)
      <3>1. /\ scans[t][d] # "none" =>
                  \E j \in 1..(k - 1) : log[j].id = Id(t, "check.result", d)
            /\ scans[t][d] \in Bad => \E j \in 1..(k - 1) : log[j].id = Id(t, "observed", d)
        BY <2>0, <2>1 DEF CompleteInv
      <3>2. \A j \in 1..(k - 1) : log'[j] = log[j]
        BY <2>0, <2>1
      <3> QED
        BY <3>1, <3>2
    <2>2. CASE k = Len(log) + 1
      <3>1. s = t /\ kind = "scan.completed"
        BY <2>0, <2>2, IdsDiffer
      <3>2. Entered(t, d)
        BY <3>1 DEF RowStep
      <3>3. 1..(k - 1) = 1..Len(log)
        BY <2>0, <2>2
      <3>4. ASSUME NEW id, Has(id) PROVE \E j \in 1..(k - 1) : log'[j].id = id
        BY <2>0, <3>3, <3>4 DEF Has
      <3> QED
        BY <3>2, <3>4 DEF Entered
    <2> QED
      BY <2>0, <2>1, <2>2
  <1> QED
    BY <1>1, <1>2, RowEffect DEF Effect

LEMMA RowStepCount ==
    ASSUME IngestTypes, CountInv, scans' = scans, NEW s \in Nat, NEW kind \in Kinds,
           NEW c \in FindingIDs \cup {NoFinding}, RowStep(s, kind, c)
    PROVE  CountInv'
  <1>0. Scans' = Scans /\ s \in Scans
    BY DEF Scans, RowStep
  <1>1. CASE UNCHANGED <<log, findings>>
    BY <1>0, <1>1 DEF CountInv, SeenBad, Has
  <1>2. CASE Effect(s, kind, c)
    <2>1. NewRow(s, kind, c)
      BY <1>2 DEF Effect
    <2>2. ASSUME NEW d \in FindingIDs, d # c \/ kind # "observed"
          PROVE  SeenBad(d)' = SeenBad(d)
      <3>1. ASSUME NEW t \in Scans PROVE Has(Id(t, "observed", d))' <=> Has(Id(t, "observed", d))
        BY <2>1, <2>2, NewIds, IdsDiffer
      <3> QED
        BY <1>0, <3>1 DEF SeenBad
    <2>3. ASSUME NEW d \in FindingIDs, d # c \/ kind # "observed"
          PROVE  /\ findings'[d].occurrences = Cardinality(SeenBad(d)')
                 /\ findings'[d].state = "absent" => findings'[d].occurrences = 0
      <3>1. /\ findings'[d].occurrences = findings[d].occurrences
            /\ findings'[d].state = "absent" => findings[d].state = "absent"
        BY <1>2, <2>3 DEF Effect
      <3>2. SeenBad(d)' = SeenBad(d)
        BY <2>2, <2>3
      <3> QED
        BY <3>1, <3>2 DEF CountInv
    <2>4. CASE kind = "observed"
      <3>1. c \in FindingIDs /\ scans[s][c] \in Bad
        BY <2>4 DEF RowStep
      <3>2. SeenBad(c)' = SeenBad(c) \cup {s} /\ s \notin SeenBad(c)
        <4>1. ASSUME NEW t \in Scans
              PROVE  Has(Id(t, "observed", c))' <=> Has(Id(t, "observed", c)) \/ t = s
          BY <2>1, <2>4, NewIds, IdsDiffer
        <4>2. ~Has(Id(s, "observed", c))
          BY <2>1, <2>4 DEF NewRow
        <4> QED
          BY <1>0, <3>1, <4>1, <4>2 DEF SeenBad
      <3>3. IsFiniteSet(SeenBad(c))
        <4>1. IsFiniteSet(Scans)
          BY FS_Interval DEF Scans, IngestTypes
        <4> QED
          BY <4>1, FS_Subset DEF SeenBad
      <3>4. Cardinality(SeenBad(c)') = Cardinality(SeenBad(c)) + 1
        BY <3>2, <3>3, FS_AddElement
      <3>5. /\ findings'[c].occurrences = findings[c].occurrences + 1
            /\ findings'[c].state # "absent"
        BY <1>2, <2>4, <3>1 DEF Effect, CountInv, Clear
      <3>6. findings'[c].occurrences = Cardinality(SeenBad(c)')
        BY <3>1, <3>4, <3>5 DEF CountInv
      <3> QED
        BY <2>3, <3>5, <3>6 DEF CountInv
    <2>5. CASE kind # "observed"
      BY <2>3, <2>5 DEF CountInv
    <2> QED
      BY <2>4, <2>5
  <1> QED
    BY <1>1, <1>2, RowEffect

LEMMA RowStepTurns ==
    ASSUME IngestTypes, RowsInv, TurnsInv, scans' = scans, NEW s \in Nat, NEW kind \in Kinds,
           NEW c \in FindingIDs \cup {NoFinding}, RowStep(s, kind, c)
    PROVE  TurnsInv'
  <1> SUFFICES ASSUME Serialised, NEW d \in FindingIDs
               PROVE  /\ Has(Id(s, "observed", d))' => ~(Clear(d)')
                      /\ Has(Id(s, "resolved", d))' => Clear(d)'
                      /\ Has(Id(s, "scan.completed", NoFinding))' /\ scans[s][d] = "ok" =>
                            Clear(d)'
    BY DEF TurnsInv, RowStep
  <1>0. /\ s = Len(scans) /\ s \in Scans /\ scans # << >>
        /\ Has(Id(s, "observed", d)) => ~Clear(d) /\ scans[s][d] \in Bad
        /\ Has(Id(s, "resolved", d)) => Clear(d) /\ scans[s][d] = "ok"
        /\ Has(Id(s, "scan.completed", NoFinding)) /\ scans[s][d] = "ok" => Clear(d)
    BY DEF TurnsInv, RowsInv, RowStep, Scans
  <1>1. CASE UNCHANGED <<log, findings>>
    BY <1>0, <1>1 DEF Has, Clear
  <1>2. CASE Effect(s, kind, c)
    <2>1. NewRow(s, kind, c)
      BY <1>2 DEF Effect
    <2>2. /\ Has(Id(s, "observed", d))' => Has(Id(s, "observed", d)) \/ (kind = "observed" /\ d = c)
          /\ Has(Id(s, "resolved", d))' => Has(Id(s, "resolved", d)) \/ (kind = "resolved" /\ d = c)
          /\ Has(Id(s, "scan.completed", NoFinding))' =>
                Has(Id(s, "scan.completed", NoFinding)) \/ kind = "scan.completed"
      BY <2>1, NewIds, IdsDiffer
    <2>3. "ok" \notin Bad
      BY DEF Bad
    <2>4. CASE kind = "observed" /\ d = c
      BY <1>0, <1>2, <2>2, <2>3, <2>4 DEF Effect, RowStep
    <2>5. CASE kind = "resolved" /\ d = c
      <3>1. Clear(d)' /\ scans[s][d] = "ok"
        BY <1>2, <2>5 DEF Effect, Clear, RowStep
      <3> QED
        BY <1>0, <2>2, <2>3, <2>5, <3>1
    <2>6. CASE d # c \/ kind \notin {"observed", "resolved"}
      <3>1. Clear(d)' <=> Clear(d)
        BY <1>2, <2>6 DEF Effect, Clear
      <3> QED
        BY <1>0, <2>2, <2>6, <3>1 DEF RowStep
    <2> QED
      BY <2>4, <2>5, <2>6
  <1> QED
    BY <1>1, <1>2, RowEffect

\* A clean check of the last snapshot that has no finding keeps none.
LEMMA ClearStays ==
    ASSUME IngestTypes, NEW s \in Nat, NEW kind \in Kinds, NEW c \in FindingIDs \cup {NoFinding},
           RowStep(s, kind, c), NEW d \in FindingIDs, scans[s][d] = "ok", Clear(d)
    PROVE  Clear(d)'
  <1>1. CASE UNCHANGED findings
    BY <1>1 DEF Clear
  <1>2. CASE Effect(s, kind, c)
    BY <1>2 DEF Effect, Clear, RowStep, Bad
  <1> QED
    BY <1>1, <1>2, RowEffect

-----------------------------------------------------------------------------
(***************************************************************************)
(* Where the ingesters are                                                 *)
(***************************************************************************)
RowsMove ==
    \/ UNCHANGED <<log, findings>>
    \/ \E s \in Nat : \E kind \in Kinds : \E c \in FindingIDs \cup {NoFinding} :
          RowStep(s, kind, c)

LEMMA RowsMoveKeeps ==
    ASSUME IngestTypes, RowsMove
    PROVE  /\ \A id : Has(id) => Has(id)'
           /\ Serialised => \A d \in FindingIDs :
                 scans[Len(scans)][d] = "ok" /\ Clear(d) => Clear(d)'
           /\ log' \in Seq(Rows) /\ findings' \in Views
  <1>1. CASE UNCHANGED <<log, findings>>
    BY <1>1 DEF Has, Clear, IngestTypes
  <1>2. ASSUME NEW s \in Nat, NEW kind \in Kinds, NEW c \in FindingIDs \cup {NoFinding},
               RowStep(s, kind, c)
        PROVE  /\ \A id : Has(id) => Has(id)'
               /\ Serialised => \A d \in FindingIDs :
                     scans[Len(scans)][d] = "ok" /\ Clear(d) => Clear(d)'
               /\ log' \in Seq(Rows) /\ findings' \in Views
    <2>1. \A id : Has(id) => Has(id)'
      BY <1>2, HasStays
    <2>2. Serialised => \A d \in FindingIDs :
             scans[Len(scans)][d] = "ok" /\ Clear(d) => Clear(d)'
      <3>1. Serialised => s = Len(scans)
        BY <1>2 DEF RowStep
      <3> QED
        BY <1>2, <3>1, ClearStays
    <2>3. log' \in Seq(Rows) /\ findings' \in Views
      BY <1>2, RowEffect DEF Effect, NewRow, IngestTypes
    <2> QED
      BY <2>1, <2>2, <2>3
  <1> QED
    BY <1>1, <1>2 DEF RowsMove

LEMMA CheckOrderFacts ==
    /\ Len(CheckOrder) \in Nat \ {0}
    /\ \A k \in 1..Len(CheckOrder) : CheckOrder[k] \in FindingIDs
    /\ \A c \in FindingIDs : \E k \in 1..Len(CheckOrder) : CheckOrder[k] = c
  BY CheckOrderAssumption

\* An ingest that does not move stays where it is.
LEMMA AtStays ==
    ASSUME IngestTypes, RowsMove, scans' = scans, NEW r \in Place, At(r) PROVE At(r)'
  <1>1. \A id : Has(id) => Has(id)'
    BY RowsMoveKeeps
  <1>2. \A c \in FindingIDs : Entered(r.scan, c) => Entered(r.scan, c)'
    BY <1>1 DEF Entered
  <1> QED
    BY <1>1, <1>2, CheckOrderFacts DEF At, Scans

LEMMA AtTurnStays ==
    ASSUME IngestTypes, RowsMove, scans' = scans, Serialised, NEW r \in Place, AtTurn(r)
    PROVE  AtTurn(r)'
  <1>1. \A d \in FindingIDs : scans[Len(scans)][d] = "ok" /\ Clear(d) => Clear(d)'
    BY RowsMoveKeeps
  <1> QED
    BY <1>1, CheckOrderFacts DEF AtTurn

LEMMA OneMoves ==
    ASSUME IngestTypes, PlaceInv, RowsMove, scans' = scans, NEW i \in Ingesters,
           NEW new \in Place, ing' = [ing EXCEPT ![i] = new],
           new.pc = "idle" => new = Idle, At(new)', Serialised => AtTurn(new)'
    PROVE  PlaceInv' /\ ing' \in [Ingesters -> Place]
  <1>1. /\ ing' \in [Ingesters -> Place] /\ ing'[i] = new
        /\ \A j \in Ingesters \ {i} : ing'[j] = ing[j] /\ ing[j] \in Place
    BY DEF IngestTypes
  <1>2. ASSUME NEW j \in Ingesters \ {i}
        PROVE  /\ At(ing[j])' /\ (Serialised => AtTurn(ing[j])')
               /\ ing'[j].pc = "idle" => ing'[j] = Idle
    <2> DEFINE r == ing[j]
    <2>1. r \in Place /\ At(r) /\ (Serialised => AtTurn(r)) /\ ing'[j] = r
      BY <1>1 DEF PlaceInv
    <2>2. ASSUME NEW q \in Place, q = r PROVE At(q)' /\ (Serialised => AtTurn(q)')
      BY <2>1, <2>2, AtStays, AtTurnStays
    <2>3. ASSUME NEW q \in Place, q = ing'[j], At(q)', Serialised => AtTurn(q)'
          PROVE  At(ing[j])' /\ (Serialised => AtTurn(ing[j])')
      BY <2>3 DEF At, AtTurn
    <2>4. r \in Place /\ (r.pc = "idle" => r = Idle)
      BY <2>1 DEF PlaceInv
    <2> QED
      BY <2>1, <2>2, <2>3, <2>4
  <1>3. ASSUME NEW q \in Place, q = ing'[i], At(q)', Serialised => AtTurn(q)'
        PROVE  At(ing[i])' /\ (Serialised => AtTurn(ing[i])')
    BY <1>3 DEF At, AtTurn
  <1>4. /\ At(ing[i])' /\ (Serialised => AtTurn(ing[i])')
        /\ ing'[i].pc = "idle" => ing'[i] = Idle
    BY <1>1, <1>3
  <1> QED
    BY <1>1, <1>2, <1>4 DEF PlaceInv

\* An ingest that ends.
LEMMA EndMoves ==
    ASSUME IngestTypes, PlaceInv, RowsMove, scans' = scans, NEW i \in Ingesters,
           ing' = [ing EXCEPT ![i] = Idle]
    PROVE  PlaceInv' /\ ing' \in [Ingesters -> Place]
  <1>1. Idle \in Place /\ Idle.pc = "idle"
    BY CheckOrderFacts DEF Idle, Place
  <1>2. At(Idle)' /\ AtTurn(Idle)'
    BY <1>1 DEF At, AtTurn, Idle
  <1> QED
    BY <1>1, <1>2, OneMoves

\* On to the next result, now that the rows of this one are there.
LEMMA NextMoves ==
    ASSUME IngestTypes, PlaceInv, RowsMove, scans' = scans, NEW i \in Ingesters,
           ing[i].pc \in {"result", "switch", "resolve"}, NextResult(i),
           NEW s, NEW c, NEW r, r = ing[i], s = r.scan, c = Check(i), Entered(s, c)',
           Serialised /\ scans[s][c] = "ok" => Clear(c)'
    PROVE  PlaceInv' /\ ing' \in [Ingesters -> Place]
  <1> DEFINE n == r.idx
             pc == IF n = Len(CheckOrder) THEN "complete" ELSE "result"
             new == [[r EXCEPT !.idx = n + 1] EXCEPT !.pc = pc]
  <1>1. /\ ing[i] \in Place /\ At(ing[i]) /\ (Serialised => AtTurn(ing[i]))
        /\ n \in 1..Len(CheckOrder) /\ s \in Scans /\ s \in Nat /\ Len(CheckOrder) \in Nat
    <2>1. ing[i] \in Place /\ At(ing[i]) /\ (Serialised => AtTurn(ing[i]))
      BY DEF IngestTypes, PlaceInv
    <2> QED
      BY <2>1, CheckOrderFacts DEF At, Place, Scans
  <1>2. ing' = [ing EXCEPT ![i] = new]
    <2>1. ing' = [[ing EXCEPT ![i] = [r EXCEPT !.idx = n + 1]] EXCEPT ![i].pc = pc]
      BY DEF NextResult, IngestTypes
    <2> HIDE DEF pc
    <2> QED
      BY <2>1 DEF IngestTypes
  <1>3. /\ new \in Place /\ new.pc \in {"complete", "result"} /\ new.scan = s
        /\ new.idx = n + 1
        /\ new.pc = "complete" <=> new.idx = Len(CheckOrder) + 1
    <2>1. /\ pc \in {"complete", "result"} /\ (pc = "complete" <=> n = Len(CheckOrder))
          /\ n + 1 \in 0..(Len(CheckOrder) + 1)
          /\ n = Len(CheckOrder) <=> n + 1 = Len(CheckOrder) + 1
      BY <1>1
    <2> HIDE DEF pc
    <2>2. new \in Place /\ new.pc = pc /\ new.scan = s /\ new.idx = n + 1
      BY <1>1, <2>1 DEF Place
    <2> QED
      BY <2>1, <2>2
  <1>4. \A k \in 1..Len(CheckOrder) : k < n + 1 => k < n \/ k = n
    BY <1>1
  <1>5. /\ c = CheckOrder[n]
        /\ \A k \in 1..Len(CheckOrder) : k < n => Entered(s, CheckOrder[k])
        /\ \A k \in 1..Len(CheckOrder) : Serialised /\ k < n /\ scans[s][CheckOrder[k]] = "ok" =>
              Clear(CheckOrder[k])
        /\ Serialised => s = Len(scans)
    BY <1>1 DEF At, AtTurn, Check
  <1> HIDE DEF new
  <1>6. /\ \A id : Has(id) => Has(id)'
        /\ Serialised => \A d \in FindingIDs :
              scans[Len(scans)][d] = "ok" /\ Clear(d) => Clear(d)'
    BY RowsMoveKeeps
  <1>7. \A k \in 1..Len(CheckOrder) : k < n + 1 => Entered(s, CheckOrder[k])'
    BY <1>4, <1>5, <1>6 DEF Entered
  <1>8. At(new)'
    BY <1>1, <1>3, <1>7 DEF At, Scans
  <1>9. Serialised => \A k \in 1..Len(CheckOrder) :
            k < n + 1 /\ scans[s][CheckOrder[k]] = "ok" => Clear(CheckOrder[k])'
    BY <1>4, <1>5, <1>6, CheckOrderFacts
  <1>10. Serialised => AtTurn(new)'
    BY <1>3, <1>5, <1>9 DEF AtTurn
  <1> QED
    BY <1>2, <1>3, <1>8, <1>10, OneMoves

\* Within the handling of one result.
LEMMA GotoMoves ==
    ASSUME IngestTypes, PlaceInv, RowsMove, scans' = scans, NEW i \in Ingesters,
           ing[i].pc \in {"result", "switch"}, NEW pc \in {"switch", "resolve"}, Goto(i, pc),
           NEW s, NEW c, s = ing[i].scan, c = Check(i), Has(Id(s, "check.result", c))',
           pc = "resolve" => scans[s][c] = "ok"
    PROVE  PlaceInv' /\ ing' \in [Ingesters -> Place]
  <1> DEFINE r == ing[i]
             new == [r EXCEPT !.pc = pc]
  <1>1. r \in Place /\ At(r) /\ (Serialised => AtTurn(r))
    BY DEF IngestTypes, PlaceInv
  <1>2. ing' = [ing EXCEPT ![i] = new]
    BY DEF Goto, IngestTypes
  <1>3. new \in Place /\ new.pc = pc /\ new.scan = s /\ new.idx = r.idx
    BY <1>1 DEF Place
  <1>4. /\ s \in Scans /\ r.idx \in 1..(Len(CheckOrder) + 1) /\ r.idx # Len(CheckOrder) + 1
        /\ c = CheckOrder[r.idx]
        /\ \A k \in 1..Len(CheckOrder) : k < r.idx => Entered(s, CheckOrder[k])
    BY <1>1 DEF At, Check
  <1> DEFINE n == r.idx
  <1>5. ASSUME NEW m \in Nat, m = n, NEW q \in Place, q = new
        PROVE  At(q)' /\ (Serialised => AtTurn(q)')
    <2>1. \A id : Has(id) => Has(id)'
      BY RowsMoveKeeps
    <2>2. \A k \in 1..Len(CheckOrder) : k < m => Entered(s, CheckOrder[k])'
      BY <1>4, <1>5, <2>1 DEF Entered
    <2>3. q.pc = pc /\ q.scan = s /\ q.idx = m
      BY <1>3, <1>5
    <2>4. /\ s \in Scans' /\ m \in 1..(Len(CheckOrder) + 1) /\ m # Len(CheckOrder) + 1
          /\ c = CheckOrder[m]
      BY <1>4, <1>5 DEF Scans
    <2> HIDE DEF new, r, n
    <2>5. At(q)'
      BY <2>2, <2>3, <2>4 DEF At
    <2>6. ASSUME Serialised PROVE AtTurn(q)'
      <3>1. /\ s = Len(scans)
            /\ \A k \in 1..Len(CheckOrder) : k < m /\ scans[s][CheckOrder[k]] = "ok" =>
                   Clear(CheckOrder[k])
        BY <1>1, <1>5, <2>6 DEF AtTurn, r, n
      <3>2. \A d \in FindingIDs : scans[Len(scans)][d] = "ok" /\ Clear(d) => Clear(d)'
        BY <2>6, RowsMoveKeeps
      <3> QED
        BY <2>3, <3>1, <3>2, CheckOrderFacts DEF AtTurn
    <2> QED
      BY <2>5, <2>6
  <1>6. n \in Nat
    BY <1>1, CheckOrderFacts DEF Place
  <1> HIDE DEF new, n
  <1>7. PICK q \in Place : q = new
    BY <1>3
  <1>8. At(q)' /\ (Serialised => AtTurn(q)')
    BY <1>5, <1>6, <1>7
  <1> QED
    BY <1>2, <1>3, <1>7, <1>8, OneMoves

-----------------------------------------------------------------------------
(***************************************************************************)
(* Every step keeps the invariant                                          *)
(***************************************************************************)
\* Whatever was appended, what is left to show is where the ingesters are.
LEMMA RowsMoveInv ==
    ASSUME IngestInv, RowsMove, scans' = scans, crashes' \in 0..MaxCrashes,
           PlaceInv', ing' \in [Ingesters -> Place]
    PROVE  IngestInv'
  <1>1. IngestTypes'
    <2>1. log' \in Seq(Rows) /\ findings' \in Views
      BY RowsMoveKeeps DEF IngestInv
    <2> QED
      BY <2>1 DEF IngestInv, IngestTypes
  <1>2. RowsInv' /\ CompleteInv' /\ CountInv' /\ TurnsInv'
    <2>1. CASE UNCHANGED <<log, findings>>
      BY <2>1 DEF IngestInv, RowsInv, CompleteInv, CountInv, TurnsInv, SeenBad, Has, Clear, Scans
    <2>2. ASSUME NEW s \in Nat, NEW kind \in Kinds, NEW c \in FindingIDs \cup {NoFinding},
                 RowStep(s, kind, c)
          PROVE  RowsInv' /\ CompleteInv' /\ CountInv' /\ TurnsInv'
      BY <2>2, RowStepRows, RowStepComplete, RowStepCount, RowStepTurns DEF IngestInv
    <2> QED
      BY <2>1, <2>2 DEF RowsMove
  <1> QED
    BY <1>1, <1>2 DEF IngestInv

\* What an ingester in its loop knows of the result it is at.
LEMMA Here ==
    ASSUME IngestInv, NEW i \in Ingesters, ing[i].pc \in {"result", "switch", "resolve"}
    PROVE  /\ ing[i].scan \in Scans /\ ing[i].scan \in Nat
           /\ Serialised => ing[i].scan = Len(scans)
           /\ Check(i) \in FindingIDs
           /\ Status(i) = scans[ing[i].scan][Check(i)]
           /\ Status(i) \in Statuses \cup {"none"}
           /\ ing[i].pc \in {"switch", "resolve"} => Has(Id(ing[i].scan, "check.result", Check(i)))
           /\ ing[i].pc = "resolve" => Status(i) = "ok"
  <1>1. ing[i] \in Place /\ At(ing[i]) /\ (Serialised => AtTurn(ing[i]))
    BY DEF IngestInv, IngestTypes, PlaceInv
  <1>2. ing[i].scan \in Scans /\ ing[i].scan \in Nat /\ (Serialised => ing[i].scan = Len(scans))
    BY <1>1 DEF At, AtTurn, Place
  <1>3. ing[i].idx \in 1..Len(CheckOrder)
    BY <1>1, CheckOrderFacts DEF At, Place
  <1>4. Check(i) \in FindingIDs
    BY <1>3, CheckOrderFacts DEF Check
  <1>5. Status(i) = scans[ing[i].scan][Check(i)]
    BY DEF Status, Check
  <1>6. scans[ing[i].scan] \in [FindingIDs -> Statuses \cup {"none"}]
    BY <1>2 DEF Scans, IngestInv, IngestTypes
  <1>7. /\ ing[i].pc \in {"switch", "resolve"} => Has(Id(ing[i].scan, "check.result", Check(i)))
        /\ ing[i].pc = "resolve" => Status(i) = "ok"
    BY <1>1 DEF At, Check, Status
  <1> QED
    BY <1>2, <1>4, <1>5, <1>6, <1>7

LEMMA StartStep ==
    ASSUME IngestInv, NEW i \in Ingesters, Start(i) PROVE IngestInv'
  <1> DEFINE new == [pc |-> "result", scan |-> Len(scans), idx |-> 1]
  <1>1. Len(scans) \in Nat /\ Len(scans) \in Scans
    BY DEF Start, IngestInv, IngestTypes, Scans
  <1>2. new \in Place /\ new.pc = "result" /\ new.scan = Len(scans) /\ new.idx = 1
    BY <1>1, CheckOrderFacts DEF Place
  <1>3. ASSUME NEW q \in Place, q = new PROVE At(q)' /\ AtTurn(q)'
    <2>1. q.pc = "result" /\ q.scan = Len(scans') /\ q.scan \in Scans' /\ q.idx = 1
      BY <1>1, <1>2, <1>3 DEF Start, Scans
    <2>2. 1 # Len(CheckOrder) + 1 /\ 1 \in 1..(Len(CheckOrder) + 1)
          /\ \A k \in 1..Len(CheckOrder) : ~(k < 1)
      BY CheckOrderFacts
    <2> QED
      BY <2>1, <2>2 DEF At, AtTurn
  <1> HIDE DEF new
  <1>4. PICK q \in Place : q = new
    BY <1>2
  <1>5. /\ ing' = [ing EXCEPT ![i] = q] /\ scans' = scans /\ RowsMove
        /\ crashes' \in 0..MaxCrashes /\ q.pc # "idle"
    BY <1>2, <1>4 DEF Start, RowsMove, IngestInv, IngestTypes, new
  <1>6. PlaceInv' /\ ing' \in [Ingesters -> Place]
    BY <1>3, <1>4, <1>5, OneMoves DEF IngestInv
  <1> QED
    BY <1>5, <1>6, RowsMoveInv

LEMMA AppendCheckResultStep ==
    ASSUME IngestInv, NEW i \in Ingesters, AppendCheckResult(i) PROVE IngestInv'
  <1>0. /\ ing[i].pc = "result" /\ scans' = scans /\ crashes' \in 0..MaxCrashes
        /\ IngestTypes /\ PlaceInv
    BY DEF AppendCheckResult, IngestInv, IngestTypes
  <1>1. PICK s, c, r : r = ing[i] /\ s = r.scan /\ c = Check(i)
    OBVIOUS
  <1>2. /\ s \in Scans /\ s \in Nat /\ (Serialised => s = Len(scans)) /\ c \in FindingIDs
        /\ Status(i) = scans[s][c]
    BY <1>0, <1>1, Here
  <1>3. CASE Status(i) = "none"
    <2>1. RowsMove /\ NextResult(i)
      BY <1>3 DEF AppendCheckResult, RowsMove
    <2>2. Entered(s, c)' /\ scans[s][c] # "ok"
      BY <1>0, <1>2, <1>3 DEF Entered, Bad
    <2>3. PlaceInv' /\ ing' \in [Ingesters -> Place]
      BY <1>0, <1>1, <2>1, <2>2, NextMoves
    <2> QED
      BY <1>0, <2>1, <2>3, RowsMoveInv
  <1>4. CASE Status(i) # "none"
    <2>1. Goto(i, "switch") /\ AppendRow(BridgeEvent(s, "check.result", c))
      BY <1>1, <1>4 DEF AppendCheckResult, CheckResult
    <2>2. RowStep(s, "check.result", c) /\ "check.result" \in Kinds
      BY <1>2, <2>1 DEF RowStep, Kinds
    <2>3. RowsMove
      BY <1>2, <2>2 DEF RowsMove
    <2>4. Has(Id(s, "check.result", c))'
      BY <1>0, <1>2, <2>2, RowThere
    <2>5. PlaceInv' /\ ing' \in [Ingesters -> Place]
      BY <1>0, <1>1, <2>1, <2>3, <2>4, GotoMoves
    <2> QED
      BY <1>0, <2>3, <2>5, RowsMoveInv
  <1> QED
    BY <1>3, <1>4

LEMMA SwitchStatusStep ==
    ASSUME IngestInv, NEW i \in Ingesters, SwitchStatus(i) PROVE IngestInv'
  <1>0. /\ ing[i].pc = "switch" /\ scans' = scans /\ crashes' \in 0..MaxCrashes
        /\ IngestTypes /\ PlaceInv
    BY DEF SwitchStatus, IngestInv, IngestTypes
  <1>1. PICK s, c, r : r = ing[i] /\ s = r.scan /\ c = Check(i)
    OBVIOUS
  <1>2. /\ s \in Scans /\ s \in Nat /\ (Serialised => s = Len(scans)) /\ c \in FindingIDs
        /\ Status(i) = scans[s][c] /\ Has(Id(s, "check.result", c))
    BY <1>0, <1>1, Here
  <1>3. CASE Status(i) \in Bad /\ AppendRow(BridgeEvent(s, "observed", c)) /\ NextResult(i)
    <2>1. RowStep(s, "observed", c) /\ "observed" \in Kinds
      BY <1>2, <1>3 DEF RowStep, Kinds
    <2>2. RowsMove
      BY <1>2, <2>1 DEF RowsMove
    <2>3. Has(Id(s, "observed", c))' /\ Has(Id(s, "check.result", c))'
      BY <1>0, <1>2, <2>1, <2>2, RowThere, RowsMoveKeeps
    <2>4. Entered(s, c)' /\ scans[s][c] # "ok"
      BY <1>2, <1>3, <2>3 DEF Entered, Bad
    <2>5. PlaceInv' /\ ing' \in [Ingesters -> Place]
      BY <1>0, <1>1, <1>3, <2>2, <2>4, NextMoves
    <2> QED
      BY <1>0, <2>2, <2>5, RowsMoveInv
  <1>4. ASSUME UNCHANGED <<log, findings>>, Status(i) \notin Bad, NextResult(i),
               Status(i) = "ok" => Clear(c)
        PROVE  IngestInv'
    <2>1. RowsMove
      BY <1>4 DEF RowsMove
    <2>2. Entered(s, c)' /\ (Serialised /\ scans[s][c] = "ok" => Clear(c)')
      BY <1>0, <1>2, <1>4 DEF Entered, Has, Clear
    <2>3. PlaceInv' /\ ing' \in [Ingesters -> Place]
      BY <1>0, <1>1, <1>4, <2>1, <2>2, NextMoves
    <2> QED
      BY <1>0, <2>1, <2>3, RowsMoveInv
  <1>5. CASE UNCHANGED <<log, findings>> /\ Status(i) = "ok" /\ Goto(i, "resolve")
    <2>1. RowsMove /\ Has(Id(s, "check.result", c))'
      BY <1>2, <1>5 DEF RowsMove, Has
    <2>2. PlaceInv' /\ ing' \in [Ingesters -> Place]
      BY <1>0, <1>1, <1>2, <1>5, <2>1, GotoMoves
    <2> QED
      BY <1>0, <2>1, <2>2, RowsMoveInv
  <1> QED
    BY <1>1, <1>3, <1>4, <1>5 DEF SwitchStatus, FindingObserved, Resolves, Clear, Bad

LEMMA AppendResolvedStep ==
    ASSUME IngestInv, NEW i \in Ingesters, AppendResolved(i) PROVE IngestInv'
  <1>0. /\ ing[i].pc = "resolve" /\ scans' = scans /\ crashes' \in 0..MaxCrashes
        /\ IngestTypes /\ PlaceInv
    BY DEF AppendResolved, IngestInv, IngestTypes
  <1>1. PICK s, c, r : r = ing[i] /\ s = r.scan /\ c = Check(i)
    OBVIOUS
  <1>2. /\ s \in Scans /\ s \in Nat /\ (Serialised => s = Len(scans)) /\ c \in FindingIDs
        /\ scans[s][c] = "ok" /\ Has(Id(s, "check.result", c))
    BY <1>0, <1>1, Here
  <1>3. CASE UNCHANGED <<log, findings>> /\ ing' = [ing EXCEPT ![i] = Idle]
    <2>1. RowsMove
      BY <1>3 DEF RowsMove
    <2>2. PlaceInv' /\ ing' \in [Ingesters -> Place]
      BY <1>0, <1>3, <2>1, EndMoves
    <2> QED
      BY <1>0, <2>1, <2>2, RowsMoveInv
  <1>4. CASE AppendRow(BridgeEvent(s, "resolved", c)) /\ NextResult(i)
    <2>1. RowStep(s, "resolved", c) /\ "resolved" \in Kinds
      BY <1>2, <1>4 DEF RowStep, Kinds
    <2>2. RowsMove
      BY <1>2, <2>1 DEF RowsMove
    <2>3. Entered(s, c)'
      <3>1. Has(Id(s, "check.result", c))'
        BY <1>0, <1>2, <2>2, RowsMoveKeeps
      <3> QED
        BY <1>0, <1>2, <3>1 DEF Entered, Bad
    <2>4. Serialised => Clear(c)'
      <3>1. CASE Has(Id(s, "resolved", c)) /\ UNCHANGED findings
        BY <1>2, <3>1 DEF IngestInv, TurnsInv, Clear
      <3>2. CASE Effect(s, "resolved", c)
        BY <1>2, <3>2 DEF Effect, Clear
      <3> QED
        BY <1>0, <1>2, <2>1, <3>1, <3>2, RowEffect
    <2>5. PlaceInv' /\ ing' \in [Ingesters -> Place]
      BY <1>0, <1>1, <1>4, <2>2, <2>3, <2>4, NextMoves
    <2> QED
      BY <1>0, <2>2, <2>5, RowsMoveInv
  <1> QED
    BY <1>1, <1>3, <1>4 DEF AppendResolved, FindingResolved

\* Past the last result, every result of the snapshot has its rows.
LEMMA CompleteStep ==
    ASSUME IngestInv, NEW i \in Ingesters, Complete(i) PROVE IngestInv'
  <1>0. /\ ing[i].pc = "complete" /\ scans' = scans /\ crashes' \in 0..MaxCrashes
        /\ ing' = [ing EXCEPT ![i] = Idle] /\ IngestTypes /\ PlaceInv
    BY DEF Complete, IngestInv, IngestTypes
  <1>1. PICK s : s = ing[i].scan
    OBVIOUS
  <1>2. ing[i] \in Place /\ At(ing[i]) /\ (Serialised => AtTurn(ing[i]))
    BY <1>0 DEF IngestTypes, PlaceInv
  <1>3. /\ s \in Scans /\ s \in Nat /\ (Serialised => s = Len(scans))
        /\ ing[i].idx = Len(CheckOrder) + 1
    BY <1>0, <1>1, <1>2 DEF At, AtTurn, Place
  <1>4. ASSUME NEW d \in FindingIDs
        PROVE  Entered(s, d) /\ (Serialised /\ scans[s][d] = "ok" => Clear(d))
    <2>1. PICK k \in 1..Len(CheckOrder) : CheckOrder[k] = d
      BY CheckOrderFacts
    <2>2. k < ing[i].idx
      BY <1>3, <2>1, CheckOrderFacts
    <2> QED
      BY <1>0, <1>1, <1>2, <2>1, <2>2 DEF At, AtTurn
  <1>5. RowStep(s, "scan.completed", NoFinding) /\ "scan.completed" \in Kinds
    BY <1>1, <1>3, <1>4 DEF RowStep, Kinds, Complete, ScanCompleted
  <1>6. RowsMove
    BY <1>3, <1>5 DEF RowsMove
  <1>7. PlaceInv' /\ ing' \in [Ingesters -> Place]
    BY <1>0, <1>6, EndMoves
  <1> QED
    BY <1>0, <1>6, <1>7, RowsMoveInv

LEMMA CrashStep ==
    ASSUME IngestInv, NEW i \in Ingesters, Crash(i) PROVE IngestInv'
  <1>1. /\ RowsMove /\ scans' = scans /\ ing' = [ing EXCEPT ![i] = Idle]
        /\ crashes' \in 0..MaxCrashes /\ IngestTypes /\ PlaceInv
    BY BoundsAssumption DEF Crash, RowsMove, IngestInv, IngestTypes
  <1>2. PlaceInv' /\ ing' \in [Ingesters -> Place]
    BY <1>1, EndMoves
  <1> QED
    BY <1>1, <1>2, RowsMoveInv

\* A new snapshot has no rows yet.
LEMMA NewScanStep ==
    ASSUME IngestInv, NewScan PROVE IngestInv'
  <1> DEFINE N == Len(scans) + 1
  <1>1. PICK r \in [FindingIDs -> Statuses \cup {"none"}] : scans' = Append(scans, r)
    BY DEF NewScan
  <1>2. scans \in Seq([FindingIDs -> Statuses \cup {"none"}]) /\ Len(scans) \in Nat /\ N \in Nat
    BY DEF IngestInv, IngestTypes
  <1>3. /\ scans' \in Seq([FindingIDs -> Statuses \cup {"none"}]) /\ Len(scans') = N
        /\ \A s \in Scans : scans'[s] = scans[s]
        /\ Scans' = Scans \cup {N} /\ N \notin Scans /\ Scans \subseteq Nat
    BY <1>1, <1>2 DEF Scans
  <1>4. UNCHANGED <<log, findings, ing, crashes>>
    BY DEF NewScan
  <1>5. /\ \A id : Has(id)' <=> Has(id)
        /\ \A c \in FindingIDs : Clear(c)' <=> Clear(c)
        /\ \A s \in Scans : \A c \in FindingIDs : Entered(s, c)' <=> Entered(s, c)
    BY <1>3, <1>4 DEF Has, Clear, Entered
  <1>6. \A kind \in Kinds : \A c \in FindingIDs \cup {NoFinding} : ~Has(Id(N, kind, c))
    BY <1>2, <1>3 DEF IngestInv, RowsInv
  <1>7. "observed" \in Kinds /\ "resolved" \in Kinds /\ "scan.completed" \in Kinds
    BY DEF Kinds
  <1> HIDE DEF N
  <1>8. IngestTypes'
    BY <1>3, <1>4 DEF IngestInv, IngestTypes
  <1>9. PlaceInv'
    <2> SUFFICES ASSUME NEW i \in Ingesters
                 PROVE  /\ ing[i].pc = "idle" => ing[i] = Idle
                        /\ At(ing[i])'
                        /\ Serialised => AtTurn(ing[i])'
      BY <1>4 DEF PlaceInv
    <2>1. ing[i] \in Place /\ At(ing[i]) /\ (ing[i].pc = "idle" => ing[i] = Idle)
      BY DEF IngestInv, IngestTypes, PlaceInv
    <2>2. PICK q : q = ing[i] /\ q = ing'[i]
      BY <1>4
    <2>3. At(q)'
      BY <1>3, <1>5, <2>1, <2>2, CheckOrderFacts DEF At
    <2>4. Serialised => q.pc = "idle"
      BY <2>2 DEF NewScan, Idle
    <2>5. At(ing[i])' /\ (Serialised => AtTurn(ing[i])')
      BY <2>2, <2>3, <2>4 DEF At, AtTurn
    <2> QED
      BY <2>1, <2>5
  <1>10. RowsInv'
    BY <1>3, <1>5, <1>6, <1>7 DEF IngestInv, RowsInv
  <1>11. CompleteInv'
    <2> SUFFICES ASSUME NEW k \in 1..Len(log), NEW s \in Scans',
                        log[k].id = Id(s, "scan.completed", NoFinding), NEW c \in FindingIDs
                 PROVE  /\ scans'[s][c] # "none" =>
                              \E j \in 1..(k - 1) : log[j].id = Id(s, "check.result", c)
                        /\ scans'[s][c] \in Bad =>
                              \E j \in 1..(k - 1) : log[j].id = Id(s, "observed", c)
      BY <1>4 DEF CompleteInv
    <2>1. s \in Scans
      BY <1>3, <1>6, <1>7 DEF Has
    <2> QED
      BY <1>3, <2>1 DEF IngestInv, CompleteInv
  <1>12. CountInv'
    <2>1. ASSUME NEW c \in FindingIDs PROVE SeenBad(c)' = SeenBad(c)
      BY <1>3, <1>5, <1>6, <1>7 DEF SeenBad
    <2> QED
      BY <1>4, <2>1 DEF IngestInv, CountInv
  <1>13. TurnsInv'
    BY <1>3, <1>5, <1>6, <1>7 DEF TurnsInv
  <1> QED
    BY <1>8, <1>9, <1>10, <1>11, <1>12, <1>13 DEF IngestInv

LEMMA IngestStep ==
    ASSUME IngestInv, [Next]_vars PROVE IngestInv'
  <1>1. CASE NewScan
    BY <1>1, NewScanStep
  <1>2. ASSUME NEW i \in Ingesters, Start(i) \/ Proceed(i) \/ Crash(i) PROVE IngestInv'
    BY <1>2, StartStep, AppendCheckResultStep, SwitchStatusStep, AppendResolvedStep,
       CompleteStep, CrashStep DEF Proceed
  <1>3. CASE UNCHANGED vars
    <2>1. RowsMove /\ scans' = scans /\ crashes' \in 0..MaxCrashes /\ ing' = ing
      BY <1>3 DEF vars, RowsMove, IngestInv, IngestTypes
    <2>2. PlaceInv'
      BY <1>3 DEF vars, IngestInv, PlaceInv, At, AtTurn, Has, Entered, Clear, Scans
    <2> QED
      BY <2>1, <2>2, RowsMoveInv DEF IngestInv, IngestTypes
  <1> QED
    BY <1>1, <1>2, <1>3 DEF Next

LEMMA IngestInit ==
    Init => IngestInv
  <1> SUFFICES ASSUME Init PROVE IngestInv
    OBVIOUS
  <1>1. /\ scans = << >> /\ log = << >> /\ Len(scans) = 0 /\ Len(log) = 0 /\ crashes = 0
        /\ findings = EmptyView /\ ing = [i \in Ingesters |-> Idle]
    BY DEF Init
  <1>2. Scans = {} /\ \A id : ~Has(id)
    BY <1>1 DEF Scans, Has
  <1>3. Idle \in Place /\ Idle.pc = "idle"
    BY CheckOrderFacts DEF Idle, Place
  <1>4. /\ EmptyView \in Views
        /\ \A c \in FindingIDs : EmptyView[c].occurrences = 0 /\ EmptyView[c].state = "absent"
    <2>1. (CHOOSE v \in Severities : TRUE) \in Severities
      BY SeveritiesAssumption
    <2>2. Absent \in Finding /\ Absent.occurrences = 0 /\ Absent.state = "absent"
      BY <2>1 DEF Absent, Finding
    <2> QED
      BY <2>2 DEF EmptyView, Views
  <1>5. IngestTypes
    BY <1>1, <1>3, <1>4, BoundsAssumption DEF IngestTypes
  <1>6. PlaceInv
    BY <1>1, <1>3 DEF PlaceInv, At, AtTurn
  <1>7. RowsInv /\ CompleteInv /\ TurnsInv
    BY <1>1, <1>2 DEF RowsInv, CompleteInv, TurnsInv
  <1>8. CountInv
    <2>1. \A c \in FindingIDs : SeenBad(c) = {}
      BY <1>2 DEF SeenBad
    <2> QED
      BY <1>1, <1>4, <2>1, FS_EmptySet DEF CountInv
  <1> QED
    BY <1>5, <1>6, <1>7, <1>8 DEF IngestInv

-----------------------------------------------------------------------------
(***************************************************************************)
(* Theorems                                                                *)
(***************************************************************************)
\* The invariant holds in every reachable state of the ingesters and the journal.
THEOREM IngestInvariance == Spec => []IngestInv
  BY IngestInit, IngestStep, PTL DEF Spec

\* The snapshots, the rows and the ingesters of IngestScan keep their types.
THEOREM TypeCorrect == Spec => []TypeOK
  <1>1. IngestInv => TypeOK
    <2> SUFFICES ASSUME IngestInv PROVE TypeOK
      OBVIOUS
    <2>1. \A k \in 1..Len(log) : log[k].type \in LifecycleTypes \cup {"other"}
      <3>1. \A e \in Rows : e.type \in LifecycleTypes \cup {"other"}
        BY DEF Rows, BridgeEvent
      <3> QED
        BY <3>1 DEF IngestInv, IngestTypes
    <2>2. ing \in [Ingesters -> [pc : {"idle", "result", "switch", "resolve", "complete"},
                                 scan : 0..Len(scans), idx : 0..(Len(CheckOrder) + 1)]]
      <3> SUFFICES ASSUME NEW i \in Ingesters PROVE ing[i].scan \in 0..Len(scans)
        BY DEF IngestInv, IngestTypes, Place
      <3>1. Len(scans) \in Nat
        BY DEF IngestInv, IngestTypes
      <3>2. CASE ing[i].pc = "idle"
        BY <3>1, <3>2 DEF IngestInv, PlaceInv, Idle
      <3>3. CASE ing[i].pc # "idle"
        BY <3>1, <3>3 DEF IngestInv, PlaceInv, At, Scans
      <3> QED
        BY <3>2, <3>3
    <2> QED
      BY <2>1, <2>2 DEF IngestInv, IngestTypes, TypeOK
  <1> QED
    BY <1>1, IngestInvariance, PTL

\* A scan.completed row stands behind every row its snapshot calls for, however
\* many ingests of it were cut short, retried or run side by side.
THEOREM CompletedSnapshotsAreWhole == Spec => []CompletedIsComplete
  <1>1. IngestInv => CompletedIsComplete
    BY BridgeEventID DEF IngestInv, CompleteInv, CompletedIsComplete, ScanCompleted, CheckResult,
       FindingObserved
  <1> QED
    BY <1>1, IngestInvariance, PTL

\* The occurrences of a finding are the number of snapshots that observed it:
\* retries and concurrent ingests of a snapshot add nothing.
THEOREM OccurrencesCountSnapshots == Spec => []OncePerScan
  <1>1. IngestInv => OncePerScan
    <2> SUFFICES ASSUME IngestInv, NEW c \in FindingIDs
                 PROVE  findings[c].occurrences =
                           Cardinality({s \in Scans : scans[s][c] \in Bad
                                                      /\ Recorded(FindingObserved(s, c))})
      BY DEF OncePerScan
    <2>1. \A s \in Scans : Recorded(FindingObserved(s, c)) <=> Has(Id(s, "observed", c))
      BY RecordedHas DEF FindingObserved, Scans, Kinds
    <2>2. {s \in Scans : scans[s][c] \in Bad /\ Recorded(FindingObserved(s, c))} = SeenBad(c)
      BY <2>1 DEF SeenBad
    <2> QED
      BY <2>2 DEF IngestInv, CountInv
  <1> QED
    BY <1>1, IngestInvariance, PTL

\* When the scan lock is held until the ingest is over, a completely ingested
\* last snapshot and the projected findings agree check by check.
THEOREM FindingsMirrorLastScan ==
    ASSUME Serialised PROVE Spec => []MirrorsLastScan
  <1>1. IngestInv => MirrorsLastScan
    <2> SUFFICES ASSUME IngestInv, scans # << >>, Completed(Len(scans)), NEW c \in FindingIDs
                 PROVE  /\ scans[Len(scans)][c] \in Bad => ~Clear(c)
                        /\ scans[Len(scans)][c] = "ok" => Clear(c)
      BY DEF MirrorsLastScan, Clear
    <2>1. Len(scans) \in Nat /\ Len(scans) \in Scans /\ "scan.completed" \in Kinds
      BY DEF IngestInv, IngestTypes, Scans, Kinds
    <2>2. Has(Id(Len(scans), "scan.completed", NoFinding))
      BY <2>1, RecordedHas DEF Completed, ScanCompleted
    <2>3. scans[Len(scans)][c] \in Bad => Has(Id(Len(scans), "observed", c))
      <3>1. PICK k \in 1..Len(log) : log[k].id = Id(Len(scans), "scan.completed", NoFinding)
        BY <2>2 DEF Has
      <3>2. scans[Len(scans)][c] \in Bad =>
               \E j \in 1..(k - 1) : log[j].id = Id(Len(scans), "observed", c)
        BY <2>1, <3>1 DEF IngestInv, CompleteInv
      <3>3. 1..(k - 1) \subseteq 1..Len(log)
        BY DEF IngestInv, IngestTypes
      <3> QED
        BY <3>2, <3>3 DEF Has
    <2> QED
      BY <2>2, <2>3 DEF IngestInv, TurnsInv
  <1> QED
    BY <1>1, IngestInvariance, PTL

\* Neither a skipped nor a left-out check resolves a finding: only an ingest of a
\* snapshot that has the check as ok does.
THEOREM OnlyCleanChecksResolve == Spec => OnlyOKResolves
  <1>1. ASSUME IngestInv, [Next]_vars, NEW c \in FindingIDs,
               findings'[c].state = "resolved", findings[c].state # "resolved"
        PROVE  \E i \in Ingesters : ing[i].scan > 0 /\ scans[ing[i].scan][c] = "ok"
    <2>1. ASSUME NEW i \in Ingesters, ing[i].pc \in {"result", "switch", "resolve"},
                 NEW kind \in {"check.result", "observed", "resolved"},
                 AppendRow(BridgeEvent(ing[i].scan, kind, Check(i))),
                 kind = "observed" => Status(i) \in Bad,
                 kind = "resolved" => Status(i) = "ok"
          PROVE  ing[i].scan > 0 /\ scans[ing[i].scan][c] = "ok"
      <3>1. PICK s, d : s = ing[i].scan /\ d = Check(i)
        OBVIOUS
      <3>2. /\ s \in Scans /\ s \in Nat /\ (Serialised => s = Len(scans)) /\ d \in FindingIDs
            /\ Status(i) = scans[s][d] /\ kind \in Kinds
        <4>1. IngestInv /\ ing[i].pc \in {"result", "switch", "resolve"} /\ kind \in Kinds
          BY <1>1, <2>1 DEF Kinds
        <4> QED
          BY <3>1, <4>1, Here
      <3>3. RowStep(s, kind, d)
        BY <2>1, <3>1, <3>2 DEF RowStep
      <3>4. Effect(s, kind, d)
        <4>1. IngestTypes /\ d \in FindingIDs \cup {NoFinding} /\ findings' # findings
          BY <1>1, <3>2 DEF IngestInv
        <4> QED
          BY <3>2, <3>3, <4>1, RowEffect
      <3>5. kind = "resolved" /\ d = c
        BY <1>1, <3>2, <3>4 DEF Effect, Clear
      <3> QED
        BY <2>1, <3>1, <3>2, <3>5 DEF Scans
    <2>2. ASSUME NEW i \in Ingesters, Complete(i) PROVE FALSE
      <3>1. ing[i] \in Place /\ ing[i].scan \in Nat
        BY <1>1 DEF IngestInv, IngestTypes, Place
      <3>2. PICK s \in Nat : s = ing[i].scan
        BY <3>1
      <3>3. \/ UNCHANGED <<log, findings>>
            \/ findings' = Project(findings, Len(log) + 1,
                                   BridgeEvent(s, "scan.completed", NoFinding))
        BY <1>1, <2>2, <3>2, AppendEffect DEF Complete, ScanCompleted, IngestInv, Kinds
      <3>4. BridgeEvent(s, "scan.completed", NoFinding).type = "other"
        BY BridgeEventFields DEF Kinds, LifecycleTypes
      <3> QED
        BY <1>1, <3>3, <3>4 DEF Project, IsFindingLifecycle, LifecycleTypes
    <2>3. ASSUME NEW i \in Ingesters, AppendCheckResult(i)
          PROVE  ing[i].scan > 0 /\ scans[ing[i].scan][c] = "ok"
      BY <1>1, <2>1, <2>3 DEF AppendCheckResult, CheckResult
    <2>4. ASSUME NEW i \in Ingesters, SwitchStatus(i)
          PROVE  ing[i].scan > 0 /\ scans[ing[i].scan][c] = "ok"
      BY <1>1, <2>1, <2>4 DEF SwitchStatus, FindingObserved
    <2>5. ASSUME NEW i \in Ingesters, AppendResolved(i)
          PROVE  ing[i].scan > 0 /\ scans[ing[i].scan][c] = "ok"
      <3>1. Status(i) = "ok"
        BY <1>1, <2>5, Here DEF AppendResolved
      <3> QED
        BY <1>1, <2>1, <2>5, <3>1 DEF AppendResolved, FindingResolved
    <2>6. findings' # findings
      BY <1>1
    <2> QED
      BY <1>1, <2>2, <2>3, <2>4, <2>5, <2>6 DEF Next, Proceed, NewScan, Start, Crash, vars
  <1>2. ASSUME IngestInv, [Next]_vars
        PROVE  [\A c \in FindingIDs :
                  findings'[c].state = "resolved" /\ findings[c].state # "resolved"
                     => \E i \in Ingesters : ing[i].scan > 0 /\ scans[ing[i].scan][c] = "ok"]_vars
    BY <1>1, <1>2
  <1> QED
    BY <1>2, IngestInvariance, PTL DEF Spec, OnlyOKResolves
-----------------------------------------------------------------------------
(***************************************************************************)
(* Refinement.  An ingest submits one event per step at most, one that the *)
(* journal accepts; a row that is there already changes nothing.           *)
(***************************************************************************)
ScansInv == Len(scans) <= MaxScans

LEMMA ScansBounded ==
    ASSUME IngestInv, ScansInv, [Next]_vars PROVE ScansInv'
  <1>1. CASE NewScan
    <2>1. PICK r \in [FindingIDs -> Statuses \cup {"none"}] : scans' = Append(scans, r)
      BY <1>1 DEF NewScan
    <2>2. Len(scans') = Len(scans) + 1 /\ Len(scans) < MaxScans /\ Len(scans) \in Nat
      BY <1>1, <2>1 DEF NewScan, IngestInv, IngestTypes
    <2> QED
      BY <2>2, BoundsAssumption DEF ScansInv
  <1>2. CASE UNCHANGED scans
    BY <1>2 DEF ScansInv
  <1> QED
    BY <1>1, <1>2 DEF Next, vars, Proceed, Start, AppendCheckResult, SwitchStatus, AppendResolved,
       Complete, Crash

LEMMA Submitted ==
    ASSUME NEW s \in 1..MaxScans, NEW c \in FindingIDs
    PROVE  {CheckResult(s, c), FindingObserved(s, c), FindingResolved(s, c), ScanCompleted(s)}
              \subseteq BridgeEvents
  <1>1. EventsOf(s, c) \subseteq BridgeEvents
    BY DEF BridgeEvents
  <1> QED
    BY <1>1 DEF EventsOf

\* One Append that succeeds is one step of the atomic journal, or none.
LEMMA AppendIsAtomic ==
    ASSUME IngestTypes, NEW e \in BridgeEvents, AppendOK(e), AppendRow(e)
    PROVE  Atomic!Next \/ UNCHANGED Atomic!vars
  <1>1. CASE Recorded(e)
    BY <1>1 DEF AppendRow, Atomic!vars, Answered
  <1>2. CASE ~Recorded(e)
    <2>1. /\ log \in Seq(Rows) /\ Len(log) \in Nat /\ log' = Append(log, e)
          /\ findings' = Project(findings, Len(log) + 1, e) /\ Projectable(findings, e)
          /\ \A k \in 1..Len(log) : log[k].id # e.id
      BY <1>2 DEF AppendRow, AppendOK, Recorded, IngestTypes
    <2>2. /\ 1..Len(log') = 1..Len(log) \cup {Len(log) + 1}
          /\ log'[Len(log) + 1] = e /\ \A k \in 1..Len(log) : log'[k] = log[k]
      BY <2>1
    <2>3. Answered' = Answered \cup {<<Len(log) + 1, e>>}
      BY <2>2 DEF Answered
    <2>4. Atomic!Insert(e)
      BY <2>1, <2>3 DEF Atomic!Insert
    <2> QED
      BY <2>4 DEF Atomic!Next
  <1> QED
    BY <1>1, <1>2

\* Rows that are no lifecycle events are always accepted.
LEMMA ResultsAccepted ==
    ASSUME NEW s, NEW c PROVE AppendOK(CheckResult(s, c)) /\ AppendOK(ScanCompleted(s))
  BY DEF AppendOK, Projectable, IsFindingLifecycle, LifecycleTypes, CheckResult, ScanCompleted,
     BridgeEvent

\* What each step of an ingester submits to the journal.
LEMMA StepSubmits ==
    ASSUME IngestInv, ScansInv, NEW i \in Ingesters, Start(i) \/ Proceed(i)
    PROVE  \/ UNCHANGED <<log, findings>>
           \/ \E e \in BridgeEvents : AppendOK(e) /\ AppendRow(e)
  <1>0. MaxScans \in Nat /\ Len(scans) \in Nat /\ Scans \subseteq 1..MaxScans
    BY BoundsAssumption DEF IngestInv, IngestTypes, ScansInv, Scans
  <1>1. CASE AppendCheckResult(i)
    <2>1. /\ ing[i].scan \in 1..MaxScans /\ Check(i) \in FindingIDs
      BY <1>0, <1>1, Here DEF AppendCheckResult
    <2> QED
      BY <1>1, <2>1, Submitted, ResultsAccepted DEF AppendCheckResult
  <1>2. CASE SwitchStatus(i)
    <2>1. /\ ing[i].scan \in 1..MaxScans /\ Check(i) \in FindingIDs
      BY <1>0, <1>2, Here DEF SwitchStatus
    <2> QED
      BY <1>2, <2>1, Submitted DEF SwitchStatus
  <1>3. CASE AppendResolved(i)
    <2>1. /\ ing[i].scan \in 1..MaxScans /\ Check(i) \in FindingIDs
      BY <1>0, <1>3, Here DEF AppendResolved
    <2> QED
      BY <1>3, <2>1, Submitted DEF AppendResolved
  <1>4. CASE Complete(i)
    <2>1. ing[i].scan \in 1..MaxScans
      BY <1>0, <1>4 DEF Complete, IngestInv, PlaceInv, At
    <2>2. PICK c \in FindingIDs : TRUE
      BY CheckOrderFacts
    <2> QED
      BY <1>4, <2>1, <2>2, Submitted, ResultsAccepted DEF Complete
  <1> QED
    BY <1>1, <1>2, <1>3, <1>4 DEF Proceed, Start

\* Any number of ingesters that race, crash and retry use the journal as one whose
\* Appends are atomic, which is what FindingJournal was shown to implement.
THEOREM IngestUsesAtomicJournal == Spec => UsesAtomicJournal
  <1>1. Init => ScansInv
    BY BoundsAssumption DEF Init, ScansInv
  <1>2. Init => Atomic!Init
    <2> SUFFICES ASSUME Init PROVE Answered = {}
      BY DEF Init, Atomic!Init
    <2> QED
      BY DEF Init, Answered
  <1>3. ASSUME IngestInv, ScansInv, [Next]_vars PROVE [Atomic!Next]_(Atomic!vars)
    <2>1. CASE UNCHANGED <<log, findings>>
      BY <2>1 DEF Atomic!vars, Answered
    <2>2. ASSUME NEW i \in Ingesters, Start(i) \/ Proceed(i) PROVE Atomic!Next \/ UNCHANGED Atomic!vars
      <3>1. CASE UNCHANGED <<log, findings>>
        BY <3>1, <2>1
      <3>2. CASE \E e \in BridgeEvents : AppendOK(e) /\ AppendRow(e)
        BY <1>3, <3>2, AppendIsAtomic DEF IngestInv
      <3> QED
        BY <1>3, <2>2, <3>1, <3>2, StepSubmits
    <2>3. CASE NewScan \/ UNCHANGED vars \/ \E i \in Ingesters : Crash(i)
      BY <2>1, <2>3 DEF NewScan, Crash, vars
    <2> QED
      BY <1>3, <2>2, <2>3 DEF Next
  <1> QED
    BY <1>1, <1>2, <1>3, IngestInit, IngestStep, ScansBounded, PTL
       DEF Spec, UsesAtomicJournal, Atomic!Spec

=============================================================================
