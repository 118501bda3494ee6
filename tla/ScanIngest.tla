----------------------------- MODULE ScanIngest -----------------------------
(***************************************************************************)
(* IngestScan of internal/bridge/ingest.go: a scan snapshot becomes a run  *)
(* of journal events.  Every Append is a transaction of its own            *)
(* (FindingJournal), so an ingest can stop between any two of them, be     *)
(* retried, or run beside another process that ingests the same snapshot   *)
(* or a newer one.                                                         *)
(*                                                                         *)
(* A check's finding id is "check:<category>/<name>", one per check, so    *)
(* FindingIDs also names the checks.  Event ids are deterministic: here    *)
(* the triple of snapshot, kind and check that the code hashes.            *)
(***************************************************************************)
EXTENDS FindingLifecycle, Sequences, FiniteSets

CONSTANTS
    Ingesters,   \* processes that run the agent's ingest mode
    CheckOrder,  \* the checks in sortResults order
    Statuses,    \* statuses a check may report
    Serialised,  \* scans hold the scan lock until their ingest is over
    MaxScans,    \* bound: snapshots that scans write
    MaxCrashes   \* bound: ingests killed part-way

ASSUME CheckOrderAssumption ==
    /\ CheckOrder \in Seq(FindingIDs) /\ CheckOrder # << >>
    /\ \A c \in FindingIDs : \E k \in 1..Len(CheckOrder) : CheckOrder[k] = c
ASSUME BoundsAssumption == MaxScans \in Nat /\ MaxCrashes \in Nat
ASSUME StatusesAssumption == Statuses \subseteq {"ok", "warn", "critical", "error", "skip"}

Bad == {"warn", "critical", "error"}

VARIABLES
    scans,     \* scans[s][c]: status of check c in snapshot s, "none" when a
               \* partial scan left c out; the last one is the scan file
    log,       \* journal rows
    findings,  \* current_findings
    ing,       \* ing[i]: where ingester i is
    crashes

vars == <<scans, log, findings, ing, crashes>>

Idle == [pc |-> "idle", scan |-> 0, idx |-> 0]

-----------------------------------------------------------------------------
\* bridgeEvent: everything but the payload is a function of the snapshot.  The
\* timestamps are the snapshot's updated_at, here its number.
BridgeEvent(s, kind, c) ==
    [ id |-> <<s, kind, c>>,
      type |-> IF kind \in LifecycleTypes THEN kind ELSE "other",
      fid |-> IF kind \in LifecycleTypes THEN c ELSE NoFinding,
      occurredAt |-> s, recordedAt |-> s, until |-> 0,
      severity |-> CHOOSE v \in Severities : TRUE, payloadOK |-> TRUE ]

Recorded(e) == \E k \in 1..Len(log) : log[k].id = e.id

CheckResult(s, c) == BridgeEvent(s, "check.result", c)
FindingObserved(s, c) == BridgeEvent(s, "observed", c)
FindingResolved(s, c) == BridgeEvent(s, "resolved", c)
ScanCompleted(s) == BridgeEvent(s, "scan.completed", NoFinding)

\* The events an ingest submits, and the journal it submits them to: FindingJournal
\* as its callers see it, every Append one step that was answered.
EventsOf(s, c) == {CheckResult(s, c), FindingObserved(s, c), FindingResolved(s, c), ScanCompleted(s)}
BridgeEvents == UNION {EventsOf(s, c) : s \in 1..MaxScans, c \in FindingIDs}
Answered == {<<k, log[k]>> : k \in 1..Len(log)}
Atomic == INSTANCE AtomicJournal WITH Events <- BridgeEvents, acked <- Answered

\* Variant: a row that is there already is an error.
AppendOKOnce(e) == ~Recorded(e) /\ Projectable(findings, e)

\* Variant: the projection's verdict is ignored.
AppendOKUnchecked(e) == TRUE

\* store.Append returns no error: the row is there already, or it is projectable.
AppendOK(e) == Recorded(e) \/ Projectable(findings, e)

\* Variant: projects the event although the row was not inserted.
AppendRowReprojected(e) ==
    /\ log' = IF Recorded(e) THEN log ELSE Append(log, e)
    /\ findings' = Project(findings, Len(log'), e)

\* The effect of a successful store.Append.
AppendRow(e) ==
    IF Recorded(e)
    THEN UNCHANGED <<log, findings>>
    ELSE /\ log' = Append(log, e)
         /\ findings' = Project(findings, Len(log) + 1, e)

-----------------------------------------------------------------------------
Status(i) == scans[ing[i].scan][CheckOrder[ing[i].idx]]
Check(i) == CheckOrder[ing[i].idx]

Goto(i, pc) == ing' = [ing EXCEPT ![i].pc = pc]

\* Variant: the last result is left out.
NextResultDropsLast(i) ==
    ing' = [ing EXCEPT ![i].idx = @ + 1,
                       ![i].pc = IF ing[i].idx + 1 >= Len(CheckOrder) THEN "complete" ELSE "result"]

\* On to the next result of the snapshot, or to scan.completed.
NextResult(i) ==
    ing' = [ing EXCEPT ![i].idx = @ + 1,
                       ![i].pc = IF ing[i].idx = Len(CheckOrder) THEN "complete" ELSE "result"]

\* A scan writes last-scan.tsv or last-partial-scan.tsv, with any statuses; the
\* snapshot to ingest holds the checks this scan evaluated.
NewScan ==
    /\ Len(scans) < MaxScans
    /\ Serialised => \A i \in Ingesters : ing[i] = Idle
    /\ \E r \in [FindingIDs -> Statuses \cup {"none"}] : scans' = Append(scans, r)
    /\ UNCHANGED <<log, findings, ing, crashes>>

\* IngestScan up to its loop; a snapshot whose scan.completed is recorded is
\* reported as already ingested and nothing happens.
Start(i) ==
    /\ ing[i] = Idle
    /\ scans # << >>
    /\ ~Recorded(ScanCompleted(Len(scans)))
    /\ ing' = [ing EXCEPT ![i] = [pc |-> "result", scan |-> Len(scans), idx |-> 1]]
    /\ UNCHANGED <<scans, log, findings, crashes>>

\* Append the check.result row of the next result; absent checks have none.
AppendCheckResult(i) ==
    /\ ing[i].pc = "result"
    /\ IF Status(i) = "none"
       THEN NextResult(i) /\ UNCHANGED <<log, findings>>
       ELSE Goto(i, "switch") /\ AppendRow(CheckResult(ing[i].scan, Check(i)))
    /\ UNCHANGED <<scans, crashes>>

\* Variant: a skipped check resolves its finding like a clean one.
ResolvesOnSkip(status) == status \in {"ok", "skip"}

\* A skipped check is a coverage gap, never evidence of resolution.
Resolves(status) == status = "ok"

\* The switch on the status: observe, or look at the current finding first.
SwitchStatus(i) ==
    /\ ing[i].pc = "switch"
    /\ \/ /\ Status(i) \in Bad
          /\ AppendOK(FindingObserved(ing[i].scan, Check(i)))
          /\ AppendRow(FindingObserved(ing[i].scan, Check(i)))
          /\ NextResult(i)
       \/ /\ Resolves(Status(i))
          /\ IF findings[Check(i)].state \in {"absent", "resolved"}
             THEN NextResult(i)
             ELSE Goto(i, "resolve")
          /\ UNCHANGED <<log, findings>>
       \/ /\ Status(i) \notin Bad
          /\ ~Resolves(Status(i))
          /\ NextResult(i)
          /\ UNCHANGED <<log, findings>>
    /\ UNCHANGED <<scans, crashes>>

\* Append finding.resolved for the finding read before; when somebody resolved
\* it in between, Append returns an error and the whole ingest ends with it.
AppendResolved(i) ==
    LET e == FindingResolved(ing[i].scan, Check(i))
    IN  /\ ing[i].pc = "resolve"
        /\ IF AppendOK(e)
           THEN AppendRow(e) /\ NextResult(i)
           ELSE UNCHANGED <<log, findings>> /\ ing' = [ing EXCEPT ![i] = Idle]
        /\ UNCHANGED <<scans, crashes>>

\* Append scan.completed and report success.
Complete(i) ==
    /\ ing[i].pc = "complete"
    /\ AppendRow(ScanCompleted(ing[i].scan))
    /\ ing' = [ing EXCEPT ![i] = Idle]
    /\ UNCHANGED <<scans, crashes>>

\* The agent is killed, or an Append fails (SQLITE_BUSY, a full disk).
Crash(i) ==
    /\ crashes < MaxCrashes
    /\ ing[i] # Idle
    /\ ing' = [ing EXCEPT ![i] = Idle]
    /\ crashes' = crashes + 1
    /\ UNCHANGED <<scans, log, findings>>

-----------------------------------------------------------------------------
Init ==
    /\ scans = << >>
    /\ log = << >>
    /\ findings = EmptyView
    /\ ing = [i \in Ingesters |-> Idle]
    /\ crashes = 0

\* The steps of an ingest that was begun.
Proceed(i) ==
    \/ AppendCheckResult(i)
    \/ SwitchStatus(i)
    \/ AppendResolved(i)
    \/ Complete(i)

Next == NewScan \/ \E i \in Ingesters : Start(i) \/ Proceed(i) \/ Crash(i)

Spec == Init /\ [][Next]_vars

\* An ingest that was begun and is not killed goes on.  Nothing says that one is
\* begun, or begun again: _journal_ingest_scan runs the agent once per scan.
FairSpec == Spec /\ \A i \in Ingesters : WF_vars(Proceed(i))

-----------------------------------------------------------------------------
Scans == 1..Len(scans)
Completed(s) == Recorded(ScanCompleted(s))

\* The types of the snapshots, the ingesters and the journal.
TypeOK ==
    /\ scans \in Seq([FindingIDs -> Statuses \cup {"none"}])
    /\ \A k \in 1..Len(log) : log[k].type \in LifecycleTypes \cup {"other"}
    /\ findings \in Views
    /\ ing \in [Ingesters -> [pc : {"idle", "result", "switch", "resolve", "complete"},
                              scan : 0..Len(scans), idx : 0..(Len(CheckOrder) + 1)]]
    /\ crashes \in 0..MaxCrashes

\* A scan.completed row promises that everything the snapshot says is in the
\* journal: whatever crashed and was retried, every result row and every
\* observation of the snapshot stands before it.
CompletedIsComplete ==
    \A k \in 1..Len(log) : \A s \in Scans :
        log[k].id = ScanCompleted(s).id =>
            \A c \in FindingIDs :
                /\ scans[s][c] # "none" =>
                      \E j \in 1..(k - 1) : log[j].id = CheckResult(s, c).id
                /\ scans[s][c] \in Bad =>
                      \E j \in 1..(k - 1) : log[j].id = FindingObserved(s, c).id

\* "Retrying the same snapshot does not duplicate events" (docs/history.md): a
\* finding's occurrences count snapshots, not attempts to ingest them.
OncePerScan ==
    \A c \in FindingIDs :
        findings[c].occurrences =
            Cardinality({s \in Scans : scans[s][c] \in Bad /\ Recorded(FindingObserved(s, c))})

\* The ingest expects of store.Append what the journal promises and no more:
\* however ingests race, crash and retry, each of their steps is a step of the
\* atomic journal, which refuses a resolution that came second.
UsesAtomicJournal == Atomic!Spec

\* When scans and ingests take turns, the findings agree with the last snapshot
\* once it is ingested: a bad check has an unresolved finding, a clean one none.
MirrorsLastScan ==
    (/\ \A i \in Ingesters : ing[i] = Idle
     /\ scans # << >>
     /\ Completed(Len(scans)))
    => \A c \in FindingIDs :
          /\ scans[Len(scans)][c] \in Bad => findings[c].state \notin {"absent", "resolved"}
          /\ scans[Len(scans)][c] = "ok" => findings[c].state \in {"absent", "resolved"}

\* "`skip` does not resolve an existing finding" (docs/history.md), and neither
\* does a scan that left the check out: a finding becomes resolved only while
\* somebody ingests a snapshot in which its check is clean.
OnlyOKResolves ==
    [][\A c \in FindingIDs :
         findings'[c].state = "resolved" /\ findings[c].state # "resolved"
            => \E i \in Ingesters : ing[i].scan > 0 /\ scans[ing[i].scan][c] = "ok"]_vars

\* No killed ingest leaves anything behind that is in the way of another one: when
\* scans and ingests take turns, an ingest that was begun, of a new snapshot or of
\* one that was ingested in part, comes to its end, and unless it is killed it has
\* then completed that snapshot.
AttemptsComplete ==
    /\ \A i \in Ingesters : []<>(ing[i] = Idle)
    /\ [][\A i \in Ingesters, s \in Scans :
             ing[i].scan = s /\ ing'[i] = Idle => crashes' > crashes \/ Completed(s)']_vars

=============================================================================
