-------------------------- MODULE FindingLifecycle --------------------------
(***************************************************************************)
(* What one journal event does to one finding: projectFinding and          *)
(* applyObservation of internal/journal/sqlite.go over the envelope and    *)
(* finding contracts of internal/model/contracts.go.                       *)
(*                                                                         *)
(* Times are positive naturals.  The zero time, which Validate refuses for *)
(* occurred_at and recorded_at, stands for a nil time or action pointer.   *)
(* Titles, evidence, labels and remediation are copied, never compared,    *)
(* and left out; the severity stands for what an observation overwrites.   *)
(***************************************************************************)
EXTENDS Naturals

CONSTANTS
    FindingIDs,  \* non-empty finding ids
    NoFinding,   \* the empty finding_id
    EventIDs,
    Severities

LifecycleTypes == {"observed", "acknowledged", "suppressed", "unsuppressed", "resolved"}

\* "foreign" is a type that starts with "finding." and is not one of the five
\* lifecycle types; "other" is any remaining type (check.result, scan.completed).
Envelope ==
    [ id         : EventIDs,
      type       : LifecycleTypes \cup {"foreign", "other"},
      fid        : FindingIDs \cup {NoFinding},
      occurredAt : Nat \ {0},
      recordedAt : Nat \ {0},
      until      : Nat,
      severity   : Severities,
      payloadOK  : BOOLEAN ]

ASSUME NoFindingAssumption == NoFinding \notin FindingIDs

Finding ==
    [ state           : {"absent", "open", "acknowledged", "suppressed", "resolved"},
      severity        : Severities,
      firstSeen       : Nat,
      lastSeen        : Nat,
      updatedAt       : Nat,
      occurrences     : Nat,
      suppressedUntil : Nat,
      ack             : Nat,
      resolution      : Nat,
      lastSeq         : Nat ]

\* No row in current_findings.
Absent ==
    [ state |-> "absent", severity |-> CHOOSE s \in Severities : TRUE,
      firstSeen |-> 0, lastSeen |-> 0, updatedAt |-> 0, occurrences |-> 0,
      suppressedUntil |-> 0, ack |-> 0, resolution |-> 0, lastSeq |-> 0 ]

ASSUME SeveritiesAssumption == Severities # {}

Views == [FindingIDs -> Finding]
EmptyView == [f \in FindingIDs |-> Absent]

-----------------------------------------------------------------------------
IsFindingLifecycle(e) == e.type \in LifecycleTypes

Later(a, b) == IF b > a THEN b ELSE a
Earlier(a, b) == IF b < a THEN b ELSE a

\* Variant: a row recorded earlier than updated_at does not become the last event.
AdvanceUnlessOlder(f, seq, e) ==
    [f EXCEPT !.updatedAt = Later(@, e.recordedAt),
              !.lastSeq = IF e.recordedAt < f.updatedAt THEN @ ELSE seq]

\* advanceFinding: updated_at never goes back, the last event is this row.
Advance(f, seq, e) ==
    [f EXCEPT !.updatedAt = Later(@, e.recordedAt), !.lastSeq = seq]

NewFinding(seq, e) ==
    [ state |-> "open", severity |-> e.severity,
      firstSeen |-> e.occurredAt, lastSeen |-> e.occurredAt, updatedAt |-> e.recordedAt,
      occurrences |-> 1, suppressedUntil |-> 0, ack |-> 0, resolution |-> 0, lastSeq |-> seq ]

SuppressionExpired(f, e) ==
    /\ f.state = "suppressed"
    /\ f.suppressedUntil # 0
    /\ f.suppressedUntil <= e.recordedAt

\* Variant: the state alone is reset.
ReopenStateOnly(f) == [f EXCEPT !.state = "open"]

\* Variant: a resolved finding that is seen again stays resolved.
ReopenNever(f) == f

Reopen(f) == [f EXCEPT !.state = "open", !.ack = 0, !.resolution = 0]

\* A resolved finding that is seen again opens again, and so does one whose
\* suppression has run out; an unexpired suppression stays.
ObserveExisting(f, seq, e) ==
    LET seen == [f EXCEPT !.severity    = e.severity,
                          !.occurrences = @ + 1,
                          !.firstSeen   = Earlier(@, e.occurredAt),
                          !.lastSeen    = Later(@, e.occurredAt)]
        live == IF seen.state = "resolved" THEN Reopen(seen) ELSE seen
    IN  Advance(IF SuppressionExpired(live, e)
                THEN [live EXCEPT !.state = "open", !.suppressedUntil = 0]
                ELSE live, seq, e)

ApplyObservation(f, seq, e) ==
    IF f.state = "absent" THEN NewFinding(seq, e) ELSE ObserveExisting(f, seq, e)

\* The conditions under which projectFinding returns no error for a finding f.
CanApply(f, e) ==
    /\ e.payloadOK
    /\ \/ e.type = "observed"
       \/ e.type = "acknowledged" /\ f.state = "open"
       \/ /\ e.type = "suppressed"
          /\ f.state \notin {"absent", "resolved"}
          /\ e.until = 0 \/ e.until > e.recordedAt
       \/ e.type = "unsuppressed" /\ f.state = "suppressed"
       \/ e.type = "resolved" /\ f.state \notin {"absent", "resolved"}

ApplyEvent(f, seq, e) ==
    CASE e.type = "observed" -> ApplyObservation(f, seq, e)
      [] e.type = "acknowledged" ->
            Advance([f EXCEPT !.state = "acknowledged", !.ack = e.recordedAt,
                              !.resolution = 0, !.suppressedUntil = 0], seq, e)
      [] e.type = "suppressed" ->
            Advance([f EXCEPT !.state = "suppressed", !.suppressedUntil = e.until,
                              !.resolution = 0], seq, e)
      [] e.type = "unsuppressed" ->
            Advance([f EXCEPT !.state = "open", !.suppressedUntil = 0], seq, e)
      [] OTHER ->
            Advance([f EXCEPT !.state = "resolved", !.resolution = e.recordedAt,
                              !.suppressedUntil = 0], seq, e)

\* The effect of row seq on the projection; only lifecycle events have one.
Project(view, seq, e) ==
    IF IsFindingLifecycle(e)
    THEN [view EXCEPT ![e.fid] = ApplyEvent(@, seq, e)]
    ELSE view

\* projectFinding succeeds, or the caller has no reason to call it.
Projectable(view, e) == IsFindingLifecycle(e) => CanApply(view[e.fid], e)

=============================================================================
