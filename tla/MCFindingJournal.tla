------------------------- MODULE MCFindingJournal -------------------------
(***************************************************************************)
(* FindingJournal for TLC: two processes, two findings, and envelopes      *)
(* chosen so that a finding is observed out of order, acknowledged,        *)
(* suppressed until a time that passes, resolved and seen again; one id is *)
(* submitted with two envelopes, one event is malformed, one has no        *)
(* finding id, and one has a finding.* type outside the lifecycle.         *)
(***************************************************************************)
EXTENDS FindingJournal, TLC

CONSTANTS f1, f2

Ev(id, type, fid, occ, rec, until, sev, ok) ==
    [ id |-> id, type |-> type, fid |-> fid, occurredAt |-> occ, recordedAt |-> rec,
      until |-> until, severity |-> sev, payloadOK |-> ok ]

MCEvents ==
    { Ev(1, "observed",     f1, 2, 2, 0, "warn", TRUE),
      Ev(2, "observed",     f1, 1, 3, 0, "critical", TRUE),
      Ev(3, "acknowledged", f1, 2, 2, 0, "warn", TRUE),
      Ev(4, "unsuppressed", f1, 2, 2, 0, "warn", TRUE),
      Ev(3, "suppressed",   f1, 2, 2, 3, "warn", TRUE),
      Ev(5, "resolved",     f1, 1, 1, 0, "warn", TRUE),
      Ev(4, "other",        NoFinding, 1, 1, 0, "warn", TRUE),
      Ev(5, "observed",     f2, 1, 1, 0, "warn", TRUE),
      Ev(4, "foreign",      f2, 1, 1, 0, "warn", TRUE),
      Ev(5, "resolved",     f1, 1, 1, 0, "warn", FALSE),
      Ev(5, "observed",     NoFinding, 1, 1, 0, "warn", TRUE) }

ProcSymmetry == Permutations(Procs)

=============================================================================
