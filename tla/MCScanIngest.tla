---------------------------- MODULE MCScanIngest ----------------------------
(***************************************************************************)
(* ScanIngest for TLC.  Two checks, of which each snapshot may leave any   *)
(* out, or one, about which three snapshots can disagree; the ids of the   *)
(* events are triples.                                                     *)
(***************************************************************************)
EXTENDS ScanIngest

CONSTANTS c1, c2

MCCheckOrder == <<c1, c2>>
MCOneCheck == <<c1>>
MCEventIDs == (1..MaxScans)
                \X (LifecycleTypes \cup {"check.result", "scan.completed"})
                \X (FindingIDs \cup {NoFinding})

=============================================================================
