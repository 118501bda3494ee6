----------------------------- MODULE MCScanLock -----------------------------
(***************************************************************************)
(* ScanLock for TLC: sets of kill points for the configurations.           *)
(***************************************************************************)
EXTENDS ScanLock

\* Where the lock, if the killed shell has it, names its owner.
KillsWhileNamed == {"busy", "ownerless", "owned", "scanning", "release", "rmpid"}

\* Everywhere but between the creation of pid.tmp.$$ and its rename.
KillsOutsideRename == Points \ {"start", "tmp", "gone"}

\* There only.
KillsInRename == {"tmp"}

=============================================================================
