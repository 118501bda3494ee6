------------------------------ MODULE ScanLock ------------------------------
(***************************************************************************)
(* The scan lock: scan_lock_acquire and scan_lock_release (lib/state.sh)   *)
(* as run_scan (lib/runner.sh) and the monitor (lib/cmd/monitor.sh) use    *)
(* them.  The lock is a directory that holds the pid file of its owner.    *)
(* Every shell command on it is one step; the steps of the shells          *)
(* interleave, and a shell can be killed between any two of them.          *)
(*                                                                         *)
(* A shell is the process whose pid is $$.  A manual scan is one shell and *)
(* scans once.  A monitor is a supervisor that starts one worker after the *)
(* other; a worker is a subshell, so its $$ is the pid of the supervisor.  *)
(* Pids are not reused.                                                    *)
(***************************************************************************)
EXTENDS Naturals, FiniteSets

CONSTANTS
    Shells,
    Monitors,      \* the shells that run the monitor
    NoOwner,
    MaxAttempts,   \* 2 in the code
    Mortal,        \* bound: the shells that may be killed
    KillPoints,    \* bound: where a kill may strike a shell
    WorkerKillPoints, \* bound: where a kill may strike a monitor's worker
    MaxKills,      \* bound: how many kills of workers
    MayOrphan,     \* a supervisor may be killed while its worker lives on
    MayStall       \* a shell may take longer than the grace period of 30 s

ASSUME ShellsAssumption ==
    /\ Monitors \subseteq Shells
    /\ Mortal \subseteq Shells
    /\ NoOwner \notin Shells
ASSUME BoundsAssumption == MaxAttempts \in Nat \ {0} /\ MaxKills \in Nat
ASSUME FlagsAssumption == MayOrphan \in BOOLEAN /\ MayStall \in BOOLEAN

VARIABLES
    dir,      \* the lock directory exists
    owner,    \* the content of its pid file; NoOwner when there is none
    tmp,      \* the shells whose pid.tmp file is in the directory
    aged,     \* the directory was last changed more than 30 s ago
    alive,    \* the pids kill -0 finds
    role,     \* role[s]: "worker" scans, "supervisor" reaps a monitor's worker
    pc,
    seen,     \* seen[s]: the owner s read
    attempt,  \* attempt[s]: the stale locks s removed
    kills     \* the kills of workers so far

lock == <<dir, owner, tmp, aged>>
vars == <<lock, alive, role, pc, seen, attempt, kills>>

Points == {"start", "made", "undo", "tmp", "busy", "ownerless", "owned", "sweep", "rmdir",
           "scanning", "release", "rmpid", "rmlock", "gone"}

\* Between two commands that change the lock, or about to judge the age of a
\* lock that got an owner since.
Midway(s) ==
    \/ pc[s] \in {"made", "undo", "tmp", "sweep", "rmdir", "rmpid", "rmlock"}
    \/ pc[s] = "ownerless" /\ owner # NoOwner

-----------------------------------------------------------------------------
Goto(s, point) ==
    /\ pc' = [pc EXCEPT ![s] = point]
    /\ UNCHANGED <<alive, role>>

\* The end of a worker or of a manual scan, and of a supervisor's reaping.  The
\* supervisor calls scan_lock_release after each worker and starts the next.
Return(s) ==
    IF s \in Monitors /\ s \in alive
    THEN /\ pc' = [pc EXCEPT ![s] = IF role[s] = "worker" THEN "release" ELSE "start"]
         /\ role' = [role EXCEPT ![s] = IF @ = "worker" THEN "supervisor" ELSE "worker"]
         /\ UNCHANGED alive
    ELSE /\ pc' = [pc EXCEPT ![s] = "gone"]
         /\ alive' = alive \ {s}
         /\ UNCHANGED role

\* rm -f of the pid file, whoever wrote it.
RemovePid ==
    /\ owner' = NoOwner
    /\ aged' = (aged /\ owner = NoOwner)
    /\ UNCHANGED <<dir, tmp>>

\* rmdir succeeds on an empty directory only.
Removable == dir /\ owner = NoOwner /\ tmp = {}
RemoveDir == dir' = FALSE /\ aged' = FALSE /\ UNCHANGED <<owner, tmp>>

-----------------------------------------------------------------------------
(***************************************************************************)
(* scan_lock_acquire                                                       *)
(***************************************************************************)
Mkdir(s) ==
    /\ pc[s] = "start"
    /\ IF dir
       THEN Goto(s, "busy") /\ UNCHANGED lock
       ELSE /\ dir' = TRUE /\ aged' = FALSE /\ UNCHANGED <<owner, tmp>>
            /\ Goto(s, "made")
    /\ UNCHANGED <<seen, attempt, kills>>

\* cat > pid.tmp.$$; it fails when the directory has been taken away.
WriteTmp(s) ==
    /\ pc[s] = "made"
    /\ IF dir
       THEN /\ tmp' = tmp \cup {s} /\ aged' = FALSE /\ UNCHANGED <<dir, owner>>
            /\ Goto(s, "tmp")
       ELSE Goto(s, "undo") /\ UNCHANGED lock
    /\ UNCHANGED <<seen, attempt, kills>>

\* rm -f of the pid.tmp.$$ that was not written, and rmdir of the lock, which may
\* be another shell's by now.
UndoMkdir(s) ==
    /\ pc[s] = "undo"
    /\ IF Removable THEN RemoveDir ELSE UNCHANGED lock
    /\ Return(s)
    /\ UNCHANGED <<seen, attempt, kills>>

\* mv -f of pid.tmp.$$ over pid: the lock is acquired.
RenameTmp(s) ==
    /\ pc[s] = "tmp"
    /\ tmp' = tmp \ {s} /\ owner' = s /\ aged' = FALSE /\ UNCHANGED dir
    /\ Goto(s, "scanning")
    /\ UNCHANGED <<seen, attempt, kills>>

ReadOwner(s) ==
    /\ pc[s] = "busy"
    /\ seen' = [seen EXCEPT ![s] = owner]
    /\ Goto(s, IF owner = NoOwner THEN "ownerless" ELSE "owned")
    /\ UNCHANGED <<lock, attempt, kills>>

\* Variant: an owner is dead unless it is the caller.
StaleUnasked(s) == IF pc[s] = "owned" THEN seen[s] # s ELSE dir /\ aged

\* kill -0 for a lock with an owner, the directory's age for one without.
Stale(s) == IF pc[s] = "owned" THEN seen[s] \notin alive ELSE dir /\ aged

Judge(s) ==
    /\ pc[s] \in {"owned", "ownerless"}
    /\ IF Stale(s) THEN Goto(s, "sweep") ELSE Return(s)
    /\ UNCHANGED <<lock, seen, attempt, kills>>

SweepPid(s) ==
    /\ pc[s] = "sweep"
    /\ RemovePid
    /\ Goto(s, "rmdir")
    /\ UNCHANGED <<seen, attempt, kills>>

\* rmdir of a stale lock; on success the loop goes on while it may.
SweepDir(s) ==
    /\ pc[s] = "rmdir"
    /\ IF Removable
       THEN /\ RemoveDir
            /\ attempt' = [attempt EXCEPT ![s] = @ + 1]
            /\ IF attempt'[s] < MaxAttempts THEN Goto(s, "start") ELSE Return(s)
       ELSE Return(s) /\ UNCHANGED <<lock, attempt>>
    /\ UNCHANGED <<seen, kills>>

-----------------------------------------------------------------------------
(***************************************************************************)
(* run_scan and scan_lock_release                                          *)
(***************************************************************************)
Scan(s) ==
    /\ pc[s] = "scanning"
    /\ Goto(s, "release")
    /\ UNCHANGED <<lock, seen, attempt, kills>>

\* Variant: the supervisor takes a lock with its own pid for a running scan.
ReleasesWorker(s) == dir /\ owner = s /\ role[s] = "worker"

\* The lock is there and its pid file names the caller.
Releases(s) == dir /\ owner = s

CheckOwner(s) ==
    /\ pc[s] = "release"
    /\ IF Releases(s) THEN Goto(s, "rmpid") ELSE Return(s)
    /\ attempt' = [attempt EXCEPT ![s] = 0]
    /\ UNCHANGED <<lock, seen, kills>>

ReleasePid(s) ==
    /\ pc[s] = "rmpid"
    /\ RemovePid
    /\ Goto(s, "rmlock")
    /\ UNCHANGED <<seen, attempt, kills>>

ReleaseDir(s) ==
    /\ pc[s] = "rmlock"
    /\ IF Removable THEN RemoveDir ELSE UNCHANGED lock
    /\ Return(s)
    /\ UNCHANGED <<seen, attempt, kills>>

-----------------------------------------------------------------------------
(***************************************************************************)
(* Time and failures                                                       *)
(***************************************************************************)
\* Without MayStall no shell stays midway for 30 s.
GracePeriodPasses ==
    /\ dir /\ ~aged
    /\ MayStall \/ \A s \in Shells : ~Midway(s)
    /\ aged' = TRUE
    /\ UNCHANGED <<dir, owner, tmp, alive, role, pc, seen, attempt, kills>>

\* SIGKILL of a manual scan, or of a monitor with its worker.
Kill(s) ==
    /\ s \in Mortal /\ s \in alive
    /\ pc[s] \in KillPoints
    /\ pc' = [pc EXCEPT ![s] = "gone"]
    /\ alive' = alive \ {s}
    /\ UNCHANGED <<lock, role, seen, attempt, kills>>

\* The worker of a monitor is killed, by _monitor_stop among others; the
\* supervisor finds it dead and reaps it.
KillWorker(s) ==
    /\ s \in Monitors /\ s \in alive
    /\ role[s] = "worker" /\ pc[s] \in WorkerKillPoints
    /\ kills < MaxKills
    /\ kills' = kills + 1
    /\ Return(s)
    /\ UNCHANGED <<lock, seen, attempt>>

\* The supervisor dies, its worker goes on.
OrphanWorker(s) ==
    /\ MayOrphan
    /\ s \in Mortal /\ s \in Monitors /\ s \in alive
    /\ role[s] = "worker"
    /\ alive' = alive \ {s}
    /\ UNCHANGED <<lock, role, pc, seen, attempt, kills>>

Init ==
    /\ dir = FALSE /\ owner = NoOwner /\ tmp = {} /\ aged = FALSE
    /\ alive = Shells
    /\ role = [s \in Shells |-> "worker"]
    /\ pc = [s \in Shells |-> "start"]
    /\ seen = [s \in Shells |-> NoOwner]
    /\ attempt = [s \in Shells |-> 0]
    /\ kills = 0

Step(s) ==
    \/ Mkdir(s) \/ WriteTmp(s) \/ UndoMkdir(s) \/ RenameTmp(s)
    \/ ReadOwner(s) \/ Judge(s) \/ SweepPid(s) \/ SweepDir(s)
    \/ Scan(s)
    \/ CheckOwner(s) \/ ReleasePid(s) \/ ReleaseDir(s)

Next ==
    \/ GracePeriodPasses
    \/ \E s \in Shells : Step(s) \/ Kill(s) \/ KillWorker(s) \/ OrphanWorker(s)

Spec == Init /\ [][Next]_vars

\* Shells that are not killed keep running, the monitor's loop never ends, and
\* time passes.
FairSpec ==
    /\ Spec
    /\ SF_vars(GracePeriodPasses)
    /\ \A s \in Shells : WF_vars(Step(s))

-----------------------------------------------------------------------------
\* The types of the lock's files and of the shells' states.
TypeOK ==
    /\ dir \in BOOLEAN /\ aged \in BOOLEAN
    /\ owner \in Shells \cup {NoOwner}
    /\ tmp \subseteq Shells /\ alive \subseteq Shells
    /\ role \in [Shells -> {"worker", "supervisor"}]
    /\ pc \in [Shells -> Points]
    /\ seen \in [Shells -> Shells \cup {NoOwner}]
    /\ attempt \in [Shells -> 0..MaxAttempts]
    /\ kills \in 0..MaxKills
    /\ ~dir => owner = NoOwner /\ tmp = {} /\ ~aged

\* "checks never overlap" (docs/monitoring.md): two scans never run at the same
\* time.
MutualExclusion ==
    \A s, t \in Shells : pc[s] = "scanning" /\ pc[t] = "scanning" => s = t

\* The same for the scans whose $$ is alive, so without the workers that
\* outlived their supervisor.
LiveExclusion ==
    \A s, t \in alive : pc[s] = "scanning" /\ pc[t] = "scanning" => s = t

\* Scans never stop for good: whatever was killed at the points the run allows,
\* its lock is removed, by the supervisor or as a stale one, and a monitor that
\* is not killed gets its turn or finds another scan running.
ScansGoOn == []<>(\E s \in Shells : pc[s] = "scanning")

=============================================================================
