--------------------------- MODULE ScanLockProofs ---------------------------
(***************************************************************************)
(* Proofs about ScanLock: its types, that no two scans overlap while every *)
(* shell lives, however many there are, and that two contenders never scan *)
(* together.                                                               *)
(***************************************************************************)
EXTENDS ScanLock, TLAPS

USE ShellsAssumption, BoundsAssumption

-----------------------------------------------------------------------------
(***************************************************************************)
(* Types.  A pid.tmp file keeps its directory, and a shell that goes on    *)
(* has removed fewer stale locks than it may: only a supervisor starts the *)
(* next worker, after CheckOwner.                                          *)
(***************************************************************************)
TmpInv == \A s \in Shells : pc[s] = "tmp" => s \in tmp

AttemptInv == \A s \in Shells : pc[s] \notin {"release", "gone"} => attempt[s] < MaxAttempts

RoleInv ==
    \A s \in Shells : role[s] = "supervisor" => pc[s] \in {"release", "rmpid", "rmlock", "gone"}

TypeInv == TypeOK /\ TmpInv /\ AttemptInv /\ RoleInv

\* Shell s goes to point, maybe with another role; nobody comes to life.
Lands(s, point, r) ==
    /\ pc' = [pc EXCEPT ![s] = point]
    /\ role' = [role EXCEPT ![s] = r]
    /\ alive' \subseteq alive

\* A worker ends in the reaping, the reaping in a new worker.
LEMMA ReturnLands ==
    ASSUME TypeOK, NEW s \in Shells, Return(s)
    PROVE  \/ Lands(s, "release", "supervisor") /\ role[s] = "worker"
           \/ Lands(s, "start", "worker") /\ role[s] = "supervisor"
           \/ Lands(s, "gone", role[s])
  BY DEF Return, Lands, TypeOK

\* The types of the shells after one of them went somewhere.
LEMMA LandsTypes ==
    ASSUME TypeInv, NEW s \in Shells, NEW point \in Points, NEW r \in {"worker", "supervisor"},
           Lands(s, point, r),
           tmp \subseteq tmp' \cup {s},
           point = "tmp" => s \in tmp',
           r = "supervisor" => point \in {"release", "rmpid", "rmlock", "gone"},
           attempt' \in [Shells -> 0..MaxAttempts],
           \A t \in Shells \ {s} : attempt'[t] = attempt[t],
           point \notin {"release", "gone"} => attempt'[s] < MaxAttempts
    PROVE  /\ pc' \in [Shells -> Points]
           /\ role' \in [Shells -> {"worker", "supervisor"}]
           /\ alive' \subseteq Shells
           /\ TmpInv' /\ AttemptInv' /\ RoleInv'
  <1>1. /\ pc \in [Shells -> Points] /\ role \in [Shells -> {"worker", "supervisor"}]
        /\ alive \subseteq Shells
    BY DEF TypeInv, TypeOK
  <1>2. /\ pc' \in [Shells -> Points] /\ role' \in [Shells -> {"worker", "supervisor"}]
        /\ alive' \subseteq Shells
        /\ pc'[s] = point /\ role'[s] = r
        /\ \A t \in Shells \ {s} : pc'[t] = pc[t] /\ role'[t] = role[t]
    BY <1>1 DEF Lands
  <1>3. TmpInv'
    BY <1>2 DEF TypeInv, TmpInv
  <1>4. AttemptInv'
    BY <1>2 DEF TypeInv, AttemptInv
  <1>5. RoleInv'
    BY <1>2 DEF TypeInv, RoleInv
  <1> QED
    BY <1>2, <1>3, <1>4, <1>5

\* A step of s that lands it somewhere keeps the types, if the lock's do.
LockTypes ==
    /\ dir \in BOOLEAN /\ aged \in BOOLEAN
    /\ owner \in Shells \cup {NoOwner}
    /\ tmp \subseteq Shells
    /\ ~dir => owner = NoOwner /\ tmp = {} /\ ~aged

LEMMA StepTypes ==
    ASSUME TypeInv, NEW s \in Shells, Step(s) PROVE TypeInv'
  <1>0. /\ TypeOK /\ TmpInv /\ AttemptInv /\ RoleInv
        /\ dir \in BOOLEAN /\ aged \in BOOLEAN
        /\ owner \in Shells \cup {NoOwner}
        /\ tmp \subseteq Shells /\ alive \subseteq Shells
        /\ role \in [Shells -> {"worker", "supervisor"}]
        /\ pc \in [Shells -> Points]
        /\ seen \in [Shells -> Shells \cup {NoOwner}]
        /\ attempt \in [Shells -> 0..MaxAttempts]
        /\ kills \in 0..MaxKills
        /\ ~dir => owner = NoOwner /\ tmp = {} /\ ~aged
    BY DEF TypeInv, TypeOK
  <1>a. /\ pc[s] \in Points /\ role[s] \in {"worker", "supervisor"}
        /\ attempt[s] \in 0..MaxAttempts /\ MaxAttempts \in Nat /\ 0 < MaxAttempts
    BY <1>0
  <1>b. /\ pc[s] # "release" /\ pc[s] # "gone" => attempt[s] < MaxAttempts
        /\ pc[s] = "tmp" => s \in tmp
        /\ role[s] = "supervisor" => pc[s] \in {"release", "rmpid", "rmlock", "gone"}
    BY <1>0 DEF AttemptInv, TmpInv, RoleInv
  <1>1. /\ LockTypes' /\ tmp \subseteq tmp' \cup {s}
        /\ seen' \in [Shells -> Shells \cup {NoOwner}]
        /\ kills' = kills
    <2>1. CASE UNCHANGED lock /\ UNCHANGED kills
      BY <1>0, <2>1 DEF LockTypes, lock, Step, Mkdir, WriteTmp, UndoMkdir, RenameTmp, ReadOwner, Judge,
         SweepPid, SweepDir, Scan, CheckOwner, ReleasePid, ReleaseDir
    <2>2. CASE RemovePid
      BY <1>0, <2>2 DEF LockTypes, RemovePid, Step, Mkdir, WriteTmp, UndoMkdir, RenameTmp, ReadOwner, Judge,
         SweepPid, SweepDir, Scan, CheckOwner, ReleasePid, ReleaseDir
    <2>3. CASE Removable /\ RemoveDir
      BY <1>0, <2>3 DEF LockTypes, Removable, RemoveDir, Step, Mkdir, WriteTmp, UndoMkdir, RenameTmp,
         ReadOwner, Judge, SweepPid, SweepDir, Scan, CheckOwner, ReleasePid, ReleaseDir
    <2>4. CASE Mkdir(s)
      BY <1>0, <2>4 DEF LockTypes, Mkdir, lock
    <2>5. CASE WriteTmp(s)
      BY <1>0, <2>5 DEF LockTypes, WriteTmp, lock
    <2>6. CASE RenameTmp(s)
      BY <1>0, <1>b, <2>6 DEF LockTypes, RenameTmp
    <2> QED
      BY <2>1, <2>2, <2>3, <2>4, <2>5, <2>6 DEF Step, ReadOwner, Judge, SweepPid, SweepDir, Scan,
         CheckOwner, ReleasePid, ReleaseDir, UndoMkdir
  <1>2. /\ attempt' \in [Shells -> 0..MaxAttempts]
        /\ \A t \in Shells \ {s} : attempt'[t] = attempt[t]
    BY <1>0, <1>a, <1>b DEF Step, Mkdir, WriteTmp, UndoMkdir, RenameTmp, ReadOwner, Judge, SweepPid,
       SweepDir, Scan, CheckOwner, ReleasePid, ReleaseDir
  <1> DEFINE Fine(point, r) ==
               /\ Lands(s, point, r)
               /\ point = "tmp" => s \in tmp'
               /\ r = "supervisor" => point \in {"release", "rmpid", "rmlock", "gone"}
               /\ point \notin {"release", "gone"} => attempt'[s] < MaxAttempts
             Landed == \E point \in Points, r \in {"worker", "supervisor"} : Fine(point, r)
  <1>3. ASSUME Return(s), role[s] = "supervisor" => attempt'[s] < MaxAttempts PROVE Landed
    <2>1. {"release", "start", "gone"} \subseteq Points
      BY DEF Points
    <2>2. CASE Lands(s, "release", "supervisor")
      BY <2>1, <2>2
    <2>3. CASE Lands(s, "start", "worker") /\ role[s] = "supervisor"
      BY <1>3, <2>1, <2>3
    <2>4. CASE Lands(s, "gone", role[s])
      BY <1>a, <2>1, <2>4
    <2> QED
      BY <1>0, <1>3, <2>2, <2>3, <2>4, ReturnLands
  <1>4. ASSUME NEW point \in Points, Goto(s, point), point = "tmp" => s \in tmp',
               role[s] = "supervisor" => point \in {"release", "rmpid", "rmlock", "gone"},
               point \notin {"release", "gone"} => attempt'[s] < MaxAttempts
        PROVE  Landed
    <2>1. Lands(s, point, role[s])
      BY <1>0, <1>4 DEF Goto, Lands
    <2> QED
      BY <1>a, <1>4, <2>1
  <1>5. Landed
    <2> HIDE DEF Landed
    <2>1. CASE Mkdir(s)
      BY <1>0, <1>b, <1>4, <2>1 DEF Mkdir, Points
    <2>2. CASE WriteTmp(s)
      BY <1>0, <1>b, <1>4, <2>2 DEF WriteTmp, Points
    <2>3. CASE RenameTmp(s)
      BY <1>0, <1>b, <1>4, <2>3 DEF RenameTmp, Points
    <2>4. CASE ReadOwner(s)
      BY <1>0, <1>b, <1>4, <2>4 DEF ReadOwner, Points
    <2>5. CASE Judge(s)
      BY <1>0, <1>b, <1>3, <1>4, <2>5 DEF Judge, Points
    <2>6. CASE SweepPid(s)
      BY <1>0, <1>b, <1>4, <2>6 DEF SweepPid, Points
    <2>7. CASE SweepDir(s)
      BY <1>0, <1>b, <1>3, <1>4, <2>7 DEF SweepDir, Points
    <2>8. CASE Scan(s)
      BY <1>0, <1>b, <1>4, <2>8 DEF Scan, Points
    <2>9. CASE CheckOwner(s)
      <3>1. attempt'[s] = 0
        BY <1>0, <2>9 DEF CheckOwner
      <3> QED
        BY <1>0, <1>a, <1>3, <1>4, <2>9, <3>1 DEF CheckOwner, Points
    <2>10. CASE ReleasePid(s)
      BY <1>0, <1>b, <1>4, <2>10 DEF ReleasePid, Points
    <2>11. CASE ReleaseDir(s) \/ UndoMkdir(s)
      BY <1>0, <1>b, <1>3, <2>11 DEF ReleaseDir, UndoMkdir
    <2> QED
      BY <2>1, <2>2, <2>3, <2>4, <2>5, <2>6, <2>7, <2>8, <2>9, <2>10, <2>11 DEF Step
  <1>6. /\ pc' \in [Shells -> Points]
        /\ role' \in [Shells -> {"worker", "supervisor"}]
        /\ alive' \subseteq Shells
        /\ TmpInv' /\ AttemptInv' /\ RoleInv'
    <2>1. PICK point \in Points, r \in {"worker", "supervisor"} : Fine(point, r)
      BY <1>5
    <2> QED
      BY <1>1, <1>2, <2>1, LandsTypes
  <1> QED
    BY <1>0, <1>1, <1>2, <1>6 DEF TypeInv, TypeOK, LockTypes

\* A killed shell, worker or supervisor leaves the lock as it is.
LEMMA KillTypes ==
    ASSUME TypeInv, NEW s \in Shells, Kill(s) \/ KillWorker(s) \/ OrphanWorker(s)
    PROVE  TypeInv'
  <1>0. /\ TypeOK /\ TmpInv /\ AttemptInv /\ RoleInv
        /\ role[s] \in {"worker", "supervisor"}
        /\ role \in [Shells -> {"worker", "supervisor"}]
        /\ {"release", "start", "gone"} \subseteq Points
    BY DEF TypeInv, TypeOK, Points
  <1>1. ASSUME UNCHANGED <<lock, seen, attempt>>, kills' \in 0..MaxKills, NEW point \in Points,
               NEW r \in {"worker", "supervisor"}, Lands(s, point, r),
               r = "supervisor" => point \in {"release", "rmpid", "rmlock", "gone"},
               point \in {"release", "gone"}
        PROVE  TypeInv'
    <2>1. /\ attempt' \in [Shells -> 0..MaxAttempts] /\ tmp \subseteq tmp' \cup {s}
          /\ \A t \in Shells \ {s} : attempt'[t] = attempt[t]
      BY <1>0, <1>1 DEF TypeOK, lock
    <2>2. /\ pc' \in [Shells -> Points] /\ role' \in [Shells -> {"worker", "supervisor"}]
          /\ alive' \subseteq Shells /\ TmpInv' /\ AttemptInv' /\ RoleInv'
      BY <1>1, <2>1, LandsTypes
    <2> QED
      BY <1>0, <1>1, <2>2 DEF TypeInv, TypeOK, lock
  <1>2. CASE Kill(s)
    <2>1. Lands(s, "gone", role[s]) /\ UNCHANGED <<lock, seen, attempt>> /\ kills' \in 0..MaxKills
      BY <1>0, <1>2 DEF Kill, Lands, TypeOK
    <2> QED
      BY <1>0, <1>1, <2>1
  <1>3. CASE KillWorker(s)
    <2>1. UNCHANGED <<lock, seen, attempt>> /\ kills' \in 0..MaxKills /\ role[s] = "worker"
      BY <1>0, <1>3 DEF KillWorker, TypeOK
    <2>2. Lands(s, "release", "supervisor") \/ Lands(s, "gone", role[s])
      BY <1>0, <1>3, <2>1, ReturnLands DEF KillWorker
    <2> QED
      BY <1>0, <1>1, <2>1, <2>2
  <1>4. CASE OrphanWorker(s)
    BY <1>0, <1>4 DEF OrphanWorker, TypeInv, TypeOK, TmpInv, AttemptInv, RoleInv, lock
  <1> QED
    BY <1>2, <1>3, <1>4

LEMMA InitTypes == Init => TypeInv
  <1> SUFFICES ASSUME Init PROVE TypeInv
    OBVIOUS
  <1>0. 0 \in 0..MaxAttempts /\ 0 \in 0..MaxKills /\ 0 < MaxAttempts
    OBVIOUS
  <1>a. "start" \in Points
    BY DEF Points
  <1>1. TypeOK
    BY <1>0, <1>a DEF Init, TypeOK
  <1>2. TmpInv /\ AttemptInv /\ RoleInv
    BY DEF Init, TmpInv, AttemptInv, RoleInv
  <1> QED
    BY <1>1, <1>2 DEF TypeInv

LEMMA NextTypes == TypeInv /\ [Next]_vars => TypeInv'
  <1> SUFFICES ASSUME TypeInv, [Next]_vars PROVE TypeInv'
    OBVIOUS
  <1>1. CASE GracePeriodPasses
    BY <1>1 DEF GracePeriodPasses, TypeInv, TypeOK, TmpInv, AttemptInv, RoleInv
  <1>2. CASE UNCHANGED vars
    BY <1>2 DEF vars, lock, TypeInv, TypeOK, TmpInv, AttemptInv, RoleInv
  <1> QED
    BY <1>1, <1>2, StepTypes, KillTypes DEF Next

\* The lock's files and the shells keep their types, wherever shells are killed
\* and however long they stall: no pid file outlives its directory.
THEOREM TypeCorrect == Spec => []TypeOK
  <1>1. TypeInv => TypeOK
    BY DEF TypeInv
  <1> QED
    BY <1>1, InitTypes, NextTypes, PTL DEF Spec


-----------------------------------------------------------------------------
(***************************************************************************)
(* Exclusion while every shell lives                                       *)
(***************************************************************************)
\* From its mkdir to its rmdir a shell holds the lock; one that is about to
\* compare its pid holds it if the comparison will succeed.
Holds(s) ==
    \/ pc[s] \in {"made", "tmp", "scanning", "rmpid", "rmlock"}
    \/ pc[s] = "release" /\ owner = s

\* What the lock of s looks like.
Placed(s) ==
    /\ dir
    /\ owner = IF pc[s] \in {"made", "tmp", "rmlock"} THEN NoOwner ELSE s
    /\ tmp = IF pc[s] = "tmp" THEN {s} ELSE {}

\* Nobody takes a lock away, because no lock looks stale: owners are alive, a
\* lock without owner is young, and so is one that got its owner after somebody
\* found none.
Orderly ==
    /\ \A s \in Shells : pc[s] \notin {"undo", "sweep", "rmdir", "gone"}
    /\ \A s \in Shells : pc[s] = "owned" => seen[s] # NoOwner
    /\ \A s \in Shells : Holds(s) => Placed(s)
    /\ \A s, t \in Shells : Holds(s) /\ Holds(t) => s = t
    /\ dir => \E s \in Shells : Holds(s)
    /\ owner = NoOwner => ~aged
    /\ \A s \in Shells : pc[s] = "ownerless" => ~aged

LockInv == TypeInv /\ (alive = Shells => Orderly)

\* The points at which a killed worker leaves no lock, or one with its pid.
NamedPoints == {"start", "busy", "ownerless", "owned", "scanning", "release", "rmpid"}

\* The owner is the one that holds the lock.
LEMMA OwnerHolds ==
    ASSUME TypeInv, Orderly, NEW s \in Shells, owner = s PROVE Holds(s)
  <1>1. dir /\ owner # NoOwner
    BY DEF TypeInv, TypeOK
  <1>2. PICK h \in Shells : Holds(h)
    BY <1>1 DEF Orderly
  <1>3. Placed(h)
    BY <1>2 DEF Orderly
  <1> QED
    BY <1>1, <1>2, <1>3 DEF Placed

\* While all are alive at the end of a step, only a monitor's shell returns.
LEMMA LiveReturn ==
    ASSUME TypeInv, NEW s \in Shells, Return(s), alive' = Shells
    PROVE  \/ pc' = [pc EXCEPT ![s] = "release"] /\ role[s] = "worker"
           \/ pc' = [pc EXCEPT ![s] = "start"] /\ role[s] = "supervisor"
  <1>1. s \in alive
    BY DEF Return
  <1> QED
    BY <1>1 DEF Return, TypeInv, TypeOK

\* A shell that goes on without the lock, which stays as it is.
LEMMA Bystander ==
    ASSUME TypeInv, Orderly, NEW s \in Shells, ~Holds(s), UNCHANGED lock,
           NEW point \in {"start", "busy", "ownerless", "owned", "release"},
           pc' = [pc EXCEPT ![s] = point],
           \A t \in Shells \ {s} : seen'[t] = seen[t],
           point = "owned" => seen'[s] # NoOwner,
           point = "ownerless" => ~aged
    PROVE  Orderly'
  <1>1. /\ pc'[s] = point /\ \A t \in Shells \ {s} : pc'[t] = pc[t]
        /\ dir' = dir /\ owner' = owner /\ tmp' = tmp /\ aged' = aged
    BY DEF TypeInv, TypeOK, lock
  <1>2. owner # s
    BY OwnerHolds
  <1>3. \A t \in Shells : Holds(t)' <=> Holds(t)
    BY <1>1, <1>2 DEF Holds
  <1>4. \A t \in Shells : Holds(t) => (Placed(t)' <=> Placed(t))
    BY <1>1 DEF Placed
  <1> QED
    BY <1>1, <1>3, <1>4 DEF Orderly

\* The shell that holds the lock goes on to a point where it holds it, too.
LEMMA Holder ==
    ASSUME TypeInv, Orderly, NEW s \in Shells, UNCHANGED seen,
           \A t \in Shells \ {s} : ~Holds(t),
           NEW point \in {"made", "tmp", "scanning", "release", "rmpid", "rmlock"},
           pc' = [pc EXCEPT ![s] = point],
           owner' \in {NoOwner, s},
           Holds(s)', Placed(s)',
           aged' => aged /\ owner' # NoOwner
    PROVE  Orderly'
  <1>1. pc'[s] = point /\ \A t \in Shells \ {s} : pc'[t] = pc[t]
    BY DEF TypeInv, TypeOK
  <1>2. \A t \in Shells \ {s} : ~Holds(t)'
    BY <1>1 DEF Holds
  <1> QED
    BY <1>1, <1>2 DEF Orderly

\* A returning shell that does not hold the lock.
LEMMA ReturnOrderly ==
    ASSUME TypeInv, Orderly, NEW s \in Shells, ~Holds(s), Return(s), alive' = Shells,
           UNCHANGED <<lock, seen>>
    PROVE  Orderly'
  BY LiveReturn, Bystander

LEMMA StepOrderly ==
    ASSUME TypeInv, Orderly, alive = Shells, alive' = Shells, NEW s \in Shells, Step(s)
    PROVE  Orderly'
  <1>0. /\ dir \in BOOLEAN /\ owner \in Shells \cup {NoOwner} /\ pc \in [Shells -> Points]
        /\ seen \in [Shells -> Shells \cup {NoOwner}]
        /\ ~dir => owner = NoOwner /\ tmp = {} /\ ~aged
    BY DEF TypeInv, TypeOK
  <1>a. Holds(s) => Placed(s) /\ \A t \in Shells \ {s} : ~Holds(t)
    BY DEF Orderly
  <1>1. CASE Mkdir(s)
    <2>1. ~Holds(s)
      BY <1>1 DEF Mkdir, Holds
    <2>2. CASE dir
      BY <1>1, <2>1, <2>2, Bystander DEF Mkdir, Goto
    <2>3. CASE ~dir
      <3>1. \A t \in Shells : ~Holds(t)
        BY <2>3 DEF Orderly, Placed
      <3>2. /\ pc' = [pc EXCEPT ![s] = "made"] /\ dir' /\ ~aged' /\ owner' = NoOwner /\ tmp' = {}
            /\ UNCHANGED seen
        BY <1>0, <1>1, <2>3 DEF Mkdir, Goto
      <3>3. Holds(s)' /\ Placed(s)'
        BY <1>0, <3>2 DEF Holds, Placed
      <3> QED
        BY <3>1, <3>2, <3>3, Holder
    <2> QED
      BY <2>2, <2>3
  <1>2. CASE WriteTmp(s)
    <2>1. Holds(s) /\ pc[s] = "made"
      BY <1>2 DEF WriteTmp, Holds
    <2>2. dir /\ owner = NoOwner /\ tmp = {}
      BY <1>a, <2>1 DEF Placed
    <2>3. /\ pc' = [pc EXCEPT ![s] = "tmp"] /\ dir' /\ ~aged' /\ owner' = NoOwner /\ tmp' = {s}
          /\ UNCHANGED seen
      BY <1>2, <2>2 DEF WriteTmp, Goto
    <2>4. Holds(s)' /\ Placed(s)'
      BY <1>0, <2>3 DEF Holds, Placed
    <2> QED
      BY <1>a, <2>1, <2>3, <2>4, Holder
  <1>3. CASE RenameTmp(s)
    <2>1. Holds(s) /\ pc[s] = "tmp"
      BY <1>3 DEF RenameTmp, Holds
    <2>2. dir /\ tmp = {s}
      BY <1>a, <2>1 DEF Placed
    <2>3. /\ pc' = [pc EXCEPT ![s] = "scanning"] /\ dir' /\ ~aged' /\ owner' = s /\ tmp' = {}
          /\ UNCHANGED seen
      BY <1>3, <2>2 DEF RenameTmp, Goto
    <2>4. Holds(s)' /\ Placed(s)'
      BY <1>0, <2>3 DEF Holds, Placed
    <2> QED
      BY <1>a, <2>1, <2>3, <2>4, Holder
  <1>4. CASE ReadOwner(s)
    <2>1. ~Holds(s)
      BY <1>4 DEF ReadOwner, Holds
    <2>2. /\ UNCHANGED lock
          /\ \A t \in Shells \ {s} : seen'[t] = seen[t]
          /\ seen'[s] = owner
          /\ pc' = [pc EXCEPT ![s] = IF owner = NoOwner THEN "ownerless" ELSE "owned"]
      BY <1>0, <1>4 DEF ReadOwner, Goto
    <2>3. CASE owner = NoOwner
      <3>1. ~aged
        BY <2>3 DEF Orderly
      <3> QED
        BY <2>1, <2>2, <2>3, <3>1, Bystander
    <2>4. CASE owner # NoOwner
      BY <2>1, <2>2, <2>4, Bystander
    <2> QED
      BY <2>3, <2>4
  <1>5. CASE Judge(s)
    <2>1. ~Holds(s) /\ pc[s] \in {"owned", "ownerless"}
      BY <1>5 DEF Judge, Holds
    <2>2. ~Stale(s)
      BY <1>0, <2>1 DEF Stale, Orderly
    <2> QED
      BY <1>5, <2>1, <2>2, ReturnOrderly DEF Judge
  <1>6. CASE UndoMkdir(s) \/ SweepPid(s) \/ SweepDir(s)
    BY <1>6 DEF UndoMkdir, SweepPid, SweepDir, Orderly
  <1>7. CASE Scan(s)
    <2>1. Holds(s) /\ pc[s] = "scanning"
      BY <1>7 DEF Scan, Holds
    <2>2. dir /\ owner = s /\ tmp = {}
      BY <1>a, <2>1 DEF Placed
    <2>3. pc' = [pc EXCEPT ![s] = "release"] /\ UNCHANGED <<dir, owner, tmp, aged, seen>>
      BY <1>7 DEF Scan, Goto, lock
    <2>4. Holds(s)' /\ Placed(s)'
      BY <1>0, <2>2, <2>3 DEF Holds, Placed
    <2> QED
      BY <1>a, <2>1, <2>2, <2>3, <2>4, Holder
  <1>8. CASE CheckOwner(s)
    <2>1. pc[s] = "release" /\ UNCHANGED <<lock, seen>>
      BY <1>8 DEF CheckOwner
    <2>2. CASE Releases(s)
      <3>1. Holds(s) /\ owner = s /\ dir
        BY <2>1, <2>2 DEF Holds, Releases
      <3>2. pc' = [pc EXCEPT ![s] = "rmpid"] /\ UNCHANGED <<dir, owner, tmp, aged, seen>>
        BY <1>8, <2>2 DEF CheckOwner, Goto, lock
      <3>3. tmp = {}
        BY <1>a, <2>1, <3>1 DEF Placed
      <3>4. Holds(s)' /\ Placed(s)'
        BY <1>0, <3>1, <3>2, <3>3 DEF Holds, Placed
      <3> QED
        BY <1>a, <3>1, <3>2, <3>4, Holder
    <2>3. CASE ~Releases(s)
      <3>1. ~Holds(s)
        BY <1>0, <2>1, <2>3 DEF Holds, Releases
      <3> QED
        BY <1>8, <2>1, <2>3, <3>1, ReturnOrderly DEF CheckOwner
    <2> QED
      BY <2>2, <2>3
  <1>9. CASE ReleasePid(s)
    <2>1. Holds(s) /\ pc[s] = "rmpid"
      BY <1>9 DEF ReleasePid, Holds
    <2>2. dir /\ owner = s /\ tmp = {}
      BY <1>a, <2>1 DEF Placed
    <2>3. /\ pc' = [pc EXCEPT ![s] = "rmlock"] /\ dir' /\ ~aged' /\ owner' = NoOwner /\ tmp' = {}
          /\ UNCHANGED seen
      BY <1>9, <2>2 DEF ReleasePid, RemovePid, Goto
    <2>4. Holds(s)' /\ Placed(s)'
      BY <1>0, <2>3 DEF Holds, Placed
    <2> QED
      BY <1>a, <2>1, <2>3, <2>4, Holder
  <1>10. CASE ReleaseDir(s)
    <2>1. Holds(s) /\ pc[s] = "rmlock"
      BY <1>10 DEF ReleaseDir, Holds
    <2>2. Removable /\ owner = NoOwner /\ \A t \in Shells \ {s} : ~Holds(t)
      BY <1>a, <2>1 DEF Placed, Removable
    <2>3. ~dir' /\ ~aged' /\ owner' = NoOwner /\ UNCHANGED seen
      BY <1>10, <2>2 DEF ReleaseDir, RemoveDir
    <2>4. PICK point \in {"release", "start"} : pc' = [pc EXCEPT ![s] = point]
      BY <1>10, LiveReturn DEF ReleaseDir
    <2>5. pc'[s] = point /\ \A t \in Shells \ {s} : pc'[t] = pc[t]
      BY <1>0, <2>4
    <2>6. \A t \in Shells : ~Holds(t)'
      BY <2>2, <2>3, <2>5 DEF Holds
    <2> QED
      BY <2>3, <2>5, <2>6 DEF Orderly
  <1> QED
    BY <1>1, <1>2, <1>3, <1>4, <1>5, <1>6, <1>7, <1>8, <1>9, <1>10 DEF Step

\* A killed worker leaves its lock to its supervisor, if the lock has its pid.
LEMMA KillOrderly ==
    ASSUME TypeInv, Orderly, alive = Shells, alive' = Shells, WorkerKillPoints \subseteq NamedPoints,
           NEW s \in Shells, Kill(s) \/ KillWorker(s) \/ OrphanWorker(s)
    PROVE  Orderly'
  <1>1. KillWorker(s)
    BY DEF Kill, OrphanWorker
  <1>2. UNCHANGED <<lock, seen>> /\ Return(s) /\ pc[s] \in NamedPoints /\ role[s] = "worker"
    BY <1>1 DEF KillWorker
  <1>3. CASE Holds(s)
    <2>1. pc' = [pc EXCEPT ![s] = "release"]
      BY <1>2, LiveReturn
    <2>2. Placed(s) /\ \A t \in Shells \ {s} : ~Holds(t)
      BY <1>3 DEF Orderly
    <2>3. dir /\ owner = s /\ tmp = {}
      BY <1>2, <1>3, <2>2 DEF Placed, Holds, NamedPoints
    <2>4. UNCHANGED <<dir, owner, tmp, aged, seen>> /\ pc'[s] = "release"
      BY <1>2, <2>1 DEF lock, TypeInv, TypeOK
    <2>5. Holds(s)' /\ Placed(s)'
      BY <2>3, <2>4 DEF Holds, Placed
    <2> QED
      BY <2>1, <2>2, <2>3, <2>4, <2>5, Holder
  <1>4. CASE ~Holds(s)
    BY <1>2, <1>4, ReturnOrderly
  <1> QED
    BY <1>3, <1>4

\* Only a lock with an owner gets old, and none while somebody judges its age.
LEMMA GraceOrderly ==
    ASSUME TypeInv, Orderly, ~MayStall, GracePeriodPasses PROVE Orderly'
  <1>1. dir /\ (\A s \in Shells : ~Midway(s)) /\ UNCHANGED <<dir, owner, tmp, pc, seen>>
    BY DEF GracePeriodPasses
  <1>2. PICK h \in Shells : Holds(h) /\ Placed(h)
    BY <1>1 DEF Orderly
  <1>3. owner = h /\ owner # NoOwner
    BY <1>1, <1>2 DEF Midway, Placed, Holds
  <1>4. \A s \in Shells : pc[s] # "ownerless"
    BY <1>1, <1>3 DEF Midway
  <1>5. \A s \in Shells : (Holds(s)' <=> Holds(s)) /\ (Placed(s)' <=> Placed(s))
    BY <1>1 DEF Holds, Placed
  <1> QED
    BY <1>1, <1>3, <1>4, <1>5 DEF Orderly

\* The dead stay dead.
LEMMA NobodyRevives ==
    ASSUME [Next]_vars PROVE alive' \subseteq alive
  BY DEF Next, vars, GracePeriodPasses, Step, Mkdir, WriteTmp, UndoMkdir, RenameTmp, ReadOwner, Judge,
     SweepPid, SweepDir, Scan, CheckOwner, ReleasePid, ReleaseDir, Kill, KillWorker, OrphanWorker,
     Goto, Return

\* The invariant, for any number of shells.
THEOREM LockInvariance ==
    ASSUME ~MayStall, WorkerKillPoints \subseteq NamedPoints PROVE Spec => []LockInv
  <1>1. Init => LockInv
    <2> SUFFICES ASSUME Init PROVE Orderly
      BY InitTypes DEF LockInv
    <2> QED
      BY DEF Init, Orderly, Holds
  <1>2. LockInv /\ [Next]_vars => LockInv'
    <2> SUFFICES ASSUME LockInv, [Next]_vars, alive' = Shells PROVE Orderly'
      BY NextTypes DEF LockInv
    <2>1. TypeInv /\ alive = Shells /\ Orderly
      <3>1. TypeInv /\ alive \subseteq Shells
        BY DEF LockInv, TypeInv, TypeOK
      <3> QED
        BY <3>1, NobodyRevives DEF LockInv
    <2>2. CASE UNCHANGED vars
      BY <2>1, <2>2 DEF vars, lock, Orderly, Holds, Placed
    <2> QED
      BY <2>1, <2>2, StepOrderly, KillOrderly, GraceOrderly DEF Next
  <1> QED
    BY <1>1, <1>2, PTL DEF Spec

\* Any number of monitors and manual scans never scan together, whatever workers
\* are killed, until the first of them has ended or its supervisor has died.
THEOREM ExclusionWhileAllLive ==
    ASSUME ~MayStall, WorkerKillPoints \subseteq NamedPoints
    PROVE  Spec => [](alive = Shells => MutualExclusion)
  <1>1. LockInv => (alive = Shells => MutualExclusion)
    BY DEF LockInv, Orderly, Holds, MutualExclusion
  <1> QED
    BY <1>1, LockInvariance, PTL

\* Two contenders never scan together: once one of them is dead there is no
\* other that is alive, and until then nobody takes a lock away.
THEOREM TwoContendersExclude ==
    ASSUME ~MayStall, WorkerKillPoints \subseteq NamedPoints,
           NEW a, NEW b, Shells = {a, b}
    PROVE  Spec => []LiveExclusion
  <1>1. LockInv => LiveExclusion
    <2> SUFFICES ASSUME LockInv, NEW s \in alive, NEW t \in alive, s # t,
                        pc[s] = "scanning", pc[t] = "scanning"
                 PROVE  FALSE
      BY DEF LiveExclusion
    <2>1. alive \subseteq Shells
      BY DEF LockInv, TypeInv, TypeOK
    <2>2. alive = Shells
      BY <2>1
    <2> QED
      BY <2>2 DEF LockInv, Orderly, Holds
  <1> QED
    BY <1>1, LockInvariance, PTL

=============================================================================
