---------------------------- MODULE IntelInstall ----------------------------
(***************************************************************************)
(* Threat intelligence bundles on an endpoint (internal/intel/install.go,  *)
(* trust.go, sign.go): Install publishes a verified bundle by writing      *)
(* bundles/bundle-<hash>.json and then replacing current.json; ReadCurrent *)
(* follows the pointer without a lock.                                     *)
(*                                                                         *)
(* Threads of one process exclude each other by a mutex, threads of two    *)
(* processes do not.  Any process may be killed, and the machine may lose  *)
(* power: a rename is visible at once and durable when its directory is    *)
(* synced, or earlier if the kernel has written it back.                   *)
(***************************************************************************)
EXTENDS Naturals, FiniteSets

CONSTANTS
    Threads,
    Processes,
    Bundles,       \* bundles publishers have signed
    Trusted,       \* those a trusted key signed, well-formed and in their time window
    MaxAttempts,   \* maxCurrentReadAttempts
    MaxFaults,     \* bound: kills, power failures, I/O errors
    None

ASSUME BundleAssumption ==
    /\ \A b \in Bundles : b.seq \in Nat \ {0}
    /\ None \notin Bundles
    /\ Trusted \subseteq Bundles
ASSUME ThreadAssumption == None \notin Threads
ASSUME IntelBoundsAssumption == MaxAttempts \in Nat \ {0} /\ MaxFaults \in Nat

VARIABLES
    home,     \* home[t]: the process thread t is in; never changes
    dirs,     \* how many of the directory and its bundles/ exist
    files,    \* bundles in bundles/
    synced,   \* those whose directory entry is durable
    current,  \* the bundle current.json points to, or None
    durable,  \* what current.json may be after a power failure: the pointer of
              \* the last directory sync and of every rename since
    lock,     \* lock[p]: the thread of p in Install's critical section
    job,      \* job[t]: what thread t is doing
    faults,
    acked,    \* history: the bundle an Install last reported as current,
              \* kept until two processes overlap
    raced,    \* history: two processes have been in Install at once
    adopted   \* history: an Install has built on a rename nobody had synced

vars == <<home, dirs, files, synced, current, durable, lock, job, faults, acked, raced, adopted>>
disk == <<home, dirs, files, synced, current, durable>>
history == <<acked, raced, adopted>>

Steps == {"idle", "mkdir", "inspect", "stat", "open", "bundle", "write",
          "sync", "publish", "settle"}
Job == [ step : Steps, bundle : Bundles \cup {None},
         found : Bundles \cup {None}, attempts : 0 .. MaxAttempts - 1, stale : BOOLEAN,
         dangling : BOOLEAN ]

Idle ==
    [ step |-> "idle", bundle |-> None, found |-> None,
      attempts |-> 0, stale |-> FALSE, dangling |-> FALSE ]

-----------------------------------------------------------------------------
(***************************************************************************)
(* Acceptance                                                              *)
(***************************************************************************)
\* The fields of AcceptanceState: those the signature, the key and the times of
\* a bundle are not part of.
SameAcceptance(a, b) == a.seq = b.seq /\ a.id = b.id /\ a.payload = b.payload

\* Variant: any bundle with a sequence not below the last one is accepted.
VerifySequenceOnly(b, last) == b \in Trusted /\ (last # None => b.seq >= last.seq)

\* Verify, with the rollback and conflict checks at its end.  The last accepted
\* bundle is the current one: no caller passes a LastAccepted of its own.
Verify(b, last) ==
    /\ b \in Trusted
    /\ last # None => b.seq > last.seq \/ SameAcceptance(b, last)

-----------------------------------------------------------------------------
(***************************************************************************)
(* Install and ReadCurrent                                                 *)
(***************************************************************************)
At(t, step) == job[t].step = step
Go(t, step) == job' = [job EXCEPT ![t].step = step]
Installing(t) == job[t].bundle # None

\* The thread's call ends; Install's deferred Unlock runs.
End(t, last) ==
    /\ job' = [job EXCEPT ![t] = last]
    /\ lock' = [p \in Processes |-> IF lock[p] = t THEN None ELSE lock[p]]

Return(t) == End(t, Idle)

\* Variant: an error leaves the mutex locked.
RefuseHolding(t) == job' = [job EXCEPT ![t] = Idle] /\ UNCHANGED lock

\* The call ends with an error, ErrCurrentState among them.
Refuse(t) == End(t, Idle)

\* Install up to its lock; nobody enters while a thread of the process holds it.
StartInstall(t, b) ==
    /\ At(t, "idle")
    /\ lock[home[t]] = None
    /\ lock' = [lock EXCEPT ![home[t]] = t]
    /\ job' = [job EXCEPT ![t] = [Idle EXCEPT !.step = "mkdir", !.bundle = b]]
    /\ raced' = (raced \/ \E p \in Processes \ {home[t]} : lock[p] # None)
    /\ acked' = IF raced' THEN None ELSE acked
    /\ UNCHANGED <<disk, faults, adopted>>

\* ReadCurrent, as the "current" command calls it, first inspects the directories.
StartRead(t) ==
    /\ At(t, "idle")
    /\ job' = [job EXCEPT ![t] = [Idle EXCEPT !.step = "inspect"]]
    /\ UNCHANGED <<disk, lock, faults, history>>

\* ensurePrivateDirectory of the directory, then of bundles/; ReadCurrent's own
\* inspection follows and finds both.
MakeDirectory(t) ==
    /\ At(t, "mkdir")
    /\ \/ dirs < 2 /\ dirs' = dirs + 1 /\ UNCHANGED job
       \/ dirs = 2 /\ Go(t, "stat") /\ UNCHANGED dirs
    /\ UNCHANGED <<home, files, synced, current, durable, lock, faults, history>>

Acknowledge(b) == acked' = IF raced THEN None ELSE b

\* Install has read the current bundle: Verify, and the early return when the
\* very same bytes are installed again.
Decide(t, found) ==
    LET b == job[t].bundle
    IN IF ~Verify(b, found)
       THEN Refuse(t) /\ UNCHANGED <<acked, adopted>>
       ELSE IF found = b
       THEN /\ Return(t)
            /\ Acknowledge(b)
            /\ adopted' = (adopted \/ durable # {b} \/ b \notin synced)
       ELSE /\ job' = [job EXCEPT ![t] = [Idle EXCEPT !.step = "write", !.bundle = b]]
            /\ UNCHANGED <<lock, acked, adopted>>

\* ReadCurrent found a bundle, or ErrNoCurrentBundle when it is None.
Found(t, found) ==
    /\ IF Installing(t) THEN Decide(t, found) ELSE Return(t) /\ UNCHANGED <<acked, adopted>>
    /\ UNCHANGED raced

\* inspectPrivateDirectory of both directories.
Inspect(t) ==
    /\ At(t, "inspect")
    /\ CASE dirs = 0 -> Found(t, None)
         [] dirs = 1 -> Refuse(t) /\ UNCHANGED history
         [] dirs = 2 -> Go(t, "stat") /\ UNCHANGED <<lock, history>>
    /\ UNCHANGED <<disk, faults>>

\* readSecureRegularFile of current.json: Lstat, ...
StatCurrent(t) ==
    /\ At(t, "stat")
    /\ IF current = None
       THEN Found(t, None)
       ELSE /\ job' = [job EXCEPT ![t].step = "open", ![t].stale = FALSE]
            /\ UNCHANGED <<lock, history>>
    /\ UNCHANGED <<disk, faults>>

\* errFileChanged is retried a bounded number of times.
Retries(t) == job[t].attempts + 1 < MaxAttempts

\* ... Open, and SameFile of the two.
OpenCurrent(t) ==
    /\ At(t, "open")
    /\ IF ~job[t].stale
       THEN /\ job' = [job EXCEPT ![t].step = "bundle", ![t].found = current]
            /\ UNCHANGED lock
       ELSE IF Retries(t)
       THEN /\ job' = [job EXCEPT ![t].step = "stat", ![t].attempts = @ + 1]
            /\ UNCHANGED lock
       ELSE Refuse(t)
    /\ UNCHANGED <<disk, faults, history>>

\* The bundle the pointer named, which must have the hash the pointer gave.
ReadBundle(t) ==
    /\ At(t, "bundle")
    /\ IF job[t].found \in files
       THEN Found(t, job[t].found)
       ELSE End(t, [Idle EXCEPT !.dangling = TRUE]) /\ UNCHANGED history
    /\ UNCHANGED <<disk, faults>>

\* Variant: the pointer is replaced before the bundle is there.
WriteImmutableLater(t) ==
    /\ At(t, "write")
    /\ Go(t, "publish")
    /\ UNCHANGED <<disk, lock, faults, history>>

\* writeImmutableFile: a file that is there is neither written nor synced again,
\* another one is renamed into place.
WriteImmutable(t) ==
    /\ At(t, "write")
    /\ IF job[t].bundle \in files
       THEN /\ Go(t, "publish")
            /\ adopted' = (adopted \/ job[t].bundle \notin synced)
            /\ UNCHANGED files
       ELSE /\ Go(t, "sync")
            /\ files' = files \cup {job[t].bundle}
            /\ UNCHANGED adopted
    /\ UNCHANGED <<home, dirs, synced, current, durable, lock, faults, acked, raced>>

SyncBundles(t) ==
    /\ At(t, "sync")
    /\ synced' = files
    /\ Go(t, "publish")
    /\ UNCHANGED <<home, dirs, files, current, durable, lock, faults, history>>

\* Variant: bundles nobody points to are removed.
PublishCollecting(t) ==
    /\ At(t, "publish")
    /\ current' = job[t].bundle
    /\ files' = {job[t].bundle}
    /\ synced' = {job[t].bundle}
    /\ durable' = durable \cup {job[t].bundle}
    /\ job' = [s \in Threads |-> IF s = t THEN [job[s] EXCEPT !.step = "settle"]
                                 ELSE [job[s] EXCEPT !.stale = At(s, "open")]]
    /\ UNCHANGED <<home, dirs, lock, faults, history>>

\* The rename of writeAtomicFile: whoever has done its Lstat notices.
Publish(t) ==
    /\ At(t, "publish")
    /\ current' = job[t].bundle
    /\ durable' = durable \cup {job[t].bundle}
    /\ job' = [s \in Threads |-> IF s = t THEN [job[s] EXCEPT !.step = "settle"]
                                 ELSE [job[s] EXCEPT !.stale = At(s, "open")]]
    /\ UNCHANGED <<home, dirs, files, synced, lock, faults, history>>

\* Variant: the directory is not synced before Install returns.
ReturnUnsynced(t) ==
    /\ At(t, "settle")
    /\ Acknowledge(job[t].bundle)
    /\ Return(t)
    /\ UNCHANGED <<disk, faults, raced, adopted>>

SyncCurrent(t) ==
    /\ At(t, "settle")
    /\ durable' = {current}
    /\ Acknowledge(job[t].bundle)
    /\ Return(t)
    /\ UNCHANGED <<home, dirs, files, synced, current, faults, raced, adopted>>

-----------------------------------------------------------------------------
(***************************************************************************)
(* Faults                                                                  *)
(***************************************************************************)
Fault == faults < MaxFaults /\ faults' = faults + 1

\* An I/O error, or a cancelled context.
Fail(t) ==
    /\ Fault
    /\ Installing(t)
    /\ Refuse(t)
    /\ UNCHANGED <<disk, history>>

Kill(p) ==
    /\ Fault
    /\ job' = [t \in Threads |-> IF home[t] = p THEN Idle ELSE job[t]]
    /\ lock' = [lock EXCEPT ![p] = None]
    /\ UNCHANGED <<disk, history>>

\* Renames that were not synced may have been written back all the same, the
\* pointer's in their order.
PowerFailure ==
    /\ Fault
    /\ \E back \in SUBSET (files \ synced) : files' = synced \cup back
    /\ current' \in durable
    /\ synced' = files'
    /\ durable' = {current'}
    /\ job' = [t \in Threads |-> Idle]
    /\ lock' = [p \in Processes |-> None]
    /\ UNCHANGED <<home, dirs, history>>

-----------------------------------------------------------------------------
Init ==
    /\ home \in [Threads -> Processes]
    /\ dirs = 0
    /\ files = {}
    /\ synced = {}
    /\ current = None
    /\ durable = {None}
    /\ lock = [p \in Processes |-> None]
    /\ job = [t \in Threads |-> Idle]
    /\ faults = 0
    /\ acked = None
    /\ raced = FALSE
    /\ adopted = FALSE

Step(t) ==
    \/ MakeDirectory(t)
    \/ Inspect(t)
    \/ StatCurrent(t)
    \/ OpenCurrent(t)
    \/ ReadBundle(t)
    \/ WriteImmutable(t)
    \/ SyncBundles(t)
    \/ Publish(t)
    \/ SyncCurrent(t)

Next ==
    \/ \E t \in Threads :
          \/ \E b \in Bundles : StartInstall(t, b)
          \/ StartRead(t)
          \/ Step(t)
          \/ Fail(t)
    \/ \E p \in Processes : Kill(p)
    \/ PowerFailure

Spec == Init /\ [][Next]_vars

Newest == {b \in Trusted : \A other \in Trusted : b.seq >= other.seq}

\* A call that was begun goes on, and a newest bundle is installed again and
\* again: the mutex of a process lets everyone in eventually.
Fairness ==
    /\ \A t \in Threads : WF_vars(Step(t))
    /\ SF_vars(\E t \in Threads, b \in Newest : StartInstall(t, b))

-----------------------------------------------------------------------------
\* The types of the files and of the threads' state.
TypeOK ==
    /\ home \in [Threads -> Processes]
    /\ dirs \in 0..2
    /\ files \subseteq Bundles
    /\ synced \subseteq files
    /\ current \in Bundles \cup {None}
    /\ durable \subseteq Bundles \cup {None}
    /\ lock \in [Processes -> Threads \cup {None}]
    /\ job \in [Threads -> Job]
    /\ faults \in 0..MaxFaults
    /\ acked \in Bundles \cup {None}
    /\ raced \in BOOLEAN
    /\ adopted \in BOOLEAN

\* current.json never dangles, whatever is killed and whenever the power fails:
\* the bundle it names was there first.  The one exception is an Install that
\* finds a bundle file a killed Install had renamed and not synced, which it
\* does not sync either (writeImmutableFile's early return).
CurrentResolves == current # None /\ ~adopted => current \in files

\* What an Install has reported as current is not rolled back: unless two
\* updater processes overlapped, current is that bundle, one that differs in
\* nothing acceptance looks at, or one with a higher sequence, also after kills
\* and power failures (with the exception of CurrentResolves).
AckedStays ==
    acked # None /\ ~raced /\ ~adopted =>
        current # None /\ (current.seq > acked.seq \/ SameAcceptance(current, acked))

\* A reader without a lock gets a whole bundle, the one its pointer named, also
\* when the pointer moves on before it opens the bundle.
ReadsAreWhole == \A t \in Threads : job[t].dangling => adopted

\* Nothing unverified is ever current, and unless two updater processes
\* overlapped, no two bundles of one sequence replace each other but those that
\* carry the same records under the same id, although every Install decides on a
\* pointer it has read before.  A power failure may bring back any pointer renamed
\* since the last directory sync, also one between the synced and the newest: it
\* goes back in the sequence, never to a rival.
NoEquivocation ==
    [][current' # None /\ current # None /\ current' # current =>
          /\ current' \in Trusted
          /\ \/ raced
             \/ current'.seq > current.seq
             \/ SameAcceptance(current, current')
             \/ PowerFailure /\ current'.seq < current.seq]_vars

\* After any kills, I/O errors and power failures the newest bundle becomes
\* current when it is installed again, and stays: no crash wedges the directory
\* but the one of CurrentResolves.
NewestSettles ==
    <>[](\/ raced
         \/ adopted
         \/ current \in Newest)
=============================================================================
