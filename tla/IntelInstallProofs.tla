------------------------- MODULE IntelInstallProofs -------------------------
(***************************************************************************)
(* Proofs about IntelInstall for any number of threads, processes, bundles *)
(* and faults: its types, that the pointer resolves and readers get whole  *)
(* bundles, and that an installed bundle is neither rolled back nor        *)
(* replaced by a conflicting one.                                          *)
(***************************************************************************)
EXTENDS IntelInstall, TLAPS

-----------------------------------------------------------------------------
(***************************************************************************)
(* Types                                                                   *)
(***************************************************************************)
\* A call that has ended leaves a well-typed thread.
LEMMA IdleJob == Idle \in Job /\ [Idle EXCEPT !.dangling = TRUE] \in Job
  <1>1. "idle" \in Steps /\ 0 \in 0 .. MaxAttempts - 1
    BY IntelBoundsAssumption DEF Steps
  <1>2. Idle \in Job
    BY <1>1, Zenon DEF Idle, Job
  <1> QED
    BY <1>2 DEF Job

\* Ending a call keeps the types of the mutexes and of the threads.
LEMMA EndTypes ==
    ASSUME TypeOK, NEW t \in Threads, NEW last \in Job, End(t, last)
    PROVE  job' \in [Threads -> Job] /\ lock' \in [Processes -> Threads \cup {None}]
  BY DEF End, TypeOK

\* The outcome of reading the pointer keeps the types.
LEMMA FoundTypes ==
    ASSUME TypeOK, NEW t \in Threads, NEW found \in Bundles \cup {None}, Found(t, found)
    PROVE  /\ job' \in [Threads -> Job] /\ lock' \in [Processes -> Threads \cup {None}]
           /\ acked' \in Bundles \cup {None} /\ adopted' \in BOOLEAN /\ raced' \in BOOLEAN
  <1>1. CASE ~Installing(t)
    BY <1>1, IdleJob, EndTypes DEF Found, Return, TypeOK
  <1>2. CASE Installing(t)
    <2>1. CASE ~Verify(job[t].bundle, found)
      BY <1>2, <2>1, IdleJob, EndTypes DEF Found, Decide, Refuse, TypeOK
    <2>2. CASE Verify(job[t].bundle, found) /\ found = job[t].bundle
      <3>1. Return(t) /\ Acknowledge(found) /\ adopted' \in BOOLEAN /\ raced' = raced
        BY <1>2, <2>2, Zenon DEF Found, Decide, TypeOK
      <3> QED
        BY <3>1, IdleJob, EndTypes DEF Return, Acknowledge, TypeOK
    <2>3. CASE Verify(job[t].bundle, found) /\ found # job[t].bundle
      <3>1. [Idle EXCEPT !.step = "write", !.bundle = job[t].bundle] \in Job
        BY IdleJob DEF Idle, Job, Steps, TypeOK
      <3> QED
        BY <1>2, <2>3, <3>1 DEF Found, Decide, TypeOK
    <2> QED
      BY <2>1, <2>2, <2>3
  <1> QED
    BY <1>1, <1>2

\* A bundle is on its way to the disk only after Verify (the types need it, as
\* writeImmutableFile must have a bundle to write), and a call that has ended
\* or only reads has none.
JobInv ==
    \A t \in Threads :
        /\ job[t].step \in {"write", "sync", "publish", "settle"} => job[t].bundle \in Trusted
        /\ job[t].step \in {"idle", "inspect"} => job[t].bundle = None

LEMMA InitTypes == Init => TypeOK
  <1> SUFFICES ASSUME Init PROVE TypeOK
    OBVIOUS
  <1>1. job \in [Threads -> Job] /\ lock \in [Processes -> Threads \cup {None}]
    BY IdleJob DEF Init
  <1>2. dirs \in 0..2 /\ faults \in 0..MaxFaults
    BY IntelBoundsAssumption DEF Init
  <1> QED
    BY <1>1, <1>2 DEF Init, TypeOK

LEMMA NextTypes == TypeOK /\ JobInv /\ [Next]_vars => TypeOK'
  <1> SUFFICES ASSUME TypeOK, JobInv, [Next]_vars PROVE TypeOK'
    OBVIOUS
  <1> USE IntelBoundsAssumption DEF disk, history
  <1>1. ASSUME NEW t \in Threads, NEW b \in Bundles, StartInstall(t, b) PROVE TypeOK'
    <2>1. [Idle EXCEPT !.step = "mkdir", !.bundle = b] \in Job
      BY IdleJob DEF Idle, Job, Steps
    <2>2. acked' \in Bundles \cup {None} /\ raced' \in BOOLEAN
      BY <1>1 DEF StartInstall, TypeOK
    <2>3. job' \in [Threads -> Job] /\ lock' \in [Processes -> Threads \cup {None}]
      BY <1>1, <2>1 DEF StartInstall, TypeOK
    <2> QED
      BY <1>1, <2>2, <2>3 DEF StartInstall, TypeOK
  <1>2. ASSUME NEW t \in Threads, StartRead(t) PROVE TypeOK'
    <2>1. [Idle EXCEPT !.step = "inspect"] \in Job
      BY IdleJob DEF Idle, Job, Steps
    <2> QED
      BY <1>2, <2>1 DEF StartRead, TypeOK
  <1>3. ASSUME NEW t \in Threads, MakeDirectory(t) PROVE TypeOK'
    BY <1>3 DEF MakeDirectory, Go, TypeOK, Job, Steps
  <1>4. ASSUME NEW t \in Threads, Inspect(t) PROVE TypeOK'
    <2>1. CASE dirs = 0
      BY <1>4, <2>1, FoundTypes DEF Inspect, TypeOK
    <2>2. CASE dirs = 1
      BY <1>4, <2>2, IdleJob, EndTypes DEF Inspect, Refuse, TypeOK
    <2>3. CASE dirs = 2
      BY <1>4, <2>3 DEF Inspect, Go, TypeOK, Job, Steps
    <2> QED
      BY <2>1, <2>2, <2>3 DEF TypeOK
  <1>5. ASSUME NEW t \in Threads, StatCurrent(t) PROVE TypeOK'
    <2>1. CASE current = None
      BY <1>5, <2>1, FoundTypes DEF StatCurrent, TypeOK
    <2>2. CASE current # None
      BY <1>5, <2>2 DEF StatCurrent, TypeOK, Job, Steps
    <2> QED
      BY <2>1, <2>2
  <1>6. ASSUME NEW t \in Threads, OpenCurrent(t) PROVE TypeOK'
    <2>1. CASE ~job[t].stale
      BY <1>6, <2>1 DEF OpenCurrent, TypeOK, Job, Steps
    <2>2. CASE job[t].stale /\ Retries(t)
      BY <1>6, <2>2 DEF OpenCurrent, Retries, TypeOK, Job, Steps
    <2>3. CASE job[t].stale /\ ~Retries(t)
      BY <1>6, <2>3, IdleJob, EndTypes DEF OpenCurrent, Refuse, TypeOK
    <2> QED
      BY <2>1, <2>2, <2>3
  <1>7. ASSUME NEW t \in Threads, ReadBundle(t) PROVE TypeOK'
    <2>1. CASE job[t].found \in files
      <3>1. job[t].found \in Bundles
        BY <2>1 DEF TypeOK
      <3> QED
        BY <1>7, <2>1, <3>1, FoundTypes DEF ReadBundle, TypeOK
    <2>2. CASE job[t].found \notin files
      BY <1>7, <2>2, IdleJob, EndTypes DEF ReadBundle, TypeOK
    <2> QED
      BY <2>1, <2>2
  <1>8. ASSUME NEW t \in Threads, WriteImmutable(t) PROVE TypeOK'
    <2>1. CASE job[t].bundle \in files
      <3>1. job' \in [Threads -> Job]
        BY <1>8, <2>1 DEF WriteImmutable, Go, TypeOK, Job, Steps
      <3> QED
        BY <1>8, <2>1, <3>1 DEF WriteImmutable, TypeOK
    <2>2. CASE job[t].bundle \notin files
      <3>1. job[t].bundle \in Bundles
        BY <1>8, BundleAssumption DEF WriteImmutable, At, JobInv
      <3> QED
        BY <1>8, <2>2, <3>1 DEF WriteImmutable, Go, TypeOK, Job, Steps
    <2> QED
      BY <2>1, <2>2
  <1>9. ASSUME NEW t \in Threads, SyncBundles(t) PROVE TypeOK'
    BY <1>9 DEF SyncBundles, Go, TypeOK, Job, Steps
  <1>10. ASSUME NEW t \in Threads, Publish(t) PROVE TypeOK'
    <2>1. \A s \in Threads : [job[s] EXCEPT !.step = "settle"] \in Job
      BY DEF TypeOK, Job, Steps
    <2>2. \A s \in Threads : At(s, "open") \in BOOLEAN
      BY DEF At
    <2>3. \A s \in Threads : [job[s] EXCEPT !.stale = At(s, "open")] \in Job
      BY <2>2 DEF TypeOK, Job
    <2>4. job' \in [Threads -> Job]
      BY <1>10, <2>1, <2>3 DEF Publish
    <2>5. job[t].bundle \in Bundles \cup {None}
      BY DEF TypeOK, Job
    <2> QED
      BY <1>10, <2>4, <2>5 DEF Publish, TypeOK
  <1>11. ASSUME NEW t \in Threads, SyncCurrent(t) PROVE TypeOK'
    <2>1. job[t].bundle \in Bundles \cup {None}
      BY DEF TypeOK, Job
    <2>2. acked' \in Bundles \cup {None}
      BY <1>11, <2>1 DEF SyncCurrent, Acknowledge, TypeOK
    <2> QED
      BY <1>11, <2>2, IdleJob, EndTypes DEF SyncCurrent, Return, TypeOK
  <1>12. ASSUME NEW t \in Threads, Fail(t) PROVE TypeOK'
    BY <1>12, IdleJob, EndTypes DEF Fail, Fault, Refuse, TypeOK
  <1>13. ASSUME NEW p \in Processes, Kill(p) PROVE TypeOK'
    BY <1>13, IdleJob DEF Kill, Fault, TypeOK
  <1>14. ASSUME PowerFailure PROVE TypeOK'
    BY <1>14, IdleJob DEF PowerFailure, Fault, TypeOK
  <1>15. ASSUME UNCHANGED vars PROVE TypeOK'
    BY <1>15 DEF vars, TypeOK
  <1> QED
    BY <1>1, <1>2, <1>3, <1>4, <1>5, <1>6, <1>7, <1>8, <1>9, <1>10, <1>11, <1>12,
       <1>13, <1>14, <1>15 DEF Next, Step

\* Only Decide lets a thread past Verify, and a bundle stays what it is.
LEMMA FoundJobInv ==
    ASSUME TypeOK, JobInv, NEW t \in Threads, NEW found, Found(t, found)
    PROVE  JobInv'
  <1>1. CASE job' = [job EXCEPT ![t] = Idle]
    BY <1>1 DEF JobInv, TypeOK, Idle
  <1>2. CASE /\ Verify(job[t].bundle, found)
             /\ job' = [job EXCEPT ![t] = [Idle EXCEPT !.step = "write", !.bundle = job[t].bundle]]
    BY <1>2 DEF JobInv, TypeOK, Idle, Verify
  <1> QED
    BY <1>1, <1>2 DEF Found, Decide, Refuse, Return, End

LEMMA NextJobInv == TypeOK /\ JobInv /\ [Next]_vars => JobInv'
  <1> SUFFICES ASSUME TypeOK, JobInv, [Next]_vars PROVE JobInv'
    OBVIOUS
  <1> USE DEF At, Go
  <1>0. ASSUME NEW t \in Threads, NEW j, job' = [job EXCEPT ![t] = j],
               j.step \notin {"write", "sync", "publish", "settle"},
               j.step \in {"idle", "inspect"} => j.bundle = None
        PROVE  JobInv'
    BY <1>0 DEF JobInv, TypeOK
  <1>1. ASSUME NEW t \in Threads, NEW b \in Bundles, StartInstall(t, b) PROVE JobInv'
    BY <1>0, <1>1 DEF StartInstall, Idle
  <1>2. ASSUME NEW t \in Threads, StartRead(t) PROVE JobInv'
    BY <1>0, <1>2 DEF StartRead, Idle
  <1>3. ASSUME NEW t \in Threads, MakeDirectory(t) PROVE JobInv'
    BY <1>3 DEF MakeDirectory, JobInv, TypeOK, Job
  <1>4. ASSUME NEW t \in Threads, Inspect(t) PROVE JobInv'
    <2>1. CASE dirs = 0
      BY <1>4, <2>1, FoundJobInv DEF Inspect
    <2>2. CASE dirs = 1
      <3>1. job' = [job EXCEPT ![t] = Idle]
        BY <1>4, <2>2 DEF Inspect, Refuse, End
      <3> QED
        BY <1>0, <3>1 DEF Idle
    <2>3. CASE dirs = 2
      <3>1. job' = [job EXCEPT ![t].step = "stat"]
        BY <1>4, <2>3 DEF Inspect
      <3> QED
        BY <3>1 DEF JobInv, TypeOK, Job
    <2> QED
      BY <2>1, <2>2, <2>3 DEF TypeOK
  <1>5. ASSUME NEW t \in Threads, StatCurrent(t) PROVE JobInv'
    <2>1. CASE current = None
      BY <1>5, <2>1, FoundJobInv DEF StatCurrent
    <2>2. CASE current # None
      BY <1>5, <2>2 DEF StatCurrent, JobInv, TypeOK, Job
    <2> QED
      BY <2>1, <2>2
  <1>6. ASSUME NEW t \in Threads, OpenCurrent(t) PROVE JobInv'
    <2>1. CASE ~job[t].stale
      BY <1>6, <2>1 DEF OpenCurrent, JobInv, TypeOK, Job
    <2>2. CASE job[t].stale /\ Retries(t)
      BY <1>6, <2>2 DEF OpenCurrent, JobInv, TypeOK, Job
    <2>3. CASE job[t].stale /\ ~Retries(t)
      BY <1>0, <1>6, <2>3 DEF OpenCurrent, Refuse, End, Idle
    <2> QED
      BY <2>1, <2>2, <2>3
  <1>7. ASSUME NEW t \in Threads, ReadBundle(t) PROVE JobInv'
    <2>1. CASE job[t].found \in files
      BY <1>7, <2>1, FoundJobInv DEF ReadBundle
    <2>2. CASE job[t].found \notin files
      BY <1>0, <1>7, <2>2 DEF ReadBundle, End, Idle
    <2> QED
      BY <2>1, <2>2
  <1>8. ASSUME NEW t \in Threads, WriteImmutable(t) PROVE JobInv'
    BY <1>8 DEF WriteImmutable, JobInv, TypeOK, Job
  <1>9. ASSUME NEW t \in Threads, SyncBundles(t) PROVE JobInv'
    BY <1>9 DEF SyncBundles, JobInv, TypeOK, Job
  <1>10. ASSUME NEW t \in Threads, Publish(t) PROVE JobInv'
    BY <1>10 DEF Publish, JobInv, TypeOK, Job
  <1>11. ASSUME NEW t \in Threads, SyncCurrent(t) PROVE JobInv'
    BY <1>0, <1>11 DEF SyncCurrent, Return, End, Idle
  <1>12. ASSUME NEW t \in Threads, Fail(t) PROVE JobInv'
    BY <1>0, <1>12 DEF Fail, Refuse, End, Idle
  <1>13. ASSUME NEW p \in Processes, Kill(p) PROVE JobInv'
    BY <1>13 DEF Kill, JobInv, Idle
  <1>14. ASSUME PowerFailure PROVE JobInv'
    BY <1>14 DEF PowerFailure, JobInv, Idle
  <1>15. ASSUME UNCHANGED vars PROVE JobInv'
    BY <1>15 DEF vars, JobInv
  <1> QED
    BY <1>1, <1>2, <1>3, <1>4, <1>5, <1>6, <1>7, <1>8, <1>9, <1>10, <1>11, <1>12,
       <1>13, <1>14, <1>15 DEF Next, Step

\* Whatever is killed and whenever the power fails, the files hold bundles and
\* a thread retries reading the pointer fewer than MaxAttempts times.
THEOREM TypeCorrect == Spec => []TypeOK
  <1>1. Init => TypeOK /\ JobInv
    BY InitTypes DEF Init, JobInv, Idle
  <1>2. (TypeOK /\ JobInv) /\ [Next]_vars => (TypeOK /\ JobInv)'
    BY NextTypes, NextJobInv
  <1> QED
    BY <1>1, <1>2, PTL DEF Spec

-----------------------------------------------------------------------------
(***************************************************************************)
(* The inductive invariant: the mutexes are held by installing threads;    *)
(* until an Install adopts a rename nobody had synced, what the pointer    *)
(* names, now or after a power failure, is durable; until two processes    *)
(* overlap, an Install decides on the pointer it replaces.                 *)
(***************************************************************************)
MutexInv ==
    /\ \A t \in Threads : Installing(t) <=> lock[home[t]] = t
    /\ \A p \in Processes : lock[p] # None => home[lock[p]] = p

TrustedPointer == current \in durable /\ durable \subseteq Trusted \cup {None}

DurableThread(t) ==
    /\ At(t, "open") => current # None
    /\ At(t, "sync") => job[t].bundle \in files
    /\ ~adopted =>
          /\ job[t].step \in {"publish", "settle"} => job[t].bundle \in synced
          /\ At(t, "bundle") => job[t].found \in synced
          /\ ~job[t].dangling

DurableInv ==
    /\ ~adopted => current \in synced \cup {None} /\ durable \subseteq synced \cup {None}
    /\ \A t \in Threads : DurableThread(t)

\* The bundle an Install has chosen may follow the current one.
Decided(t) ==
    /\ At(t, "bundle") => job[t].found = current
    /\ job[t].step \in {"write", "sync", "publish"} => Verify(job[t].bundle, current)
    /\ At(t, "settle") => current = job[t].bundle

SerialInv ==
    ~raced =>
        /\ \A p, q \in Processes : lock[p] # None /\ lock[q] # None => p = q
        /\ \A t \in Threads : Installing(t) => Decided(t)

\* b is at least as new as a for all that acceptance looks at.
AtLeast(b, a) == b # None /\ (b.seq > a.seq \/ SameAcceptance(b, a))

AckedInv ==
    acked # None /\ ~raced /\ ~adopted =>
        AtLeast(current, acked) /\ \A d \in durable : AtLeast(d, acked)

\* The pointers a power failure may bring back all came before the current one.
OrderInv == ~raced => \A d \in durable \ {None} : AtLeast(current, d)

-----------------------------------------------------------------------------
\* What ReadCurrent's outcome leads to: the call ends without effect, the same
\* bundle is acknowledged again, or the thread goes on to write its bundle.
LEMMA FoundCases ==
    ASSUME NEW t \in Threads, NEW found, Found(t, found)
    PROVE  /\ raced' = raced
           /\ \/ End(t, Idle) /\ acked' = acked /\ adopted' = adopted
              \/ /\ Installing(t)
                 /\ found = job[t].bundle
                 /\ End(t, Idle)
                 /\ acked' = IF raced THEN None ELSE job[t].bundle
                 /\ adopted' = (adopted \/ durable # {job[t].bundle} \/ job[t].bundle \notin synced)
              \/ /\ Installing(t)
                 /\ Verify(job[t].bundle, found)
                 /\ job' = [job EXCEPT ![t] = [Idle EXCEPT !.step = "write",
                                                          !.bundle = job[t].bundle]]
                 /\ lock' = lock /\ acked' = acked /\ adopted' = adopted
  <1>1. CASE ~Installing(t)
    BY <1>1 DEF Found, Return
  <1>2. CASE Installing(t) /\ ~Verify(job[t].bundle, found)
    BY <1>2 DEF Found, Decide, Refuse
  <1>3. CASE Installing(t) /\ Verify(job[t].bundle, found) /\ found = job[t].bundle
    BY <1>3 DEF Found, Decide, Return, Acknowledge
  <1>4. CASE Installing(t) /\ Verify(job[t].bundle, found) /\ found # job[t].bundle
    BY <1>4 DEF Found, Decide
  <1> QED
    BY <1>1, <1>2, <1>3, <1>4

(***************************************************************************)
(* The mutexes                                                             *)
(***************************************************************************)
\* A step that neither takes nor releases a mutex keeps the invariant.
LEMMA KeepMutex ==
    ASSUME MutexInv, lock' = lock, home' = home,
           \A s \in Threads : job'[s].bundle = job[s].bundle
    PROVE  MutexInv'
  BY DEF MutexInv, Installing

\* The call of one thread ends, with the deferred Unlock.
LEMMA EndMutex ==
    ASSUME TypeOK, MutexInv, NEW t \in Threads, NEW last, last.bundle = None,
           End(t, last), home' = home
    PROVE  MutexInv'
  <1>1. job'[t].bundle = None /\ lock'[home[t]] # t
    BY ThreadAssumption DEF End, TypeOK
  <1>2. ASSUME NEW s \in Threads, s # t
        PROVE  job'[s] = job[s] /\ (lock'[home[s]] = s <=> lock[home[s]] = s)
    BY <1>2, ThreadAssumption DEF End, TypeOK
  <1>3. ASSUME NEW p \in Processes, lock'[p] # None PROVE lock'[p] = lock[p]
    BY <1>3 DEF End
  <1> QED
    BY <1>1, <1>2, <1>3 DEF MutexInv, Installing

LEMMA FoundMutex ==
    ASSUME TypeOK, MutexInv, NEW t \in Threads, NEW found, Found(t, found), home' = home
    PROVE  MutexInv'
  <1>1. CASE End(t, Idle)
    BY <1>1, EndMutex DEF Idle
  <1>2. CASE /\ job' = [job EXCEPT ![t] = [Idle EXCEPT !.step = "write",
                                                       !.bundle = job[t].bundle]]
             /\ lock' = lock
    BY <1>2, KeepMutex DEF Idle, TypeOK
  <1> QED
    BY <1>1, <1>2, FoundCases

LEMMA NextMutex == TypeOK /\ JobInv /\ MutexInv /\ [Next]_vars => MutexInv'
  <1> SUFFICES ASSUME TypeOK, JobInv, MutexInv, [Next]_vars PROVE MutexInv'
    OBVIOUS
  <1> USE DEF At, Go, disk
  <1>1. ASSUME NEW t \in Threads, NEW b \in Bundles, StartInstall(t, b) PROVE MutexInv'
    <2>1. b # None /\ t # None
      BY BundleAssumption, ThreadAssumption
    <2>2. job'[t].bundle = b /\ lock'[home[t]] = t /\ home' = home
      BY <1>1 DEF StartInstall, Idle, TypeOK
    <2>3. ASSUME NEW s \in Threads, s # t
          PROVE  job'[s] = job[s] /\ (lock'[home[s]] = s <=> lock[home[s]] = s)
      BY <1>1, <2>3, ThreadAssumption DEF StartInstall, TypeOK
    <2>4. ASSUME NEW p \in Processes, lock'[p] # None PROVE home[lock'[p]] = p
      BY <1>1, <2>4 DEF StartInstall, TypeOK, MutexInv
    <2> QED
      BY <2>1, <2>2, <2>3, <2>4 DEF MutexInv, Installing
  <1>2. ASSUME NEW t \in Threads, StartRead(t) PROVE MutexInv'
    BY <1>2, KeepMutex DEF StartRead, Idle, TypeOK, JobInv
  <1>3. ASSUME NEW t \in Threads, MakeDirectory(t) PROVE MutexInv'
    BY <1>3, KeepMutex DEF MakeDirectory, TypeOK, Job
  <1>4. ASSUME NEW t \in Threads, Inspect(t) PROVE MutexInv'
    <2>1. CASE dirs = 0
      BY <1>4, <2>1, FoundMutex DEF Inspect
    <2>2. CASE dirs = 1
      BY <1>4, <2>2, EndMutex DEF Inspect, Refuse, Idle
    <2>3. CASE dirs = 2
      BY <1>4, <2>3, KeepMutex DEF Inspect, TypeOK, Job
    <2> QED
      BY <2>1, <2>2, <2>3 DEF TypeOK
  <1>5. ASSUME NEW t \in Threads, StatCurrent(t) PROVE MutexInv'
    <2>1. CASE current = None
      BY <1>5, <2>1, FoundMutex DEF StatCurrent
    <2>2. CASE current # None
      BY <1>5, <2>2, KeepMutex DEF StatCurrent, TypeOK, Job
    <2> QED
      BY <2>1, <2>2
  <1>6. ASSUME NEW t \in Threads, OpenCurrent(t) PROVE MutexInv'
    <2>1. CASE ~job[t].stale
      BY <1>6, <2>1, KeepMutex DEF OpenCurrent, TypeOK, Job
    <2>2. CASE job[t].stale /\ Retries(t)
      BY <1>6, <2>2, KeepMutex DEF OpenCurrent, TypeOK, Job
    <2>3. CASE job[t].stale /\ ~Retries(t)
      BY <1>6, <2>3, EndMutex DEF OpenCurrent, Refuse, Idle
    <2> QED
      BY <2>1, <2>2, <2>3
  <1>7. ASSUME NEW t \in Threads, ReadBundle(t) PROVE MutexInv'
    <2>1. CASE job[t].found \in files
      BY <1>7, <2>1, FoundMutex DEF ReadBundle
    <2>2. CASE job[t].found \notin files
      BY <1>7, <2>2, EndMutex DEF ReadBundle, Idle
    <2> QED
      BY <2>1, <2>2
  <1>8. ASSUME NEW t \in Threads, WriteImmutable(t) PROVE MutexInv'
    BY <1>8, KeepMutex DEF WriteImmutable, TypeOK, Job
  <1>9. ASSUME NEW t \in Threads, SyncBundles(t) PROVE MutexInv'
    BY <1>9, KeepMutex DEF SyncBundles, TypeOK, Job
  <1>10. ASSUME NEW t \in Threads, Publish(t) PROVE MutexInv'
    BY <1>10, KeepMutex DEF Publish, TypeOK, Job
  <1>11. ASSUME NEW t \in Threads, SyncCurrent(t) PROVE MutexInv'
    BY <1>11, EndMutex DEF SyncCurrent, Return, Idle
  <1>12. ASSUME NEW t \in Threads, Fail(t) PROVE MutexInv'
    BY <1>12, EndMutex DEF Fail, Refuse, Idle
  <1>13. ASSUME NEW p \in Processes, Kill(p) PROVE MutexInv'
    <2>1. ASSUME NEW t \in Threads PROVE (Installing(t) <=> lock[home[t]] = t)'
      <3>1. CASE home[t] = p
        BY <1>13, <3>1, ThreadAssumption DEF Kill, Installing, Idle, TypeOK
      <3>2. CASE home[t] # p
        BY <1>13, <3>2 DEF Kill, MutexInv, Installing, TypeOK
      <3> QED
        BY <3>1, <3>2
    <2> QED
      BY <1>13, <2>1 DEF Kill, MutexInv, TypeOK
  <1>14. ASSUME PowerFailure PROVE MutexInv'
    BY <1>14, ThreadAssumption DEF PowerFailure, MutexInv, Installing, Idle, TypeOK
  <1>15. ASSUME UNCHANGED vars PROVE MutexInv'
    BY <1>15 DEF vars, MutexInv, Installing
  <1> QED
    BY <1>1, <1>2, <1>3, <1>4, <1>5, <1>6, <1>7, <1>8, <1>9, <1>10, <1>11, <1>12,
       <1>13, <1>14, <1>15 DEF Next, Step

-----------------------------------------------------------------------------
(***************************************************************************)
(* What the pointer names is trusted and durable                           *)
(***************************************************************************)
LEMMA NextTrusted == TypeOK /\ JobInv /\ TrustedPointer /\ [Next]_vars => TrustedPointer'
  <1> SUFFICES ASSUME TypeOK, JobInv, TrustedPointer, [Next]_vars PROVE TrustedPointer'
    OBVIOUS
  <1> USE DEF TrustedPointer
  <1>1. ASSUME NEW t \in Threads, Publish(t) PROVE TrustedPointer'
    BY <1>1 DEF Publish, At, JobInv
  <1>2. ASSUME NEW t \in Threads, SyncCurrent(t) PROVE TrustedPointer'
    BY <1>2 DEF SyncCurrent
  <1>3. ASSUME PowerFailure PROVE TrustedPointer'
    BY <1>3 DEF PowerFailure
  <1>4. CASE UNCHANGED <<current, durable>>
    BY <1>4
  <1> QED
    BY <1>1, <1>2, <1>3, <1>4 DEF Next, Step, StartInstall, StartRead, MakeDirectory, Inspect,
       StatCurrent, OpenCurrent, ReadBundle, WriteImmutable, SyncBundles, Fail, Kill, disk, vars

\* A step of one thread that leaves the pointer alone and removes nothing.
LEMMA KeepDurable ==
    ASSUME TypeOK, DurableInv, NEW t \in Threads, current' = current, durable' = durable,
           files \subseteq files', synced \subseteq synced', adopted => adopted',
           \A s \in Threads \ {t} : job'[s] = job[s],
           DurableThread(t)'
    PROVE  DurableInv'
  <1>1. ASSUME NEW s \in Threads \ {t} PROVE DurableThread(s)'
    BY <1>1 DEF DurableInv, DurableThread, At
  <1> QED
    BY <1>1 DEF DurableInv

\* A call that ends claims nothing about the files.
LEMMA EndDurable ==
    ASSUME TypeOK, DurableInv, NEW t \in Threads, End(t, Idle),
           current' = current, durable' = durable, files' = files, synced' = synced,
           adopted => adopted'
    PROVE  DurableInv'
  <1>1. job'[t] = Idle /\ \A s \in Threads \ {t} : job'[s] = job[s]
    BY DEF End, TypeOK
  <1>2. DurableThread(t)'
    BY <1>1 DEF DurableThread, At, Idle
  <1> QED
    BY <1>1, <1>2, KeepDurable

LEMMA FoundDurable ==
    ASSUME TypeOK, DurableInv, NEW t \in Threads, NEW found, Found(t, found), UNCHANGED disk
    PROVE  DurableInv'
  <1> USE DEF disk
  <1>0. adopted => adopted'
    BY FoundCases
  <1>1. CASE End(t, Idle)
    BY <1>0, <1>1, EndDurable
  <1>2. CASE /\ job' = [job EXCEPT ![t] = [Idle EXCEPT !.step = "write",
                                                       !.bundle = job[t].bundle]]
             /\ adopted' = adopted
    <2>1. DurableThread(t)'
      BY <1>2 DEF DurableThread, At, Idle, TypeOK
    <2> QED
      BY <1>2, <2>1, KeepDurable DEF TypeOK
  <1> QED
    BY <1>1, <1>2, FoundCases

LEMMA NextDurable == TypeOK /\ JobInv /\ DurableInv /\ [Next]_vars => DurableInv'
  <1> SUFFICES ASSUME TypeOK, JobInv, DurableInv, [Next]_vars PROVE DurableInv'
    OBVIOUS
  <1> USE DEF Go, disk, history
  <1>1. ASSUME NEW t \in Threads, NEW b \in Bundles, StartInstall(t, b) PROVE DurableInv'
    <2>1. DurableThread(t)'
      BY <1>1 DEF StartInstall, DurableThread, At, Idle, TypeOK
    <2> QED
      BY <1>1, <2>1, KeepDurable DEF StartInstall, TypeOK
  <1>2. ASSUME NEW t \in Threads, StartRead(t) PROVE DurableInv'
    <2>1. DurableThread(t)'
      BY <1>2 DEF StartRead, DurableThread, At, Idle, TypeOK
    <2> QED
      BY <1>2, <2>1, KeepDurable DEF StartRead, TypeOK
  <1>3. ASSUME NEW t \in Threads, MakeDirectory(t) PROVE DurableInv'
    <2>1. DurableThread(t)'
      BY <1>3 DEF MakeDirectory, DurableInv, DurableThread, At, TypeOK, Job
    <2> QED
      BY <1>3, <2>1, KeepDurable DEF MakeDirectory, TypeOK
  <1>4. ASSUME NEW t \in Threads, Inspect(t) PROVE DurableInv'
    <2>1. CASE dirs = 0
      BY <1>4, <2>1, FoundDurable DEF Inspect
    <2>2. CASE dirs = 1
      BY <1>4, <2>2, EndDurable DEF Inspect, Refuse
    <2>3. CASE dirs = 2
      <3>1. DurableThread(t)'
        BY <1>4, <2>3 DEF Inspect, DurableInv, DurableThread, At, TypeOK, Job
      <3> QED
        BY <1>4, <2>3, <3>1, KeepDurable DEF Inspect, TypeOK
    <2> QED
      BY <2>1, <2>2, <2>3 DEF TypeOK
  <1>5. ASSUME NEW t \in Threads, StatCurrent(t) PROVE DurableInv'
    <2>1. CASE current = None
      BY <1>5, <2>1, FoundDurable DEF StatCurrent
    <2>2. CASE current # None
      <3>1. DurableThread(t)'
        BY <1>5, <2>2 DEF StatCurrent, DurableInv, DurableThread, At, TypeOK, Job
      <3> QED
        BY <1>5, <2>2, <3>1, KeepDurable DEF StatCurrent, TypeOK
    <2> QED
      BY <2>1, <2>2
  <1>6. ASSUME NEW t \in Threads, OpenCurrent(t) PROVE DurableInv'
    <2>1. CASE ~job[t].stale
      <3>1. DurableThread(t)'
        BY <1>6, <2>1 DEF OpenCurrent, DurableInv, DurableThread, At, TypeOK, Job
      <3> QED
        BY <1>6, <2>1, <3>1, KeepDurable DEF OpenCurrent, TypeOK
    <2>2. CASE job[t].stale /\ Retries(t)
      <3>1. DurableThread(t)'
        BY <1>6, <2>2 DEF OpenCurrent, DurableInv, DurableThread, At, TypeOK, Job
      <3> QED
        BY <1>6, <2>2, <3>1, KeepDurable DEF OpenCurrent, TypeOK
    <2>3. CASE job[t].stale /\ ~Retries(t)
      BY <1>6, <2>3, EndDurable DEF OpenCurrent, Refuse
    <2> QED
      BY <2>1, <2>2, <2>3
  <1>7. ASSUME NEW t \in Threads, ReadBundle(t) PROVE DurableInv'
    <2>1. CASE job[t].found \in files
      BY <1>7, <2>1, FoundDurable DEF ReadBundle
    <2>2. CASE job[t].found \notin files
      \* Only a bundle that was never durable can be missing.
      <3>1. adopted
        BY <1>7, <2>2 DEF ReadBundle, DurableInv, DurableThread, At, TypeOK
      <3>2. DurableThread(t)'
        BY <1>7, <2>2, <3>1 DEF ReadBundle, End, DurableThread, At, Idle, TypeOK
      <3> QED
        BY <1>7, <2>2, <3>2, KeepDurable DEF ReadBundle, End, TypeOK
    <2> QED
      BY <2>1, <2>2
  <1>8. ASSUME NEW t \in Threads, WriteImmutable(t) PROVE DurableInv'
    <2>1. CASE job[t].bundle \in files
      <3>1. DurableThread(t)'
        BY <1>8, <2>1 DEF WriteImmutable, DurableInv, DurableThread, At, TypeOK, Job
      <3> QED
        BY <1>8, <2>1, <3>1, KeepDurable DEF WriteImmutable, TypeOK
    <2>2. CASE job[t].bundle \notin files
      <3>1. DurableThread(t)'
        BY <1>8, <2>2 DEF WriteImmutable, DurableInv, DurableThread, At, TypeOK, Job
      <3> QED
        BY <1>8, <2>2, <3>1, KeepDurable DEF WriteImmutable, TypeOK
    <2> QED
      BY <2>1, <2>2
  <1>9. ASSUME NEW t \in Threads, SyncBundles(t) PROVE DurableInv'
    <2>1. DurableThread(t)'
      BY <1>9 DEF SyncBundles, DurableInv, DurableThread, At, TypeOK, Job
    <2> QED
      BY <1>9, <2>1, KeepDurable DEF SyncBundles, TypeOK
  <1>10. ASSUME NEW t \in Threads, Publish(t) PROVE DurableInv'
    <2>1. current' = job[t].bundle /\ current' # None /\ (~adopted => current' \in synced)
      BY <1>10, BundleAssumption DEF Publish, At, JobInv, DurableInv, DurableThread
    <2>2. ASSUME NEW s \in Threads PROVE DurableThread(s)'
      <3>1. CASE s = t
        BY <1>10, <2>1, <3>1 DEF Publish, DurableInv, DurableThread, At, TypeOK, Job
      <3>2. CASE s # t
        BY <1>10, <2>1, <3>2 DEF Publish, DurableInv, DurableThread, At, TypeOK, Job
      <3> QED
        BY <3>1, <3>2
    <2> QED
      BY <1>10, <2>1, <2>2 DEF Publish, DurableInv
  <1>11. ASSUME NEW t \in Threads, SyncCurrent(t) PROVE DurableInv'
    <2>1. job'[t] = Idle /\ \A s \in Threads \ {t} : job'[s] = job[s]
      BY <1>11 DEF SyncCurrent, Return, End, TypeOK
    <2>2. ASSUME NEW s \in Threads PROVE DurableThread(s)'
      BY <1>11, <2>1 DEF SyncCurrent, DurableInv, DurableThread, At, Idle
    <2> QED
      BY <1>11, <2>2 DEF SyncCurrent, DurableInv
  <1>12. ASSUME NEW t \in Threads, Fail(t) PROVE DurableInv'
    BY <1>12, EndDurable DEF Fail, Refuse
  <1>13. ASSUME NEW p \in Processes, Kill(p) PROVE DurableInv'
    <2>1. ASSUME NEW s \in Threads PROVE DurableThread(s)'
      BY <1>13 DEF Kill, DurableInv, DurableThread, At, Idle
    <2> QED
      BY <1>13, <2>1 DEF Kill, DurableInv
  <1>14. ASSUME PowerFailure PROVE DurableInv'
    <2>1. ASSUME NEW s \in Threads PROVE DurableThread(s)'
      BY <1>14 DEF PowerFailure, DurableThread, At, Idle
    <2>2. synced \subseteq synced' /\ adopted' = adopted
      BY <1>14 DEF PowerFailure
    <2> QED
      BY <1>14, <2>1, <2>2 DEF PowerFailure, DurableInv
  <1>15. ASSUME UNCHANGED vars PROVE DurableInv'
    BY <1>15 DEF vars, DurableInv, DurableThread, At
  <1> QED
    BY <1>1, <1>2, <1>3, <1>4, <1>5, <1>6, <1>7, <1>8, <1>9, <1>10, <1>11, <1>12,
       <1>13, <1>14, <1>15 DEF Next, Step

-----------------------------------------------------------------------------
(***************************************************************************)
(* One Install at a time decides on the pointer it replaces                *)
(***************************************************************************)
\* While no two processes have overlapped, one thread at most is installing.
LEMMA Alone ==
    ASSUME TypeOK, MutexInv, SerialInv, ~raced,
           NEW t \in Threads, NEW s \in Threads, Installing(t), Installing(s)
    PROVE  s = t
  <1>1. lock[home[t]] = t /\ lock[home[s]] = s /\ home[t] \in Processes /\ home[s] \in Processes
    BY DEF MutexInv, TypeOK
  <1> QED
    BY <1>1, ThreadAssumption DEF SerialInv

\* A step of one thread that leaves the pointer alone and takes no mutex.
LEMMA KeepSerial ==
    ASSUME SerialInv, NEW t \in Threads, current' = current, raced' = raced,
           \A p \in Processes : lock'[p] # None => lock[p] # None,
           \A s \in Threads \ {t} : job'[s] = job[s],
           ~raced /\ Installing(t)' => Decided(t)'
    PROVE  SerialInv'
  <1>1. ASSUME NEW s \in Threads \ {t}, ~raced, Installing(s)' PROVE Decided(s)'
    BY <1>1 DEF SerialInv, Decided, Installing, At, Verify, SameAcceptance
  <1> QED
    BY <1>1 DEF SerialInv

\* A call that ends decides nothing.
LEMMA EndSerial ==
    ASSUME TypeOK, SerialInv, NEW t \in Threads, NEW last, last.bundle = None, End(t, last),
           current' = current, raced' = raced
    PROVE  SerialInv'
  <1>1. job'[t] = last /\ \A s \in Threads \ {t} : job'[s] = job[s]
    BY DEF End, TypeOK
  <1>2. \A p \in Processes : lock'[p] # None => lock[p] # None
    BY DEF End
  <1> QED
    BY <1>1, <1>2, KeepSerial DEF Installing

\* What Install has read is the pointer it will replace.
LEMMA FoundSerial ==
    ASSUME TypeOK, SerialInv, NEW t \in Threads, NEW found, Found(t, found), UNCHANGED disk,
           ~raced /\ Installing(t) => found = current
    PROVE  SerialInv'
  <1> USE DEF disk
  <1>0. raced' = raced
    BY FoundCases
  <1>1. CASE End(t, Idle)
    BY <1>0, <1>1, EndSerial DEF Idle
  <1>2. CASE /\ Installing(t)
             /\ Verify(job[t].bundle, found)
             /\ job' = [job EXCEPT ![t] = [Idle EXCEPT !.step = "write",
                                                       !.bundle = job[t].bundle]]
             /\ lock' = lock
    <2>1. job'[t].step = "write" /\ job'[t].bundle = job[t].bundle
      BY <1>2 DEF Idle, TypeOK
    <2>2. ~raced => Verify(job[t].bundle, current)
      BY <1>2
    <2>3. ~raced => Decided(t)'
      BY <2>1, <2>2 DEF Decided, At, Verify, SameAcceptance
    <2> QED
      BY <1>0, <1>2, <2>3, KeepSerial DEF TypeOK
  <1> QED
    BY <1>1, <1>2, FoundCases

LEMMA NextSerial ==
    TypeOK /\ JobInv /\ MutexInv /\ SerialInv /\ [Next]_vars => SerialInv'
  <1> SUFFICES ASSUME TypeOK, JobInv, MutexInv, SerialInv, [Next]_vars PROVE SerialInv'
    OBVIOUS
  <1> USE DEF Go, disk, history
  <1>1. ASSUME NEW t \in Threads, NEW b \in Bundles, StartInstall(t, b) PROVE SerialInv'
    <2>1. ASSUME NEW s \in Threads, ~raced', Installing(s)' PROVE Decided(s)'
      <3>1. CASE s = t
        BY <1>1, <3>1 DEF StartInstall, Decided, At, Idle, TypeOK
      <3>2. CASE s # t
        BY <1>1, <2>1, <3>2 DEF StartInstall, SerialInv, Decided, Installing, At, Verify,
                                SameAcceptance, TypeOK
      <3> QED
        BY <3>1, <3>2
    <2>2. ASSUME NEW p \in Processes, ~raced', lock'[p] # None PROVE p = home[t]
      BY <1>1, <2>2 DEF StartInstall, TypeOK
    <2> QED
      BY <2>1, <2>2 DEF SerialInv
  <1>2. ASSUME NEW t \in Threads, StartRead(t) PROVE SerialInv'
    <2>1. ~Installing(t)'
      BY <1>2 DEF StartRead, Installing, Idle, TypeOK
    <2> QED
      BY <1>2, <2>1, KeepSerial DEF StartRead, TypeOK
  <1>3. ASSUME NEW t \in Threads, MakeDirectory(t) PROVE SerialInv'
    <2>1. job'[t].step \in {"mkdir", "stat"}
      BY <1>3 DEF MakeDirectory, At, TypeOK, Job
    <2>2. Decided(t)'
      BY <2>1 DEF Decided, At
    <2> QED
      BY <1>3, <2>2, KeepSerial DEF MakeDirectory, TypeOK
  <1>4. ASSUME NEW t \in Threads, Inspect(t) PROVE SerialInv'
    <2>1. CASE dirs = 0
      BY <1>4, <2>1, FoundSerial DEF Inspect, At, JobInv, Installing
    <2>2. CASE dirs = 1
      BY <1>4, <2>2, EndSerial DEF Inspect, Refuse, Idle
    <2>3. CASE dirs = 2
      <3>1. Decided(t)'
        BY <1>4, <2>3 DEF Inspect, Decided, At, TypeOK, Job
      <3> QED
        BY <1>4, <2>3, <3>1, KeepSerial DEF Inspect, TypeOK
    <2> QED
      BY <2>1, <2>2, <2>3 DEF TypeOK
  <1>5. ASSUME NEW t \in Threads, StatCurrent(t) PROVE SerialInv'
    <2>1. CASE current = None
      BY <1>5, <2>1, FoundSerial DEF StatCurrent
    <2>2. CASE current # None
      <3>1. Decided(t)'
        BY <1>5, <2>2 DEF StatCurrent, Decided, At, TypeOK, Job
      <3> QED
        BY <1>5, <2>2, <3>1, KeepSerial DEF StatCurrent, TypeOK
    <2> QED
      BY <2>1, <2>2
  <1>6. ASSUME NEW t \in Threads, OpenCurrent(t) PROVE SerialInv'
    <2>1. CASE ~job[t].stale
      <3>1. Decided(t)'
        BY <1>6, <2>1 DEF OpenCurrent, Decided, At, TypeOK, Job
      <3> QED
        BY <1>6, <2>1, <3>1, KeepSerial DEF OpenCurrent, TypeOK
    <2>2. CASE job[t].stale /\ Retries(t)
      <3>1. Decided(t)'
        BY <1>6, <2>2 DEF OpenCurrent, Decided, At, TypeOK, Job
      <3> QED
        BY <1>6, <2>2, <3>1, KeepSerial DEF OpenCurrent, TypeOK
    <2>3. CASE job[t].stale /\ ~Retries(t)
      BY <1>6, <2>3, EndSerial DEF OpenCurrent, Refuse, Idle
    <2> QED
      BY <2>1, <2>2, <2>3
  <1>7. ASSUME NEW t \in Threads, ReadBundle(t) PROVE SerialInv'
    <2>1. CASE job[t].found \in files
      <3>1. ~raced /\ Installing(t) => job[t].found = current
        BY <1>7 DEF ReadBundle, SerialInv, Decided
      <3> QED
        BY <1>7, <2>1, <3>1, FoundSerial DEF ReadBundle
    <2>2. CASE job[t].found \notin files
      BY <1>7, <2>2, EndSerial DEF ReadBundle, Idle
    <2> QED
      BY <2>1, <2>2
  <1>8. ASSUME NEW t \in Threads, WriteImmutable(t) PROVE SerialInv'
    <2>1. Installing(t)' = Installing(t) /\ job'[t].bundle = job[t].bundle
          /\ job'[t].step \in {"sync", "publish"}
      BY <1>8 DEF WriteImmutable, Installing, TypeOK, Job
    <2>2. ~raced /\ Installing(t)' => Decided(t)'
      BY <1>8, <2>1 DEF WriteImmutable, SerialInv, Decided, At, Verify, SameAcceptance
    <2> QED
      BY <1>8, <2>2, KeepSerial DEF WriteImmutable, TypeOK
  <1>9. ASSUME NEW t \in Threads, SyncBundles(t) PROVE SerialInv'
    <2>1. Installing(t)' = Installing(t) /\ job'[t].bundle = job[t].bundle
          /\ job'[t].step = "publish"
      BY <1>9 DEF SyncBundles, Installing, TypeOK, Job
    <2>2. ~raced /\ Installing(t)' => Decided(t)'
      BY <1>9, <2>1 DEF SyncBundles, SerialInv, Decided, At, Verify, SameAcceptance
    <2> QED
      BY <1>9, <2>2, KeepSerial DEF SyncBundles, TypeOK
  <1>10. ASSUME NEW t \in Threads, Publish(t) PROVE SerialInv'
    <2>1. Installing(t)
      BY <1>10, BundleAssumption DEF Publish, At, JobInv, Installing
    <2>2. ASSUME NEW s \in Threads, ~raced', Installing(s)' PROVE Decided(s)'
      <3>1. s = t
        BY <1>10, <2>1, <2>2, Alone DEF Publish, Installing, TypeOK, Job
      <3> QED
        BY <1>10, <3>1 DEF Publish, Decided, At, TypeOK, Job
    <2> QED
      BY <1>10, <2>2 DEF Publish, SerialInv
  <1>11. ASSUME NEW t \in Threads, SyncCurrent(t) PROVE SerialInv'
    BY <1>11, EndSerial DEF SyncCurrent, Return, Idle
  <1>12. ASSUME NEW t \in Threads, Fail(t) PROVE SerialInv'
    BY <1>12, EndSerial DEF Fail, Refuse, Idle
  <1>13. ASSUME NEW p \in Processes, Kill(p) PROVE SerialInv'
    <2>1. ASSUME NEW s \in Threads, ~raced', Installing(s)' PROVE Decided(s)'
      BY <1>13, <2>1 DEF Kill, SerialInv, Decided, Installing, At, Verify, SameAcceptance, Idle
    <2> QED
      BY <1>13, <2>1 DEF Kill, SerialInv, TypeOK
  <1>14. ASSUME PowerFailure PROVE SerialInv'
    BY <1>14 DEF PowerFailure, SerialInv, Installing, Idle
  <1>15. ASSUME UNCHANGED vars PROVE SerialInv'
    BY <1>15 DEF vars, SerialInv, Installing, Decided, At, Verify, SameAcceptance
  <1> QED
    BY <1>1, <1>2, <1>3, <1>4, <1>5, <1>6, <1>7, <1>8, <1>9, <1>10, <1>11, <1>12,
       <1>13, <1>14, <1>15 DEF Next, Step

-----------------------------------------------------------------------------
(***************************************************************************)
(* What was acknowledged stays                                             *)
(***************************************************************************)
\* A newer bundle than one that is new enough is new enough.
LEMMA VerifiedIsAtLeast ==
    ASSUME NEW b \in Bundles, NEW last \in Bundles \cup {None}, NEW a \in Bundles,
           Verify(b, last), AtLeast(last, a)
    PROVE  AtLeast(b, a)
  <1>1. last \in Bundles /\ b # None /\ a.seq \in Nat /\ b.seq \in Nat /\ last.seq \in Nat
    BY BundleAssumption DEF AtLeast
  <1> QED
    BY <1>1 DEF Verify, AtLeast, SameAcceptance

\* A bundle is at least as new as itself.
LEMMA AtLeastItself == \A b \in Bundles : AtLeast(b, b)
  BY BundleAssumption DEF AtLeast, SameAcceptance

LEMMA KeepAcked ==
    ASSUME AckedInv, acked' = acked \/ acked' = None, current' = current, durable' = durable,
           raced => raced', adopted => adopted'
    PROVE  AckedInv'
  BY DEF AckedInv, AtLeast, SameAcceptance

\* Install acknowledges what it found only when that is the pointer, and either
\* durable or marked as adopted.
LEMMA FoundAcked ==
    ASSUME TypeOK, AckedInv, NEW t \in Threads, NEW found, Found(t, found), UNCHANGED disk,
           ~raced /\ Installing(t) => found = current
    PROVE  AckedInv'
  <1> USE DEF disk
  <1>1. CASE acked' = acked /\ raced' = raced /\ adopted' = adopted
    BY <1>1, KeepAcked
  <1>2. CASE /\ raced' = raced
             /\ Installing(t)
             /\ found = job[t].bundle
             /\ acked' = IF raced THEN None ELSE job[t].bundle
             /\ adopted' = (adopted \/ durable # {job[t].bundle} \/ job[t].bundle \notin synced)
    <2> SUFFICES ASSUME acked' # None, ~raced', ~adopted'
                 PROVE  AtLeast(current', acked') /\ \A d \in durable' : AtLeast(d, acked')
      BY DEF AckedInv
    <2>1. acked' = job[t].bundle /\ current' = acked' /\ durable' = {acked'}
      BY <1>2
    <2>2. acked' \in Bundles
      BY <2>1 DEF TypeOK, Job
    <2> QED
      BY <2>1, <2>2, AtLeastItself
  <1> QED
    BY <1>1, <1>2, FoundCases

LEMMA NextAcked ==
    TypeOK /\ JobInv /\ MutexInv /\ SerialInv /\ AckedInv /\ [Next]_vars => AckedInv'
  <1> SUFFICES ASSUME TypeOK, JobInv, MutexInv, SerialInv, AckedInv, [Next]_vars
               PROVE  AckedInv'
    OBVIOUS
  <1> USE DEF disk, history
  <1>1. ASSUME NEW t \in Threads, NEW b \in Bundles, StartInstall(t, b) PROVE AckedInv'
    BY <1>1, KeepAcked DEF StartInstall
  <1>2. ASSUME NEW t \in Threads, Inspect(t) PROVE AckedInv'
    <2>1. CASE dirs = 0
      BY <1>2, <2>1, FoundAcked DEF Inspect, At, JobInv, Installing
    <2>2. CASE dirs = 1
      BY <1>2, <2>2, KeepAcked DEF Inspect
    <2>3. CASE dirs = 2
      BY <1>2, <2>3, KeepAcked DEF Inspect
    <2> QED
      BY <2>1, <2>2, <2>3 DEF TypeOK
  <1>3. ASSUME NEW t \in Threads, StatCurrent(t) PROVE AckedInv'
    <2>1. CASE current = None
      BY <1>3, <2>1, FoundAcked DEF StatCurrent
    <2>2. CASE current # None
      BY <1>3, <2>2, KeepAcked DEF StatCurrent
    <2> QED
      BY <2>1, <2>2
  <1>4. ASSUME NEW t \in Threads, ReadBundle(t) PROVE AckedInv'
    <2>1. CASE job[t].found \in files
      <3>1. ~raced /\ Installing(t) => job[t].found = current
        BY <1>4 DEF ReadBundle, SerialInv, Decided
      <3> QED
        BY <1>4, <2>1, <3>1, FoundAcked DEF ReadBundle
    <2>2. CASE job[t].found \notin files
      BY <1>4, <2>2, KeepAcked DEF ReadBundle
    <2> QED
      BY <2>1, <2>2
  <1>5. ASSUME NEW t \in Threads, WriteImmutable(t) PROVE AckedInv'
    BY <1>5, KeepAcked DEF WriteImmutable
  <1>6. ASSUME NEW t \in Threads, Publish(t) PROVE AckedInv'
    <2> SUFFICES ASSUME acked' # None, ~raced', ~adopted'
                 PROVE  AtLeast(current', acked') /\ \A d \in durable' : AtLeast(d, acked')
      BY DEF AckedInv
    <2>1. acked' = acked /\ acked \in Bundles /\ durable' = durable \cup {job[t].bundle}
          /\ current' = job[t].bundle /\ AtLeast(current, acked)
          /\ (\A d \in durable : AtLeast(d, acked)) /\ ~raced
      BY <1>6 DEF Publish, AckedInv, TypeOK
    <2>2. job[t].bundle \in Bundles /\ Installing(t)
      BY <1>6, BundleAssumption DEF Publish, At, JobInv, Installing
    <2>3. Verify(job[t].bundle, current)
      BY <1>6, <2>1, <2>2 DEF Publish, At, SerialInv, Decided
    <2>4. current \in Bundles \cup {None}
      BY DEF TypeOK
    <2>5. AtLeast(job[t].bundle, acked)
      BY <2>1, <2>2, <2>3, <2>4, VerifiedIsAtLeast
    <2> QED
      BY <2>1, <2>5
  <1>7. ASSUME NEW t \in Threads, SyncCurrent(t) PROVE AckedInv'
    <2> SUFFICES ASSUME acked' # None, ~raced', ~adopted'
                 PROVE  AtLeast(current', acked') /\ \A d \in durable' : AtLeast(d, acked')
      BY DEF AckedInv
    <2>1. job[t].bundle \in Bundles /\ Installing(t)
      BY <1>7, BundleAssumption DEF SyncCurrent, At, JobInv, Installing
    <2>2. acked' = job[t].bundle /\ ~raced
      BY <1>7 DEF SyncCurrent, Acknowledge
    <2>3. current = job[t].bundle
      BY <1>7, <2>1, <2>2 DEF SyncCurrent, At, SerialInv, Decided
    <2>4. current' = acked' /\ durable' = {acked'}
      BY <1>7, <2>2, <2>3 DEF SyncCurrent
    <2> QED
      BY <2>1, <2>2, <2>4, AtLeastItself
  <1>8. ASSUME PowerFailure PROVE AckedInv'
    BY <1>8 DEF PowerFailure, AckedInv, AtLeast, SameAcceptance
  <1>9. CASE UNCHANGED <<acked, current, durable, raced, adopted>>
    BY <1>9, KeepAcked
  <1> QED
    BY <1>1, <1>2, <1>3, <1>4, <1>5, <1>6, <1>7, <1>8, <1>9 DEF Next, Step, StartRead,
       MakeDirectory, OpenCurrent, SyncBundles, Fail, Kill, vars

\* Every rename follows, in what Verify compares, the ones a power failure may
\* bring back in its place.
LEMMA NextOrder ==
    TypeOK /\ JobInv /\ SerialInv /\ TrustedPointer /\ OrderInv /\ [Next]_vars => OrderInv'
  <1> SUFFICES ASSUME TypeOK, JobInv, SerialInv, TrustedPointer, OrderInv, [Next]_vars
               PROVE  OrderInv'
    OBVIOUS
  <1>1. durable \subseteq Bundles \cup {None} /\ current \in durable
    BY DEF TypeOK, TrustedPointer
  <1>2. raced => raced'
    <2>1. ASSUME NEW t \in Threads, NEW b \in Bundles, StartInstall(t, b) PROVE raced => raced'
      BY <2>1 DEF StartInstall
    <2>2. ASSUME NEW t \in Threads, Inspect(t) PROVE raced' = raced
      <3>1. dirs \in {0, 1, 2}
        BY DEF TypeOK
      <3> QED
        BY <2>2, <3>1 DEF Inspect, Found, history
    <2> QED
      BY <2>1, <2>2 DEF Next, Step, StartRead, MakeDirectory, StatCurrent, OpenCurrent,
         ReadBundle, WriteImmutable, SyncBundles, Publish, SyncCurrent, Found, Fail, Kill,
         PowerFailure, history, vars
  <1>3. ASSUME NEW t \in Threads, Publish(t) PROVE OrderInv'
    <2> SUFFICES ASSUME ~raced, NEW d \in durable' \ {None} PROVE AtLeast(current', d)
      BY <1>2 DEF OrderInv
    <2>1. job[t].bundle \in Bundles /\ Installing(t)
      BY <1>3, BundleAssumption DEF Publish, At, JobInv, Installing
    <2>2. Verify(job[t].bundle, current)
      BY <1>3, <2>1 DEF Publish, At, SerialInv, Decided
    <2>3. current' = job[t].bundle /\ durable' = durable \cup {job[t].bundle}
      BY <1>3 DEF Publish
    <2>4. CASE d = job[t].bundle
      BY <2>1, <2>3, <2>4, AtLeastItself
    <2>5. CASE d \in durable
      <3>1. d \in Bundles /\ AtLeast(current, d)
        BY <1>1, <2>5 DEF OrderInv
      <3> QED
        BY <1>1, <2>1, <2>2, <2>3, <3>1, VerifiedIsAtLeast
    <2> QED
      BY <2>3, <2>4, <2>5
  <1>4. ASSUME durable' = {current'}, current' \in durable PROVE OrderInv'
    BY <1>1, <1>4, AtLeastItself DEF OrderInv
  <1>5. ASSUME NEW t \in Threads, SyncCurrent(t) PROVE OrderInv'
    BY <1>1, <1>4, <1>5 DEF SyncCurrent
  <1>6. ASSUME PowerFailure PROVE OrderInv'
    BY <1>4, <1>6 DEF PowerFailure
  <1>7. CASE UNCHANGED <<current, durable>>
    BY <1>2, <1>7 DEF OrderInv, AtLeast, SameAcceptance
  <1> QED
    BY <1>3, <1>5, <1>6, <1>7 DEF Next, Step, StartInstall, StartRead, MakeDirectory, Inspect,
       StatCurrent, OpenCurrent, ReadBundle, WriteImmutable, SyncBundles, Fail, Kill, disk, vars

-----------------------------------------------------------------------------
(***************************************************************************)
(* Theorems                                                                *)
(***************************************************************************)
InstallInv ==
    /\ TypeOK
    /\ JobInv
    /\ MutexInv
    /\ TrustedPointer
    /\ DurableInv
    /\ SerialInv
    /\ AckedInv
    /\ OrderInv

LEMMA InitInstallInv == Init => InstallInv
  <1> SUFFICES ASSUME Init PROVE InstallInv
    OBVIOUS
  <1>1. TypeOK
    BY InitTypes
  <1>2. JobInv /\ DurableInv /\ SerialInv
    BY DEF Init, Idle, JobInv, DurableInv, DurableThread, SerialInv, Installing, At
  <1>3. MutexInv
    BY ThreadAssumption DEF Init, Idle, MutexInv, Installing
  <1>4. TrustedPointer /\ AckedInv /\ OrderInv
    BY DEF Init, TrustedPointer, AckedInv, OrderInv
  <1> QED
    BY <1>1, <1>2, <1>3, <1>4 DEF InstallInv

\* The invariant the theorems below rest on, for every Spec behaviour.
THEOREM Invariance == Spec => []InstallInv
  <1>1. InstallInv /\ [Next]_vars => InstallInv'
    BY NextTypes, NextJobInv, NextMutex, NextTrusted, NextDurable, NextSerial, NextAcked,
       NextOrder
    DEF InstallInv
  <1> QED
    BY <1>1, InitInstallInv, PTL DEF Spec

\* current.json never dangles, whatever is killed and whenever the power fails,
\* but for the adopted rename: writeImmutableFile and its sync come before the
\* pointer, for any number of updaters.
THEOREM PointerResolves == Spec => []CurrentResolves
  <1>1. InstallInv => CurrentResolves
    BY DEF InstallInv, DurableInv, TypeOK, CurrentResolves
  <1> QED
    BY <1>1, Invariance, PTL

\* ReadCurrent without a lock gets the whole bundle its pointer named, for any
\* number of readers and updaters.
THEOREM ReadersGetWholeBundles == Spec => []ReadsAreWhole
  <1>1. InstallInv => ReadsAreWhole
    BY DEF InstallInv, DurableInv, DurableThread, ReadsAreWhole
  <1> QED
    BY <1>1, Invariance, PTL

\* What Install has reported as current is not rolled back, also by kills and
\* power failures, as long as no two updater processes overlapped.
THEOREM AcknowledgedStays == Spec => []AckedStays
  <1>1. InstallInv => AckedStays
    BY DEF InstallInv, AckedInv, AtLeast, AckedStays
  <1> QED
    BY <1>1, Invariance, PTL

\* Only verified bundles become current, and none that conflicts with the one
\* before it, as long as no two updater processes overlapped: Verify decided on
\* that very pointer, and what a power failure brings back came before it.
THEOREM Unequivocal == Spec => NoEquivocation
  <1> DEFINE Follows ==
        \/ raced
        \/ current'.seq > current.seq
        \/ SameAcceptance(current, current')
        \/ PowerFailure /\ current'.seq < current.seq
  <1>1. InstallInv /\ [Next]_vars =>
           [current' # None /\ current # None /\ current' # current =>
              current' \in Trusted /\ Follows]_vars
    <2> SUFFICES ASSUME InstallInv, Next, current' # None, current # None, current' # current
                 PROVE  current' \in Trusted /\ Follows
      OBVIOUS
    <2>1. TrustedPointer'
      BY NextTrusted DEF InstallInv
    <2>2. ASSUME NEW t \in Threads, Publish(t) PROVE Follows
      <3>1. Installing(t) /\ current' = job[t].bundle
        BY <2>2, BundleAssumption DEF Publish, At, InstallInv, JobInv, Installing
      <3>2. raced \/ Verify(job[t].bundle, current)
        BY <2>2, <3>1 DEF Publish, At, InstallInv, SerialInv, Decided
      <3> QED
        BY <3>1, <3>2 DEF Verify, SameAcceptance
    <2>3. ASSUME PowerFailure PROVE Follows
      <3>1. current' \in durable \ {None}
        BY <2>3 DEF PowerFailure
      <3>2. raced \/ AtLeast(current, current')
        BY <3>1 DEF InstallInv, OrderInv
      <3>3. current.seq \in Nat /\ current'.seq \in Nat
        BY <3>1, BundleAssumption DEF InstallInv, TypeOK
      <3> QED
        BY <2>3, <3>2, <3>3 DEF AtLeast, SameAcceptance
    <2>4. PowerFailure \/ \E t \in Threads : Publish(t)
      BY DEF Next, Step, StartInstall, StartRead, MakeDirectory, Inspect, StatCurrent,
             OpenCurrent, ReadBundle, WriteImmutable, SyncBundles, SyncCurrent, Fail, Kill, disk
    <2> QED
      BY <2>1, <2>2, <2>3, <2>4 DEF TrustedPointer
  <1> QED
    BY <1>1, Invariance, PTL DEF Spec, NoEquivocation
=============================================================================
