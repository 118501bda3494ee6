# TLA+ models of oh-my-safety

oh-my-safety watches the security posture of a workstation. A Bash runtime
(`lib/`) runs checks, a Go agent (`cmd/oh-my-safety-agent`, `internal/`) keeps
history, scans files, talks to an optional fleet controller and installs threat
intelligence. This directory holds TLA+ models of the parts whose correctness
depends on the order of steps, TLC configurations that check them on small
instances, and TLAPS proofs of the properties that matter most. `PROJECT.json`
maps every definition to the lines of code it models and lists the runs, the
mutated definitions that each property catches, the hazards and the theorems.

    tlc -workers 2 -config MCFindingJournal.cfg MCFindingJournal
    tlapm FindingJournalProofs.tla

## 1. Inventory

| Component | Code | State | Operations that change it | Model |
|---|---|---|---|---|
| Journal and finding projection | `internal/journal`, `internal/model` | `journal.db`: events, current_findings | Append, RebuildFindings | `FindingLifecycle`, `FindingJournal`, `AtomicJournal` |
| Scan ingestion bridge | `internal/bridge` | none of its own; the journal | IngestScan | `ScanIngest` |
| Managed policy cache | `internal/managed/policy.go` | policy file, revision ledger, lock file | FetchPolicy, persistVerifiedPolicy, LoadPolicy (reads) | `PolicyRegister`, `PolicyCache` |
| Fleet controller | `internal/controller` | SQLite: tokens, devices, groups, policies, findings, audit | enroll, heartbeat, rotate, report; revoke, policy and group changes | `ControllerStore`, `ControllerServer` |
| Managed client | `internal/managed/client.go`, `state.go`, `sync.go` | enrollment state file | EnrollFromEnvironment, RotateCredential, Sync | `Fleet` |
| Threat intelligence install | `internal/intel` | current.json, bundles/ | Install; ReadCurrent reads | `IntelInstall` |
| Scanners | `internal/scanner` | statistics and coverage of one scan | Scan, Triage | `BoundedScan` |
| Scan lock | `lib/state.sh`, used by `lib/runner.sh`, `lib/cmd/monitor.sh` | lock directory, pid file, pid.tmp | scan_lock_acquire, scan_lock_release | `ScanLock` |
| Scan runner | `lib/runner.sh` | scan files, per-check times, baselines | run_scan, run_one_check, persist | the snapshots it hands to the bridge |
| Notifications | `lib/state.sh`, `lib/core.sh` | notified files | notify_finding, resolve | not yet |
| Monitor loop | `lib/cmd/monitor.sh`, `lib/managed.sh` | worker pid, sync clock | start, reap, stop, managed_sync_if_due | start, kill and reaping, in `ScanLock` |
| Scheduler | `internal/scheduler` | none | Planner.Due, Executor | not yet |

The other parts (notifier channels, exposure lookups, checks and platform
probes, profiles, YAML configuration, canonical JSON, signing keys, command
lines) keep no state or only exchange data with the outside; `PROJECT.json`
lists each with the reason it is left out.

**How they interact.** A scan (manual, or a worker of the monitor) takes the scan
lock, runs checks, writes a snapshot file and has the agent ingest it: one
journal transaction per event. Readers list `current_findings`. The monitor
starts a managed sync now and then; the sync sends a heartbeat, fetches the
group's signed policy, which `LoadPolicy` later reads without any lock, and
reports the current findings if the policy asks for it. The controller is
shared by all endpoints and by administrators. The intelligence updater
publishes bundles that any process may read at any time.

**What is hard.**

* SQLite transactions of several processes: a deferred transaction reads first
  and takes the write lock later; a rebuild deletes everything and replays.
* An ingest is many transactions: it may stop anywhere, be repeated, or run twice.
* Two files (policy and ledger) that cannot be replaced together, with kills in
  between, responses of any age, and readers without a lock.
* A network that loses answers to requests that took effect (enroll, rotate) and
  lets the controller serve a request long after its client gave up.
* A request that is authenticated in one transaction and served in another.
* A bundle and a pointer to it, published while readers follow the pointer, and
  a power failure that keeps only what was synced.
* Files that grow, shrink, vanish or are replaced while they are scanned.
* A lock made of shell commands, each its own step, with kills between any two.

**What correct means.** Journal: rows are immutable, one row per event id, what
was acknowledged stays, the projection is what a replay gives. Bridge: an ingest
that is reported complete is complete, counts once, and resolves only on
evidence. Cache: no rollback and no equivocation ever reaches a reader, and the
cache recovers by itself. Controller: a token enrolls one device, revocation is
final, no edit is lost, the audit trail accounts for the state. Client: an
endpoint keeps its identity and, unless an answer is lost, its credential.
Intelligence: the pointer resolves, and what was acknowledged is not rolled
back. Scanners: the limits hold and nothing is left out silently. Lock: two
scans never overlap, and no dead scan blocks scanning for good.

## 2. Modules

`FindingLifecycle` is pure: what one event does to one finding (`projectFinding`,
`applyObservation`). Times are positive naturals and 0 is a nil pointer;
texts that are copied but never compared are left out; the severity stands for
the fields an observation overwrites.

`FindingJournal` is the database. `BeginAppend` is Append up to the event_id
lookup, which fixes the transaction's snapshot; `AppendDuplicate`, `AppendFails`
and `AppendCommit` are its three ends; `BeginRebuild`, `ReplayNext`,
`RebuildFails` and `RebuildCommit` are RebuildFindings row by row; `Abort` is a
killed process or a cancelled context. The variable `stale` models the one rule
of SQLite the code relies on without saying so: a read snapshot that somebody
committed after cannot be upgraded to a write. `hist` is an auxiliary variable
that records the projection after each row; no guard reads it. `ReplayStuck` is
a row with a `finding.` type outside the lifecycle, which Append stores and no
rebuild gets past; nothing in the repository appends one.

`ScanIngest` is IngestScan with one step per Append or read. An event is
identified by snapshot, kind and check, the triple whose hash is the
deterministic event id. It uses the projection of `FindingLifecycle`; an Append
is one step here. `Start` begins an ingest of a snapshot, again after a failure or
while another one runs; `Proceed` is what a begun ingest does next.

`AtomicJournal` is what the journal promises its callers: `Insert` adds a row, its
effect on the projection and the answer to the caller at once, `Repeat` answers
with the row that is there, and nothing else happens to the log or the findings.
It knows neither transactions nor rebuilds nor the lifecycle; the projection is a
parameter. `FindingJournal` implements it (`ImplementsAtomicJournal`), and
`ScanIngest` takes only its steps (`UsesAtomicJournal`, with the bridge's events, and
every row of the log as one somebody was answered with). This is what connects the
two models: the atomic Append the bridge is modelled with is the one the database
has been shown to provide.

`PolicyCache` is FetchPolicy, persistVerifiedPolicy and LoadPolicy, with the
controller as far as this cache sees it: UpdatePolicy, deletion and recreation
(which starts again at revision 1) and group assignment. `PolicyRegister` is
what the cache promises: per policy id a register that only rises, and readers
that get its value. The refinement mapping is `hi <- ledger`.

`ControllerStore` has one action per method of the store, each one transaction
on a pool of one connection. A refusal rolls back, so it is a step that changes
nothing. Random ids and credentials are fresh values; a policy's creation time
is the number of its audit row. `ControllerServer` extends it with the admin
API: handlers (in the code's lower camel case) that check a role and run one
transaction, and `copies`, the documents operators have read and edit.
The reads (`listDevices` ...) are actions that change nothing.

`Fleet` extends `ControllerServer` with the endpoints. A process of an endpoint
reads the state file once and then makes its calls; `req` holds the request it
waits for. `Authenticate` and the `Serve...` actions are the two transactions of
an agent route. `GiveUp` is a timeout, a lost connection, a killed process or a
failing write of the state file: the answer is gone, or the request moves to a
late slot, where the controller serves it at any later time or finds it
cancelled. What the endpoint does with a policy document is `PolicyCache`;
here its content only says whether reports are wanted, and reports carry versions
of findings in place of redacted rows. `FleetSpec`, which the proofs are about, has
the whole admin API; its part without policy edits, `FleetNext`, is what the run
`fleet` explores, from two prepared databases instead of an empty one.

`IntelInstall` is Install and ReadCurrent system call by system call. `files` and
`current` are what processes see. After a power failure the bundles of `synced` are
there, others of `files` may be, and `current` is an element of `durable`: the pointer
of the last directory sync, or that of any rename since, whichever of them the
kernel had written back. Temporary files are not
visible under a name anybody reads and are left out. `raced`, `adopted` and
`acked` are history: the properties use them to name their exceptions.

`BoundedScan` is both scanners: they go through their entries in the same way
and differ in what they skip, in what they do when a file is gone, and in the
triage's second comparison of the size. `walk` is the sequence of files that the
walks of all roots, or the candidates, present; files are named and typed when
the directory was listed, and looked at again later. Other processes resize a
file, change its mode, remove it or put a file of any type in its place (`Resize`,
`Chmod`, `Remove`, `Replace`), as often as they like; the constant `Shared` says which
files. os.Open of a FIFO waits for a writer without asking the context
(`OpenBlocks`, `Unblocked`), and of a link does what its target does.

`ScanLock` has one action per shell command, the clean-up after a pid file that
could not be written included (`UndoMkdir`). A worker of a monitor is a subshell,
so its `$$` is the supervisor's pid: `alive` holds pids, not workers, and a dead
supervisor makes the lock of a running worker look stale.

Every `MC*` module instantiates the module of its name for TLC. Operators
commented "Variant" are plausible wrong versions of the definition that follows
them; no action uses them, and `PROJECT.json` says which property each breaks.

## 3. Runs

| Run | Bounds | Shows |
|---|---|---|
| `journal` | 2 processes, 2 findings, 11 envelopes with 5 event ids, so at most 5 rows | ids unique although lookup and INSERT are apart; acknowledged rows last; every step is one of `AtomicJournal` or shows nothing; a rebuild changes nothing a reader sees; a replay accepts every lifecycle row; the fields of a finding agree with its state; each finding summarises exactly its rows, in whatever order they occurred |
| `ingest_turns` | 1 ingester, 2 checks, 3 snapshots, 2 kills, statuses ok, warn, skip, left out | scan.completed stands for a complete snapshot; findings mirror the last completely ingested snapshot; only a clean check resolves; an ingest that was begun and is not killed completes its snapshot |
| `ingest_race` | 2 ingesters, 1 check, 3 snapshots, 1 kill, statuses ok, warn, skip | retries count once; the bridge takes only steps of `AtomicJournal` |
| `policy_cache` | 2 syncs, 1 reader, 2 policies, 2 revisions, 2 contents, recreation | the ledger covers the cached policy; readers never roll back; the cache implements `PolicyRegister` |
| `policy_cache_heals` | 2 syncs, 2 policies, 2 revisions, no recreation | once the controller is quiet, the assigned policy is cached and readable for good |
| `controller` | an admin, an operator and a stranger, 2 tokens, 2 devices, 2 groups, 1 policy of up to 3 revisions, 2 contents, 4 audit rows, 3 credentials | a token enrolls one device; assignments resolve; the audit trail accounts for the state; no edit is lost |
| `fleet` | 2 processes of one endpoint, 2 tokens, 1 late request, 1 call given up, 2 rotations; starting unenrolled, or enrolled with findings to report | an endpoint keeps its identity, and its credential unless an answer was lost or two rotations met; revocation is final, also for requests authenticated before it; the controller ends up with the endpoint's findings |
| `intel_install` | 2 threads of one process or two, 3 trusted bundles, 2 with the same sequence, 1 forged, 2 faults | the pointer resolves; acknowledged bundles stay; readers get whole bundles; no equivocation; the newest bundle settles |
| `file_scan` | 3 files under two overlapping roots or 2 under one, 7 kinds of file, one file that others change without limit, limits of 2 bytes, 2 files, depth 1 and 1 finding | the limits hold; silence means inspected; the statistics add up; untouched files raise no false alarm; every scan ends, but for one exception |
| `scan_lock` | 2 monitors, 2 kills of workers, 1 mortal supervisor with or without its worker | two contenders with live supervisors never scan together; scanning goes on; both under the conditions of section 5 |
| `scan_lock_handover` (violation) | 1 monitor, 2 manual scans, no kills | see finding 1 |
| `scan_lock_wedged` (violation) | 1 monitor, 1 manual scan that is killed | see finding 2 |

**Why these bounds.** They are chosen so that the cases the properties are about
happen; that no larger instance behaves differently is shown only by the proofs,
for what they cover (section 5). The journal's log is bounded by the event ids, and the
envelopes are chosen so that one finding goes through every transition, out of
order, with a conflicting id, a malformed payload and a missing finding id. Three snapshots let a
finding appear, disappear and come back with a partial scan in between. When
ingests race, three of one check are needed for the refusal the bridge has to
live with: a snapshot that found the problem, and two clean ones whose
resolutions meet, of which the journal accepts one. Two
revisions and two contents tell rollback and equivocation apart; two policies
are needed for a late response of a policy assigned before. Two syncs and one
reader interleave every pair of writes with both reads.

Four audit rows let a policy be created, updated, deleted and created again, or
a device be issued a token, moved and revoked; three credentials let one of two
devices rotate. In `fleet` the two starting points keep enrollment and reporting,
which need different rows, in one run; a request given up and served late needs
one late slot, and the second process provides the newer requests it overtakes.
Two faults make a kill and then a power failure, the shortest way to lose a
rename that somebody built on; a third bundle makes two renames without a sync
between them. In `file_scan` the file others work on is the one in the middle of the
walk, which overlapping roots visit twice. It is changed at every point of the
scan and without limit; a change before the scanner reaches a file amounts to
another file to begin with, and the proofs are for any set of files. The limits
are such that the total is met exactly, exceeded before and exceeded during a
read, and that the larger walk exceeds the other limits.
In `ScanLock` the bounds on kill points separate what the code recovers from
(`scan_lock`) from what it does not (`scan_lock_wedged`).

Every run but the two of `ScanIngest` and `file_scan` also checks that no state is a
deadlock: callers may always retry an event, syncs and installs repeat, and the
monitor's loop never ends. An ingest instance stops once its last snapshot is
ingested, a file scan when it has returned. The larger runs (`controller`,
`fleet`, `ingest_turns`, `intel_install`, `file_scan`) take one to two minutes with two workers.

**What the properties except, and why.**

* `EndpointKeepsAccess`: a rotation whose answer is lost locks the endpoint out
  until it is enrolled anew, and so do two rotations at once, because the
  state file has no lock and the controller keeps one credential.
* `NoLostUpdate`: an edit read before its policy was deleted and created again
  has a revision number that may fit the new document; UpdatePolicy compares
  nothing else.
* `CurrentResolves`, `AckedStays`, `NewestSettles`: a bundle file, or a pointer,
  that a killed Install renamed and did not sync is taken for granted by the
  next one (the early returns at `install.go:98` and `install.go:275`), so a
  power failure may then lose it. Two updater processes may publish the lower
  sequence last; `docs/offline-intelligence.md:159` asks for one updater.
* `NoEquivocation`: a power failure may take the pointer back to the last synced
  one or to any rename since, which has a lower sequence; never to another bundle
  of the same sequence. Two updater processes are excepted as above.
* `Terminates`: a FIFO that comes in the place of a file after its Lstat makes
  os.Open (`secret.go:453`, `executable.go:291`) wait for a writer, and the context is
  not consulted meanwhile. The checks that the opened file is regular and the
  same (`secret.go:463`, `executable.go:301`) come after the open.
* `SilenceMeansInspected`: a file replaced between Lstat and open is not read. The
  triage counts it as not regular; the secret scanner counts it as scanned.
* `AlarmsAreReal` holds for files nobody touches: the triage reports a file whose
  size changed, even one that shrank, as exceeding a limit.

## 4. Fairness

Only the runs that check a liveness property use it.

* `ScanIngest` (`ingest_turns`): weak fairness of the next step of an ingest that was
  begun: a process that was not killed goes on. That an ingest is begun, or begun
  again, is not assumed: `_journal_ingest_scan` (`runner.sh:326`) runs the agent once
  per scan and records a failure, and the next scan brings a new snapshot.
  `AttemptsComplete` is therefore about attempts: each ends, and unless it was killed
  its snapshot is completely ingested.
* `PolicyCache`: weak fairness of FetchPolicy, because the monitor syncs again
  and again, and strong fairness of the later steps, because a sync that is killed
  is followed by another, and not every one is killed at the same point or finds
  the flock taken.
* `Fleet`: weak fairness of the controller's work on every request (net/http runs a
  goroutine per request), of starting a sync (the monitor's loop) and of
  receiving an answer that was not lost, and strong fairness of ReceivePolicy,
  because not every policy that is fetched fails to be persisted. Lost answers
  are bounded by MaxTimeouts. `ReportsConverge` assumes that the endpoint is
  in the end authorised and asked to report.
* `IntelInstall`: weak fairness of the steps of a call that was begun, and strong
  fairness of installing a newest trusted bundle: an updater that runs again and
  again gets the mutex sooner or later. Faults are bounded by MaxFaults.
* `BoundedScan`: weak fairness of the scanner's own steps. It is never assumed
  that files stop changing, or that somebody writes to a FIFO.
* `ScanLock`: weak fairness of the steps of every shell that was not killed (the
  monitor's loop never ends) and strong fairness of the passing of the grace
  period. `MayStall = FALSE` says that no shell takes more than 30 s between two
  commands that change the lock, the assumption the grace period rests on.

## 5. Proofs

Every theorem holds for every number of processes, endpoints, devices, checks,
snapshots, bundles and files, and for every bound, which includes the bounds that
keep the runs finite: none is used but as a natural number. The proofs assume only
the named ASSUMEs of the modules: markers (NoEvent, NoProc, NoFinding, NoDoc,
NoBody, None) are not elements of the sets they complete, submitted envelopes are
envelopes, there is a severity, there is some metadata, the bounds are natural
numbers (limits, attempts and chunks positive), every process has a home endpoint,
late slots are not processes, bundles have positive sequences, and a snapshot
lists at least one check and every check has its place in CheckOrder. TLC evaluates
them all in the runs. A few theorems have hypotheses of their own, which a run
satisfies too: FindingsMirrorLastScan assumes `Serialised`, the scan lock held until
the ingest is over (`ingest_turns`), and those on exclusion assume what is said
below of the grace period and of kills (`scan_lock`).

Each proof module states its inductive invariant as a conjunction of named parts,
shows that every action keeps every part, and then derives the properties in a
line or two. The properties are the ones the runs check; `PROJECT.json` pairs
theorem and property.

`FindingJournalProofs`:

* `TypeCorrect` from `TypeInv` = TypeOK and `Named` (a lifecycle event that is being
  appended, or is in the log, has a finding id); without `Named` the projection
  would be applied outside its domain.
* `EventIDsAreUnique` and `AcknowledgedRowsLast` from `RowInv`, which adds
  `SnapshotCurrent`: an open Append whose snapshot is not stale saw all rows.
  That is what makes a lookup at the snapshot as good as one at the INSERT.
* `RowsAreImmutable`: every step leaves the log alone or appends.
* `JournalIsAtomic`, the refinement of `AtomicJournal`: a commit inserts, because the
  lookup at its snapshot still holds (`CommitInserts`); a duplicate repeats the
  row it found (`DuplicateRepeats`); a rebuild that commits puts back the projection
  that was there; all other steps change nothing a caller sees.
* `ReplayIsAccepted` and `RebuildIsInvisible` from `HistInv`: the k-th row was
  projectable in `hist[k-1]` and gives `hist[k]`; readers see `hist[Len(log)]`;
  the replay's shadow is `hist[cursor]`. A replay therefore meets each row in
  the state in which it was appended, and ends in the projection readers have.
* `FieldsAgreeWithState` from `CoherentInv`: every transition keeps the fields of
  a finding in agreement with its state.
* `FindingsSummariseRows` from `SummaryInv`: a finding with rows is not absent and its
  fields are the extremes of these rows. One more row about it gives the
  summary of one more row (`SummaryStep`), a row about another one leaves it
  (`SummaryKept`), and a rebuild does not change what readers see.

`PolicyCacheProofs`: from `CacheInv` = `OneWriter` (one process between lock and
release), `LedgerHasHeld` (a process that wrote the ledger finds its document
there), `LedgerCoversPolicy` and `LoadedCovered` (the ledger is at or beyond what
readers got): `TypeCorrect`, `LedgerCovers`, `NoRollback`, and
`CacheImplementsRegister`, the refinement step by step.

`IntelInstallProofs`, from `InstallInv`:

* `JobInv` (only a trusted bundle gets beyond Verify) and `MutexInv` (a thread is
  installing exactly when it holds its process's mutex) say where each call is.
* `DurableInv`: unless a rename was adopted, every pointer a power failure may bring
  back names a synced bundle, as the current one does, and every thread that is
  about to publish has a synced bundle. With it: `PointerResolves` and
  `ReadersGetWholeBundles`, for any number of updaters.
* `SerialInv`: without a race one thread at a time installs, and what Verify
  compared with is still current. With it, `TrustedPointer` (all these pointers are
  to trusted bundles) and `OrderInv` (without a race, the current one has a higher
  sequence than each of the others, or the same acceptance): `Unequivocal`. With
  `AckedInv` (every one of them is at or beyond what was acknowledged):
  `AcknowledgedStays`.

`ControllerProofs`. What concerns the tables alone is proved for `StoreStep`, any
transaction of the store, so that it serves `ControllerServer` and `Fleet`.

* `TokensAreOneUse` needs `CredsMinted` (no credential beyond the last minted one);
  the types need `TokenGroups` (an issued token has a group for its device).
* `AssignmentsAlwaysResolve` and `ServerRevocationIsFinal` follow from the
  transactions themselves.
* `NoUpdateIsLost` from `EditInv`: a policy was born at a row of the trail, and of a copy
  of the same birth, the revision is at most the stored one and, when equal, so is
  the document. The revision number the WHERE clause compares thus stands for
  the document it was read from.
* `TrailAccountsForState` from `AuditInv`, which says for each kind of object which rows
  are open in the trail. It is about cardinalities of sets of row numbers: a change
  adds the number of its row to one of them and leaves the others alone.

`FleetProofs`, from `FleetInv`. A lemma first reduces the twenty or so actions to three
shapes (nothing about credentials changes; one slot's request begins, continues
or ends; a credential is issued or stored), and each part of the invariant is then
shown once per shape.

* `RequestsInv` (what a request carries, and that late requests have no answer),
  `IdentityInv` (a process acts for the device of its endpoint), `OwnerInv` (no two
  endpoints are one device) and `GrantInv` (a grant under way is the stored
  credential of a device nobody else has) give `IdentityIsStable`.
* `AccessIsKept` needs `MintedInv` (credentials under way were minted, so a new one
  is none of them) and `AccessInv`: unless a rotation was disturbed, an endpoint's
  credential is the controller's and at most one rotation is about, or the new
  credential is in the answer one of its processes is about to store and no other
  request has it.
* `FleetRevocationIsFinal` and `FleetTokensAreOneUse`, for requests served after their
  clients gave up.
* `FleetImplementsController`: FleetSpec implies the specification of `ControllerServer`, in
  which a request is authenticated and served in one step. A request served late
  carries what its client put into it (`RequestsInv`), so serving it is a step of the
  controller. `FleetKeepsControllerPromises` carries the theorems of
  `ControllerProofs` over.

`ScanIngestProofs`, from `IngestInv`: `PlaceInv` (what an ingester has passed is in the
journal), `RowsInv` (the journal has only rows its snapshots call for),
`CompleteInv` (and scan.completed after them), `CountInv` (occurrences count the
snapshots whose observation is there: equal ids make a second Append a duplicate)
and, when ingests take turns, `TurnsInv` (the rows of the last snapshot decide the
state). They give `CompletedSnapshotsAreWhole`, `OccurrencesCountSnapshots`,
`FindingsMirrorLastScan` and, for steps, `OnlyCleanChecksResolve`.
`IngestUsesAtomicJournal` is the refinement: an Append of a row that is there repeats it,
any other inserts an event whose id no row has.

`BoundedScanProofs`, from `ScanInv`: `Budgets` (what was read and what may still be read
of the open file stay within the total), `Books` (a file considered is accounted
for, but for the one being read), `Silence` (while there is no alarm, all entries
passed were inspected or are excused), `Untouched` (while nobody changes files,
the open one fits its limit) and `Regular` (a file about to be opened that nobody
touched is still a regular one). They give `LimitsAlwaysHold`, `StatisticsAddUp`,
`NoSilentGaps` and `NoFalseAlarms`, for walks and files of any size. `ScansGetFurther` is
the safety half of `Terminates`: position, stage and bytes of the open file grow
lexicographically with each step of the scanner and are bounded, and no change
of a file takes the scan back. `OnlySwappedFilesBlock` is about the stage at which
that may stop: a scanner waits in os.Open only at a file somebody has touched.

`ScanLockProofs`. `TypeCorrect` from `TypeInv`, wherever shells are killed. Exclusion from
`LockInv`: while all shells live, one of them at most holds the lock (`Holds`: from
mkdir to rmdir), the pid file names the holder once it is written, and a lock without
an owner is young, so that no lock looks stale and nobody sweeps (`Orderly`).

* `ExclusionWhileAllLive`: any number of monitors and manual scans never scan together
  until the first of them has ended. The first death is where the stale-lock
  recovery begins; finding 1 shows that three contenders do not survive it.
* `TwoContendersExclude`: of two contenders the survivor has nobody to overlap with, so
  `LiveExclusion` always holds.

Both need `~MayStall`, the assumption of the 30 s grace period, and that workers are
killed only at `NamedPoints`, where the lock names its owner or is not held: a
worker killed between mkdir and its pid, or between the two steps of its release,
leaves a lock without owner to two sweepers, of which the slower removes the
lock the faster has taken. Supervisors and manual scans may be killed anywhere.

**Only model-checked.**

* The liveness properties (`AttemptsComplete`, `Converges`, `ReportsConverge`,
  `NewestSettles`, `Terminates`, `ScansGoOn`): TLAPS 1.4.5 does not handle ENABLED and
  fairness.
* What a recursive definition computes for every input would need induction
  theorems with operator parameters, which the installed provers cannot
  instantiate; no module uses RECURSIVE.

## 6. Findings

1. **The scan lock can be taken from a live owner** (`scan_lock_handover`).
   scan_lock_acquire reads the owner, asks `kill -0`, and then removes pid and
   directory. When the owner it read ends normally and another scan acquires the
   lock before the removal, the new owner's lock is removed and a third scan runs
   beside it. Nobody has to crash, but three contenders are needed: for two
   whose supervisors live `LiveExclusion` holds, if no shell stalls beyond the grace
   period and workers are killed only where the lock names its owner or is not
   held (section 5). `docs/monitoring.md:109` says "checks never
   overlap and corrupt baselines". A worker that outlives its supervisor loses its
   lock in the same way; `LiveExclusion` leaves such workers out.
2. **A kill inside the pid write wedges the lock** (`scan_lock_wedged`).
   `pid.tmp.$$` stays in the directory, no reclaiming removes it, and `rmdir`
   fails for ever, although the comment at `lib/state.sh:278` promises recovery.

## 7. Not modelled

Parsing and validation of documents, scan files and configuration, a report that
report.Validate refuses included; errors of the shell's file commands other
than a missing file or directory (a full disk); signatures
(a document that does not verify changes nothing); the loss of unsynced
directory entries at a power failure, but for threat bundles, where the
directories themselves are taken to last; a spurious refusal when two processes
rename the same bundle file at the same time; reuse of pids; the wording of
output and notifications; requests to third parties; the request limits of the
controller's HTTP server. What the secret detectors match, package ownership and
the triage's signals are data. `ListFindings`, `Read` and `CurrentFinding` change
nothing; that `ListFindings` sorts timestamps as text (`sqlite.go:564`) is listed
as a hazard.

## 8. Plan

1. `ScanRunner`: checks of one scan, due times, partial results merged into the
   last scan, baselines, composed with `ScanIngest` and the scan lock. Properties:
   a due check runs, a partial scan changes only what it evaluated.
2. `Notifications`: deduplication, escalation, recovery notices; a skipped check
   and the suffix match of `grep -vF` are the hazards.
3. The monitor's sync cadence under a clock that goes back, and `Planner`.
