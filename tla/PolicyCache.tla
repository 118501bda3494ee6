----------------------------- MODULE PolicyCache -----------------------------
(***************************************************************************)
(* The managed endpoint's policy cache (internal/managed/policy.go):       *)
(* FetchPolicy and persistVerifiedPolicy on one side, LoadPolicy on the    *)
(* other, over two files that are each replaced atomically but not         *)
(* together: the cached policy and the revision ledger.  Several sync      *)
(* processes run at the same time, hold responses for any length of time,  *)
(* and may be killed between the two writes; LoadPolicy takes no lock.     *)
(*                                                                         *)
(* Signatures are external: a document that does not verify against the    *)
(* enrolled pin is refused before anything here happens.  A document's     *)
(* content, of which the ledger keeps the SHA-256, is a value of Bodies.   *)
(***************************************************************************)
EXTENDS Naturals, FiniteSets

CONSTANTS
    Procs,         \* processes running a sync
    Readers,       \* processes running LoadPolicy
    PolicyIDs,
    Bodies,
    NoBody,
    NoDoc,
    MaxRemembered, \* maxRememberedPolicyIDs
    MaxRev,        \* bound: revisions the controller issues
    MayRecreate    \* the controller may delete a policy and create it again

ASSUME BoundsAssumption ==
    MaxRemembered \in Nat \ {0} /\ MaxRev \in Nat \ {0}
ASSUME MayRecreateAssumption == MayRecreate \in BOOLEAN
ASSUME NoBodyAssumption == NoBody \notin Bodies

Docs == [id : PolicyIDs, rev : Nat \ {0}, body : Bodies]

ASSUME NoDocAssumption == NoDoc \notin Docs

VARIABLES
    server,    \* server[id]: the controller's current document of policy id
    assigned,  \* the policy of the device's group
    policy,    \* the cached policy file, or NoDoc
    ledger,    \* the ledger file's entry per policy id; a ledger without
               \* entries is a missing file
    pc,        \* pc[p]: how far p's FetchPolicy got
    held,      \* held[p]: the verified response p is about to persist
    reading,   \* reading[r]: the policy r read, before it reads the ledger
    loaded     \* loaded[id]: the entry LoadPolicy last returned for id

files == <<policy, ledger>>
procs == <<pc, held>>
vars == <<server, assigned, files, procs, reading, loaded>>

Register == INSTANCE PolicyRegister WITH hi <- ledger

Entries == [rev : Nat, body : Bodies \cup {NoBody}]
NoEntry == [rev |-> 0, body |-> NoBody]
EmptyLedger == [id \in PolicyIDs |-> NoEntry]
EntryOf(d) == [rev |-> d.rev, body |-> d.body]

-----------------------------------------------------------------------------
(***************************************************************************)
(* The controller, as far as the endpoint can see it                       *)
(***************************************************************************)
UpdatePolicy(id) ==
    /\ server[id].rev < MaxRev
    /\ \E b \in Bodies :
          server' = [server EXCEPT ![id] = [id |-> id, rev |-> @.rev + 1, body |-> b]]
    /\ UNCHANGED <<assigned, files, procs, reading, loaded>>

\* DeletePolicy and CreatePolicy of an unassigned policy; revisions start over.
RecreatePolicy(id) ==
    /\ MayRecreate
    /\ id # assigned
    /\ \E b \in Bodies : server' = [server EXCEPT ![id] = [id |-> id, rev |-> 1, body |-> b]]
    /\ UNCHANGED <<assigned, files, procs, reading, loaded>>

AssignGroupPolicy(id) ==
    /\ assigned # id
    /\ assigned' = id
    /\ UNCHANGED <<server, files, procs, reading, loaded>>

-----------------------------------------------------------------------------
(***************************************************************************)
(* policyRevisionLedger                                                    *)
(***************************************************************************)
Remembered(l) == {id \in PolicyIDs : l[id] # NoEntry}

\* Variant: accepts a revision again whatever its content.
ObservableSameRev(l, d) ==
    IF l[d.id] = NoEntry
    THEN Cardinality(Remembered(l)) < MaxRemembered
    ELSE d.rev >= l[d.id].rev

\* observe returns no error: no rollback, no equivocation, room for a new id.
Observable(l, d) ==
    IF l[d.id] = NoEntry
    THEN Cardinality(Remembered(l)) < MaxRemembered
    ELSE d.rev > l[d.id].rev \/ l[d.id] = EntryOf(d)

Observe(l, d) == [l EXCEPT ![d.id] = EntryOf(d)]

\* Variant: a missing ledger forgets the cached policy.
SeededEmpty == ledger

\* A missing ledger is seeded from the cached policy, if there is one.
Seeded ==
    IF ledger = EmptyLedger /\ policy # NoDoc THEN Observe(ledger, policy) ELSE ledger

\* verifyCurrent
VerifyCurrent(l, d) == l[d.id] = EntryOf(d)

-----------------------------------------------------------------------------
(***************************************************************************)
(* FetchPolicy and persistVerifiedPolicy                                   *)
(***************************************************************************)
\* The response is the document of the moment the controller answered; the
\* process may hold it for as long as it likes.
FetchPolicy(p) ==
    /\ pc[p] = "idle"
    /\ pc' = [pc EXCEPT ![p] = "fetched"]
    /\ held' = [held EXCEPT ![p] = server[assigned]]
    /\ UNCHANGED <<server, assigned, files, reading, loaded>>

Locked == \E q \in Procs : pc[q] \in {"locked", "ledgered"}

\* Variant: the response outlives the sync.
ReturnHolding(p) ==
    /\ pc' = [pc EXCEPT ![p] = "idle"]
    /\ UNCHANGED held

Return(p) ==
    /\ pc' = [pc EXCEPT ![p] = "idle"]
    /\ held' = [held EXCEPT ![p] = NoDoc]

\* flock with LOCK_NB: an update in progress ends this one with an error.
AcquireLock(p) ==
    /\ pc[p] = "fetched"
    /\ IF Locked
       THEN Return(p)
       ELSE pc' = [pc EXCEPT ![p] = "locked"] /\ UNCHANGED held
    /\ UNCHANGED <<server, assigned, files, reading, loaded>>

\* observe refuses the document: nothing is written, a missing ledger included.
RejectPolicy(p) ==
    /\ pc[p] = "locked"
    /\ ~Observable(Seeded, held[p])
    /\ Return(p)
    /\ UNCHANGED <<server, assigned, files, reading, loaded>>

\* The ledger comes first.
PersistLedger(p) ==
    /\ pc[p] = "locked"
    /\ Observable(Seeded, held[p])
    /\ ledger' = Observe(Seeded, held[p])
    /\ pc' = [pc EXCEPT ![p] = "ledgered"]
    /\ UNCHANGED <<server, assigned, policy, held, reading, loaded>>

\* Variant: the cache is left alone when the ledger already had the revision.
InstallsOnlyNew(d) == policy = NoDoc \/ ledger[d.id] # EntryOf(d)

\* The file is rewritten unless it holds the same document already.
Installs(d) == policy # d

\* Link or rename of the policy file, and the release of the lock.
InstallPolicy(p) ==
    /\ pc[p] = "ledgered"
    /\ policy' = IF Installs(held[p]) THEN held[p] ELSE policy
    /\ Return(p)
    /\ UNCHANGED <<server, assigned, ledger, reading, loaded>>

\* The process is killed, or one of its file operations fails; the flock is
\* released either way.
Kill(p) ==
    /\ pc[p] # "idle"
    /\ Return(p)
    /\ UNCHANGED <<server, assigned, files, reading, loaded>>

-----------------------------------------------------------------------------
(***************************************************************************)
(* LoadPolicy: the policy file first, the ledger after it, without a lock  *)
(***************************************************************************)
ReadPolicy(r) ==
    /\ reading[r] = NoDoc
    /\ policy # NoDoc
    /\ reading' = [reading EXCEPT ![r] = policy]
    /\ UNCHANGED <<server, assigned, files, procs, loaded>>

\* Variant: the cached policy is returned without looking at the ledger.
ReturnsUnverified(d) == TRUE

Returns(d) == VerifyCurrent(ledger, d)

ReadLedger(r) ==
    /\ reading[r] # NoDoc
    /\ loaded' = IF Returns(reading[r])
                 THEN [loaded EXCEPT ![reading[r].id] = EntryOf(reading[r])]
                 ELSE loaded
    /\ reading' = [reading EXCEPT ![r] = NoDoc]
    /\ UNCHANGED <<server, assigned, files, procs>>

-----------------------------------------------------------------------------
\* The cache starts empty, or with a policy cached before there was a ledger.
Init ==
    /\ server \in {s \in [PolicyIDs -> [id : PolicyIDs, rev : {1}, body : Bodies]] :
                      \A id \in PolicyIDs : s[id].id = id}
    /\ assigned \in PolicyIDs
    /\ policy \in {NoDoc, server[assigned]}
    /\ ledger = EmptyLedger
    /\ pc = [p \in Procs |-> "idle"]
    /\ held = [p \in Procs |-> NoDoc]
    /\ reading = [r \in Readers |-> NoDoc]
    /\ loaded = EmptyLedger

Sync(p) ==
    \/ FetchPolicy(p)
    \/ AcquireLock(p)
    \/ RejectPolicy(p)
    \/ PersistLedger(p)
    \/ InstallPolicy(p)

Next ==
    \/ \E id \in PolicyIDs : UpdatePolicy(id) \/ RecreatePolicy(id) \/ AssignGroupPolicy(id)
    \/ \E p \in Procs : Sync(p) \/ Kill(p)
    \/ \E r \in Readers : ReadPolicy(r) \/ ReadLedger(r)

Spec == Init /\ [][Next]_vars

\* The monitor syncs again and again, and not every sync is killed at the same
\* point of its way.
FairSpec ==
    /\ Spec
    /\ \A p \in Procs : /\ WF_vars(FetchPolicy(p))
                         /\ SF_vars(AcquireLock(p))
                         /\ SF_vars(RejectPolicy(p))
                         /\ SF_vars(PersistLedger(p))
                         /\ SF_vars(InstallPolicy(p))

-----------------------------------------------------------------------------
\* The types of the files, the responses and the readers' copies.
TypeOK ==
    /\ server \in [PolicyIDs -> Docs]
    /\ \A id \in PolicyIDs : server[id].id = id
    /\ assigned \in PolicyIDs
    /\ policy \in Docs \cup {NoDoc}
    /\ ledger \in [PolicyIDs -> Entries]
    /\ pc \in [Procs -> {"idle", "fetched", "locked", "ledgered"}]
    /\ held \in [Procs -> Docs \cup {NoDoc}]
    /\ \A p \in Procs : pc[p] = "idle" <=> held[p] = NoDoc
    /\ reading \in [Readers -> Docs \cup {NoDoc}]
    /\ loaded \in [PolicyIDs -> Entries]

\* The cached policy is never ahead of the ledger: whenever there is a ledger,
\* it remembers the cached document or a later revision of the same policy, so
\* no kill between the two writes lets a revision be forgotten.
LedgerCoversPolicy ==
    policy # NoDoc /\ ledger # EmptyLedger =>
        \/ ledger[policy.id] = EntryOf(policy)
        \/ ledger[policy.id].rev > policy.rev

\* What LoadPolicy returns for a policy id never goes back to a lower revision
\* and never changes without a higher one, whatever late responses arrive,
\* whoever else writes, and however often a policy is deleted and recreated.
LoadNeverRollsBack ==
    [][\A id \in PolicyIDs :
          loaded'[id] # loaded[id] => loaded'[id].rev > loaded[id].rev]_vars

\* The cache implements the abstract register.
ImplementsRegister == Register!Spec

\* The cache heals: once the controller stops changing, the endpoint ends up
\* with the assigned policy cached and readable, although syncs may have been
\* killed between the ledger and the policy, and late responses of a policy
\* assigned earlier may have overwritten the file.
Converges ==
    (<>[][FALSE]_<<server, assigned>>)
        => <>[](policy = server[assigned] /\ VerifyCurrent(ledger, server[assigned]))

=============================================================================
